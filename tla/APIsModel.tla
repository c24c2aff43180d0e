----------------------------- MODULE APIsModel -----------------------------
(***************************************************************************)
(* NewAPIsBuilder with the ParseStructs call of ParseAPIs composed in:     *)
(* after the versions of a group are assembled, ParseStructs runs its      *)
(* work-list for that group (the actions of StructGraph, instantiated as   *)
(* SG), and only then is the group put in apis.Groups.                     *)
(*                                                                         *)
(* The declarations of APIsBuilder are types of StructGraph: a resource or *)
(* subresource type is a Struct with the declaration's package and name,   *)
(* and it is flagged GenClient when it is a resource.                      *)
(***************************************************************************)
EXTENDS APIsBuilder

CONSTANTS
  Types,          \* the declarations and every type their members use
  TypeKind,       \* as in StructGraph
  TypeName,
  TypePkg,
  TypeElem,
  NoType,
  UnversionedOff,
  MetaV1Pkg,
  MemberChoices

ASSUME /\ Decls \subseteq Types
       /\ \A d \in Decls : TypePkg[d] = DeclPkg[d] /\ TypeName[d] = DeclName[d]

VARIABLES
  members, remaining, done, structs, flattened,  \* ParseStructs, as in StructGraph
  current   \* the group ParseAPIs is assembling: its name and APIGroup

sgvars == <<members, remaining, done, structs, flattened, current>>

allvars == <<vars, sgvars>>

\* b.SubByGroupVersionKind[group]
GroupSubresources(g) ==
  [v \in {k[2] : k \in {k \in DOMAIN subByGVK : k[1] = g}} |->
     {subByGVK[k] : k \in {k \in DOMAIN subByGVK : k[1] = g /\ k[2] = v}}]

\* ParseStructs of one group.  b.GenClient reads the "+resource:" tag that
\* makes a declaration a resource (a resource without it fails in
\* ParseIndex), so the GenClient types are ResourceDecls.  The seeds are
\* taken from the assembled group by StructSeeds, not from SG's constants.
SG == INSTANCE StructGraph
        WITH ResourceTagged <- ResourceDecls,
             SubresourceRequestTagged <- SubresourceDecls,
             ResourcesByVersion <- [v \in {} |-> {}],
             SubresourcesByVersion <- [v \in {} |-> {}]

-----------------------------------------------------------------------------
\* Bug variant: the work-list is seeded with the resource types only
StructSeedsNoSubresources(g, grp) ==
  SG!MapOrders([v \in DOMAIN grp.versions |->
                  {r.decl : r \in Range(grp.versions[v].resources)}])

\* The first loops of ParseStructs: every resource type of every version,
\* then every subresource type of the group, each in Go map order
StructSeeds(g, grp) ==
  { r \o s : r \in SG!MapOrders([v \in DOMAIN grp.versions |->
                                   {x.decl : x \in Range(grp.versions[v].resources)}]),
             s \in SG!MapOrders(GroupSubresources(g)) }

\* The group's versions are assembled: b.ParseStructs(apiGroup) starts
StartStructs(g, vo) ==
  /\ current' = [name |-> g, group |-> GroupOf(g, vo)]
  /\ remaining' \in StructSeeds(g, GroupOf(g, vo))
  /\ done' = {}
  /\ structs' = <<>>
  /\ flattened' = {}
  /\ pc' = "ParseStructs"
  /\ UNCHANGED <<tags, parsed, order, i, failure, builder, members>>

FailStructs(why) == Fail(why) /\ UNCHANGED sgvars

\* One iteration of the group loop of ParseAPIs, up to the ParseStructs call
ParseAPIsGroupStructs ==
  /\ pc = "ParseAPIs"
  /\ \E c \in GroupChoices :
       IF NilGroupPkg(c[1]) THEN FailStructs("NilDereference")
       ELSE StartStructs(c[1], c[2])

\* One iteration of the ParseStructs loop of the current group
ParseStructsStep ==
  /\ pc = "ParseStructs"
  /\ SG!SkipDone \/ SG!Flatten
  /\ UNCHANGED <<vars, current>>

\* ParseStructs returns; apis.Groups[group] = apiGroup
ParseStructsReturn ==
  /\ pc = "ParseStructs"
  /\ remaining = <<>>
  /\ groups' = Put(groups, current.name, current.group @@ [structs |-> structs])
  /\ pc' = "ParseAPIs"
  /\ UNCHANGED <<tags, parsed, order, i, failure, versionedPkgs, unversionedPkgs,
                 apisPkg, domain, groupNames, byGVK, byGKV, subByGVK, controllers,
                 sgvars>>

ModelInit ==
  /\ Init
  /\ members \in SG!MemberUniverses
  /\ remaining = <<>>
  /\ done = {}
  /\ structs = <<>>
  /\ flattened = {}
  /\ current = [name |-> "", group |-> EmptyMap]

ModelNext ==
  \/ /\ \/ ParsePackagesStep \/ EndLoop \/ ParseDomain \/ ParseGroupNames
        \/ ParseIndexStep \/ ParseControllersStep \/ ParseAPIsReturn
     /\ UNCHANGED sgvars
  \/ ParseAPIsGroupStructs
  \/ ParseStructsStep
  \/ ParseStructsReturn

\* Sequential code that never blocks
ModelSpec == ModelInit /\ [][ModelNext]_allvars /\ WF_allvars(ModelNext)

-----------------------------------------------------------------------------
(* Properties                                                              *)

\* The struct of bare name n in a list of structs, if any
StructsNamed(S, n) == {j \in DOMAIN S : S[j].name = <<n>>}

\* When NewAPIsBuilder returns, every group's Structs hold, for each kind of
\* its unversioned resources, a struct of that name flagged for client and
\* deep-copy generation, and for each subresource request type indexed under
\* the group a struct of its name flagged for deep-copy: the seeds
\* ParseStructs takes from the versions ParseAPIs assembled and from
\* SubByGroupVersionKind reach every type the generator emits a client or
\* deep-copy functions for.
GeneratedStructsComplete ==
  Returned =>
    \A g \in DOMAIN groups :
      LET S == groups[g].structs
      IN /\ \A k \in DOMAIN groups[g].unversioned :
              \E j \in StructsNamed(S, k) : S[j].genClient /\ S[j].genDeepCopy
         /\ \A key \in {k \in DOMAIN subByGVK : k[1] = g} :
              \E j \in StructsNamed(S, DeclName[subByGVK[key]]) : S[j].genDeepCopy

\* NewAPIsBuilder, with a ParseStructs run per group, ends: it returns or fails.
ModelTermination == <>(pc \in {"Returned", "Failed"})

=============================================================================
