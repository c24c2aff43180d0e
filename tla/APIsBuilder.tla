---------------------------- MODULE APIsBuilder ----------------------------
(***************************************************************************)
(* NewAPIsBuilder of src/cmd/apiregister-gen/generators/parser.go: the     *)
(* phases ParsePackages, ParseDomain, ParseGroupNames, ParseIndex (with    *)
(* GetSubresources), ParseControllers and ParseAPIs, run in that order     *)
(* over the declarations of the gengo universe in context.Order.           *)
(*                                                                         *)
(* A declaration is a model value with a package path, a name and the      *)
(* predicates the code reads of it (IsAPIResource, IsAPISubresource,       *)
(* HasSubresource, IsNonNamespaced, IsController).  Its directive tags are *)
(* token sequences parsed by TagParser.  Every loop iteration over         *)
(* context.Order or over a Go map is one step; log.Fatal and panic end the *)
(* run with a failure.  ParseStructs, which ParseAPIs calls per group, is  *)
(* modelled by StructGraph: a group here records the seeds it hands over.  *)
(***************************************************************************)
EXTENDS Naturals, Sequences, SequencesExt, FiniteSets, TagParser, GoPath

CONSTANTS
  Decls,            \* the declarations of the universe
  DeclPkg,          \* Decls -> package path (segments)
  DeclName,         \* Decls -> t.Name.Name
  ResourceDecls,    \* IsAPIResource
  SubresourceDecls, \* IsAPISubresource
  HasSubDecls,      \* HasSubresource
  NonNamespaced,    \* IsNonNamespaced
  ControllerDecls,  \* IsController
  UniverseChoices,  \* the sets of declarations the universe may hold
  TagChoices,       \* Decls -> set of [res, sub, ctrl]: the comment tags a
                    \*   declaration may carry (<<>> when the tag is absent)
  UniversePkgs,     \* the packages context.Universe has (with Go files)
  DomainTag         \* UniversePkgs -> value of "+domain=" (<<>> if none)

NoFailure == "none"

\* The fatal ends of a run, each with the line that raises it
Failures ==
  { "MultipleAPIsRoots",      \* ParsePackages, panic at 541
    "MissingAPIsPackage",     \* ParseDomain, panic at 560
    "MissingDomain",          \* ParseDomain, panic at 565
    "MissingResourceTag",     \* GetResourceTag, panic at 488
    "MissingControllerTag",   \* GetControllerTag, panic at 508
    "MalformedTag",           \* Parse*Tag, log.Fatalf
    "DuplicateSubresource",   \* GetSubresources, log.Fatalf at 364
    "NilDereference" }        \* ParseAPIs, apiGroup.Pkg.Path at 248

VARIABLES
  tags,            \* Decls -> [res, sub, ctrl]: input, fixed in Init
  parsed,          \* Decls -> what the parsers give for tags[d] (ParseTags)
  order,           \* context.Order: input, fixed in Init
  pc,              \* the phase NewAPIsBuilder is in, "Returned" or "Failed"
  i,               \* the position in context.Order of a looping phase
  failure,         \* why the run ended, NoFailure while it has not failed
  versionedPkgs,   \* b.VersionedPkgs
  unversionedPkgs, \* b.UnversionedPkgs
  apisPkg,         \* b.APIsPkg (<<>> for "")
  domain,          \* b.Domain
  groupNames,      \* b.GroupNames
  byGVK,           \* b.ByGroupVersionKind: <<g, v, k>> -> resource
  byGKV,           \* b.ByGroupKindVersion: <<g, k, v>> -> resource
  subByGVK,        \* b.SubByGroupVersionKind: <<g, v, k>> -> declaration
  controllers,     \* b.Controllers
  groups           \* b.APIs.Groups: group -> APIGroup

vars == <<tags, parsed, order, pc, i, failure, versionedPkgs, unversionedPkgs,
          apisPkg, domain, groupNames, byGVK, byGKV, subByGVK, controllers,
          groups>>

builder == <<versionedPkgs, unversionedPkgs, apisPkg, domain, groupNames,
             byGVK, byGKV, subByGVK, controllers, groups>>

-----------------------------------------------------------------------------
(* The records the builder produces, for the Go types of parser.go.  A     *)
(* string the code builds from tags is a sequence of tokens (Text).        *)

Text == Seq(STRING)

\* APISubresource: Kind, Request, Path, REST and ImportPackage (the
\* Domain, Group, Version, Resource and types.Type fields are left out)
APISubresource == [kind : Text, request : Text, path : Text, rest : Text, import : Text]

\* APIResource with its subresources keyed by the given paths; Type is the
\* declaration, Domain is left out
APIResource(paths) ==
  [decl : Decls, group : STRING, version : STRING, kind : STRING,
   resource : Text, rest : Text, strategy : Text, statusStrategy : Text,
   nonNamespaced : BOOLEAN, subresources : [paths -> APISubresource]]

\* Controller: Target (group, version, kind), Resource, whether Pkg was
\* found in the universe, and Repo
Controller == [gvk : Text \X Text \X Text, resource : Text, pkgLoaded : BOOLEAN,
               repo : Seq(STRING)]

-----------------------------------------------------------------------------
(* Helpers                                                                 *)

\* m[k] = v on a Go map: a new key is added, an old one overwritten
Put(m, k, v) == (k :> v) @@ m

EmptyMap == [x \in {} |-> NoFailure]

\* GetGroup, GetVersion, GetKind of the gengo helpers
GetGroup(d) == PathBase(PathDir(DeclPkg[d]))
GetVersion(d) == PathBase(DeclPkg[d])
GetKind(d) == DeclName[d]

\* Bug variant: the run stops without recording why
FailSilently(why) == /\ pc' = "Failed"
                     /\ UNCHANGED <<tags, parsed, order, i, failure, builder>>

\* The run ends with a fatal error
Fail(why) == /\ pc' = "Failed"
             /\ failure' = why
             /\ UNCHANGED <<tags, parsed, order, i, builder>>

\* The loop over context.Order of a phase has visited every declaration
LoopDone == i > Len(order)

Cur == order[i]

\* The next loop iteration of the current phase
Advance == i' = i + 1

\* The phase after each phase of NewAPIsBuilder
NextPhase ==
  ("ParsePackages" :> "ParseDomain") @@ ("ParseDomain" :> "ParseGroupNames")
  @@ ("ParseGroupNames" :> "ParseIndex") @@ ("ParseIndex" :> "ParseControllers")
  @@ ("ParseControllers" :> "ParseAPIs") @@ ("ParseAPIs" :> "Returned")

\* A looping phase leaves its loop and NewAPIsBuilder calls the next one
EndLoop ==
  /\ pc \in {"ParsePackages", "ParseIndex", "ParseControllers"}
  /\ LoopDone
  /\ pc' = NextPhase[pc]
  /\ i' = 1
  /\ UNCHANGED <<tags, parsed, order, failure, builder>>

\* GetResourceTag, GetControllerTag: the "+resource:" and "+controller:"
\* tags of a declaration (<<>> when it has none, on which they panic)
GetResourceTag(d) == tags[d].res
GetControllerTag(d) == tags[d].ctrl

\* GetSubresourceTags: every "+subresource:" tag, in comment order
GetSubresourceTags(d) == tags[d].sub

-----------------------------------------------------------------------------
(* ParsePackages, ParseDomain, ParseGroupNames                             *)

\* Bug variant: no check that every resource shares one apis root
ParsePackagesOneRootUnchecked ==
  /\ pc = "ParsePackages" /\ ~LoopDone
  /\ IF Cur \in ResourceDecls
     THEN /\ versionedPkgs' = versionedPkgs \cup {DeclPkg[Cur]}
          /\ unversionedPkgs' = unversionedPkgs \cup {PathDir(DeclPkg[Cur])}
          /\ apisPkg' = PathDir(PathDir(DeclPkg[Cur]))
     ELSE UNCHANGED <<versionedPkgs, unversionedPkgs, apisPkg>>
  /\ Advance
  /\ UNCHANGED <<tags, parsed, order, pc, failure, domain, groupNames, byGVK, byGKV,
                 subByGVK, controllers, groups>>

\* One iteration: a resource records its versioned package, the unversioned
\* package above it and the apis root above that; a second root panics
ParsePackagesStep ==
  /\ pc = "ParsePackages" /\ ~LoopDone
  /\ LET versioned   == DeclPkg[Cur]
         unversioned == PathDir(versioned)
         apis        == PathDir(unversioned)
     IN IF Cur \notin ResourceDecls
        THEN /\ Advance
             /\ UNCHANGED <<tags, parsed, order, pc, failure, builder>>
        ELSE IF apis # apisPkg /\ apisPkg # <<>>
        THEN Fail("MultipleAPIsRoots")
        ELSE /\ versionedPkgs' = versionedPkgs \cup {versioned}
             /\ unversionedPkgs' = unversionedPkgs \cup {unversioned}
             /\ apisPkg' = apis
             /\ Advance
             /\ UNCHANGED <<tags, parsed, order, pc, failure, domain, groupNames,
                            byGVK, byGKV, subByGVK, controllers, groups>>

\* The apis root must be a loaded package with a "+domain=" comment
ParseDomain ==
  /\ pc = "ParseDomain"
  /\ CASE apisPkg \notin UniversePkgs   -> Fail("MissingAPIsPackage")
       [] DomainTag[apisPkg] = <<>>     -> Fail("MissingDomain")
       [] OTHER -> /\ domain' = DomainTag[apisPkg]
                   /\ pc' = NextPhase[pc]
                   /\ UNCHANGED <<tags, parsed, order, i, failure, versionedPkgs,
                                  unversionedPkgs, apisPkg, groupNames, byGVK,
                                  byGKV, subByGVK, controllers, groups>>

\* The group names are the bases of the unversioned packages the universe
\* loaded; a package without Go files is skipped
ParseGroupNames ==
  /\ pc = "ParseGroupNames"
  /\ groupNames' = {PathBase(p) : p \in unversionedPkgs \cap UniversePkgs}
  /\ pc' = NextPhase[pc]
  /\ UNCHANGED <<tags, parsed, order, i, failure, versionedPkgs, unversionedPkgs,
                 apisPkg, domain, byGVK, byGKV, subByGVK, controllers, groups>>

-----------------------------------------------------------------------------
(* ParseIndex and GetSubresources                                          *)

\* IsInPackage: the request kind has no package qualifier
IsInPackage(t) == \A j \in DOMAIN t.RequestKind : t.RequestKind[j] # "."

\* GetNameAndImport: "<base of import path>.<Kind>" and the import path
GetNameAndImport(t) ==
  LET rk   == t.RequestKind
      last == SelectLastInSeq(rk, LAMBDA x : x = ".")
      imp  == SubSeq(rk, 1, last - 1)
  IN [request |-> FileBase(imp) \o <<".">> \o SubSeq(rk, last + 1, Len(rk)),
      import  |-> imp]

\* The APISubresource built from one parsed "+subresource=" tag
Subresource(t) ==
  LET ni == GetNameAndImport(t)
  IN [kind    |-> t.Kind,
      request |-> IF IsInPackage(t) THEN t.RequestKind ELSE ni.request,
      path    |-> t.Path,
      rest    |-> t.REST,
      import  |-> IF IsInPackage(t) THEN <<>> ELSE ni.import]

\* Bug variant: the duplicate check looks up the path as written, before
\* the parent resource is stripped
SubresourceStepRawPath(resource, acc, tag) ==
  LET t   == ParseSubresourceTag(resource, tag)
      raw == ParseSubresourceTag(<<"/">>, tag)
  IN CASE acc.failure # NoFailure  -> acc
       [] t = Malformed            -> [acc EXCEPT !.failure = "MalformedTag"]
       [] raw.Path \in DOMAIN acc.subs
                                   -> [acc EXCEPT !.failure = "DuplicateSubresource"]
       [] OTHER                    -> [acc EXCEPT !.subs = Put(@, t.Path, Subresource(t))]

\* One iteration of the loop of GetSubresources, over an accumulator that
\* is the map built so far or the failure the loop ended with
SubresourceStep(resource, acc, tag) ==
  LET t  == ParseSubresourceTag(resource, tag)
      sr == Subresource(t)
  IN CASE acc.failure # NoFailure  -> acc
       [] t = Malformed            -> [acc EXCEPT !.failure = "MalformedTag"]
       [] sr.path \in DOMAIN acc.subs
                                   -> [acc EXCEPT !.failure = "DuplicateSubresource"]
       [] OTHER                    -> [acc EXCEPT !.subs = Put(@, sr.path, sr)]

\* GetSubresources: every "+subresource=" tag of the type, keyed by its
\* path with the parent resource stripped; a second tag of the same path
\* is fatal.  acc is the map built so far or the failure
RECURSIVE GetSubresources(_, _, _)
GetSubresources(resource, acc, subtags) ==
  IF subtags = <<>> \/ acc.failure # NoFailure THEN acc
  ELSE LET step == SubresourceStep(resource, acc, Head(subtags))
       IN GetSubresources(resource, step, Tail(subtags))

NoSubresources == [failure |-> NoFailure, subs |-> EmptyMap]

\* strings.TrimSuffix(s, "Strategy")
TrimStrategy(s) == IF s # <<>> /\ Last(s) = "Strategy" THEN Front(s) ELSE s

\* The APIResource ParseIndex builds from a declaration and its parsed tag:
\* the strategy defaults to "<group>.<Kind>Strategy" and the status
\* strategy mirrors it
IndexedResource(d, rt, subs) ==
  LET strategy == IF rt.Strategy = <<>>
                  THEN <<GetGroup(d), ".", GetKind(d), "Strategy">>
                  ELSE rt.Strategy
  IN [decl |-> d, group |-> GetGroup(d), version |-> GetVersion(d),
      kind |-> GetKind(d), resource |-> rt.Resource, rest |-> rt.REST,
      strategy |-> strategy,
      statusStrategy |-> TrimStrategy(strategy) \o <<"StatusStrategy">>,
      nonNamespaced |-> d \in NonNamespaced, subresources |-> subs]

\* What the tag parsers give for every tag a declaration may carry: the
\* "+resource=" tag, the subresources GetSubresources resolves against its
\* path, and the "+controller=" tag.  The tags are input, so this is
\* computed once, in Init.
ParseTags(d) ==
  LET rt == ParseResourceTag(GetResourceTag(d))
  IN [rt   |-> rt,
      subs |-> IF d \in HasSubDecls /\ rt # Malformed
               THEN GetSubresources(rt.Resource, NoSubresources, GetSubresourceTags(d))
               ELSE NoSubresources,
      ct   |-> ParseControllerTag(GetControllerTag(d))]

Parsed(d) == parsed[d]

\* One iteration of ParseIndex: a subresource type is indexed by group,
\* version and kind; a resource gets its tag parsed, is put in both
\* indices, and gets its subresources resolved
ParseIndexStep ==
  /\ pc = "ParseIndex" /\ ~LoopDone
  /\ LET d    == Cur
         gvk  == <<GetGroup(d), GetVersion(d), GetKind(d)>>
         gkv  == <<GetGroup(d), GetKind(d), GetVersion(d)>>
         rt   == Parsed(d).rt
         subs == Parsed(d).subs
     IN CASE d \notin ResourceDecls ->
               /\ subByGVK' = IF d \in SubresourceDecls THEN Put(subByGVK, gvk, d)
                                                         ELSE subByGVK
               /\ Advance
               /\ UNCHANGED <<tags, parsed, order, pc, failure, versionedPkgs,
                              unversionedPkgs, apisPkg, domain, groupNames,
                              byGVK, byGKV, controllers, groups>>
          [] GetResourceTag(d) = <<>> -> Fail("MissingResourceTag")
          [] rt = Malformed         -> Fail("MalformedTag")
          [] subs.failure # NoFailure -> Fail(subs.failure)
          [] OTHER ->
               /\ subByGVK' = IF d \in SubresourceDecls THEN Put(subByGVK, gvk, d)
                                                         ELSE subByGVK
               /\ byGVK' = Put(byGVK, gvk, IndexedResource(d, rt, subs.subs))
               /\ byGKV' = Put(byGKV, gkv, IndexedResource(d, rt, subs.subs))
               /\ Advance
               /\ UNCHANGED <<tags, parsed, order, pc, failure, versionedPkgs,
                              unversionedPkgs, apisPkg, domain, groupNames,
                              controllers, groups>>

-----------------------------------------------------------------------------
(* ParseControllers and ParseAPIs                                          *)

\* strings.Split(pkg, "/pkg/controller")[0]: the repository of a controller
Repo(p) ==
  LET at == {j \in 2..(Len(p) - 1) : p[j] = "pkg" /\ p[j + 1] = "controller"}
  IN IF at = {} THEN p ELSE SubSeq(p, 1, Min(at) - 1)

\* One iteration of ParseControllers: a controller gets its tag parsed and
\* is appended with its package and repository
ParseControllersStep ==
  /\ pc = "ParseControllers" /\ ~LoopDone
  /\ LET d  == Cur
         ct == Parsed(d).ct
     IN CASE d \notin ControllerDecls ->
               /\ Advance
               /\ UNCHANGED <<tags, parsed, order, pc, failure, builder>>
          [] GetControllerTag(d) = <<>> -> Fail("MissingControllerTag")
          [] ct = Malformed      -> Fail("MalformedTag")
          [] OTHER ->
               /\ controllers' = Append(controllers,
                    [gvk |-> <<ct.Group, ct.Version, ct.Kind>>,
                     resource |-> ct.Resource,
                     pkgLoaded |-> DeclPkg[d] \in UniversePkgs,
                     repo |-> Repo(DeclPkg[d])])
               /\ Advance
               /\ UNCHANGED <<tags, parsed, order, pc, failure, versionedPkgs,
                              unversionedPkgs, apisPkg, domain, groupNames,
                              byGVK, byGKV, subByGVK, groups>>

\* The groups of the index ParseAPIs has not assembled yet
PendingGroups == {k[1] : k \in DOMAIN byGVK} \ DOMAIN groups

\* The APIGroup of group g when its versions are visited in the order vo:
\* the versions with their resources, the unversioned resources (a kind
\* keeps the resource of the last version that has it), the group package
\* (the parent of the last version's package) and the seeds ParseStructs
\* starts from (the resource types, then the subresource types of g)
GroupOf(g, vo) ==
  LET ks    == {k \in DOMAIN byGVK : k[1] = g}
      lastV == vo[Len(vo)]
      LastVersionOf(kd) == vo[SelectLastInSeq(vo, LAMBDA v : <<g, v, kd>> \in ks)]
  IN [versions |-> [v \in {k[2] : k \in ks} |->
                     [pkgLoaded |-> DeclPkg[byGVK[CHOOSE k \in ks : k[2] = v].decl]
                                      \in UniversePkgs,
                      resources |-> [kd \in {k[3] : k \in {k \in ks : k[2] = v}} |->
                                       byGVK[<<g, v, kd>>]]]],
      unversioned |-> [kd \in {k[3] : k \in ks} |-> byGVK[<<g, LastVersionOf(kd), kd>>]],
      pkgPath |-> PathDir(DeclPkg[byGVK[CHOOSE k \in ks : k[2] = lastV].decl]),
      structSeeds |-> {byGVK[k].decl : k \in ks}
                      \cup {subByGVK[k] : k \in {k \in DOMAIN subByGVK : k[1] = g}}]

\* The group the loop of ParseAPIs visits next, in Go map order, with its
\* versions in Go map order
GroupChoices ==
  UNION {{<<g, vo>> : vo \in SetToSeqs({k[2] : k \in {k \in DOMAIN byGVK : k[1] = g}})}
         : g \in PendingGroups}

\* A resource of g whose group directory the universe did not load: the
\* apiGroup.Pkg it looks up is nil and Pkg.Path dereferences it
NilGroupPkg(g) ==
  \E k \in DOMAIN byGVK : k[1] = g /\ PathDir(DeclPkg[byGVK[k].decl]) \notin UniversePkgs

\* apis.Groups[group] = apiGroup
PutGroup(g, vo) ==
  /\ groups' = Put(groups, g, GroupOf(g, vo))
  /\ UNCHANGED <<tags, parsed, order, pc, i, failure, versionedPkgs,
                 unversionedPkgs, apisPkg, domain, groupNames,
                 byGVK, byGKV, subByGVK, controllers>>

\* One iteration of the group loop of ParseAPIs
ParseAPIsGroup ==
  /\ pc = "ParseAPIs"
  /\ \E c \in GroupChoices :
       IF NilGroupPkg(c[1]) THEN Fail("NilDereference") ELSE PutGroup(c[1], c[2])

\* ParseAPIs has assembled every group and NewAPIsBuilder returns
ParseAPIsReturn ==
  /\ pc = "ParseAPIs"
  /\ PendingGroups = {}
  /\ pc' = NextPhase[pc]
  /\ UNCHANGED <<tags, parsed, order, i, failure, builder>>

\* Every function giving each declaration one of its choices
Assignments(C) ==
  LET RECURSIVE A(_)
      A(ds) == IF ds = {} THEN {EmptyMap}
               ELSE LET d == CHOOSE d \in ds : TRUE
                    IN {(d :> c) @@ f : c \in C[d], f \in A(ds \ {d})}
  IN A(DOMAIN C)

Init ==
  /\ tags \in Assignments(TagChoices)
  /\ parsed = [d \in Decls |-> ParseTags(d)]
  /\ order \in UNION {SetToSeqs(U) : U \in UniverseChoices}
  /\ pc = "ParsePackages"
  /\ i = 1
  /\ failure = NoFailure
  /\ versionedPkgs = {}
  /\ unversionedPkgs = {}
  /\ apisPkg = <<>>
  /\ domain = <<>>
  /\ groupNames = {}
  /\ byGVK = EmptyMap
  /\ byGKV = EmptyMap
  /\ subByGVK = EmptyMap
  /\ controllers = <<>>
  /\ groups = EmptyMap

Next ==
  \/ ParsePackagesStep
  \/ EndLoop
  \/ ParseDomain
  \/ ParseGroupNames
  \/ ParseIndexStep
  \/ ParseControllersStep
  \/ ParseAPIsGroup
  \/ ParseAPIsReturn

\* NewAPIsBuilder is sequential code that never blocks
Spec == Init /\ [][Next]_vars /\ WF_vars(Next)

-----------------------------------------------------------------------------
(* Properties                                                              *)

Returned == pc = "Returned"

Phases == {"ParsePackages", "ParseDomain", "ParseGroupNames", "ParseIndex",
           "ParseControllers", "ParseAPIs", "Returned", "Failed"}

TypeOK ==
  /\ pc \in Phases
  /\ i \in 1..(Len(order) + 1)
  /\ failure \in Failures \cup {NoFailure}
  /\ (pc = "Failed") <=> (failure # NoFailure)
  /\ DOMAIN groups \subseteq {k[1] : k \in DOMAIN byGVK}
  /\ \A k \in DOMAIN byGVK : byGVK[k] \in APIResource(DOMAIN byGVK[k].subresources)
  /\ \A j \in DOMAIN controllers : controllers[j] \in Controller

\* The declarations of the universe
Loaded == Range(order)

\* The resource a declaration's "+resource=" tag names
ResourceOf(d) == ParseResourceTag(tags[d].res).Resource

\* Two "+subresource=" tags of d that resolve to the same path
HasDuplicatePath(d) ==
  \E a, b \in DOMAIN tags[d].sub :
    LET ta == ParseSubresourceTag(ResourceOf(d), tags[d].sub[a])
        tb == ParseSubresourceTag(ResourceOf(d), tags[d].sub[b])
    IN a < b /\ ta # Malformed /\ tb # Malformed /\ ta.Path = tb.Path

\* Spec 8 (scenario D): NewAPIsBuilder never returns a model in which a
\* resource carries two "+subresource=" directives resolving to the same
\* path once the parent prefix is stripped (GetSubresources, 363-366), and
\* it reports a duplicate path only when there is one.
SubresourcePathsUnique ==
  /\ Returned => \A d \in Loaded \cap ResourceDecls \cap HasSubDecls : ~HasDuplicatePath(d)
  /\ failure = "DuplicateSubresource" =>
       \E d \in Loaded \cap ResourceDecls \cap HasSubDecls : HasDuplicatePath(d)

\* Spec 4.4: the group package ParseAPIs keeps (last write over the
\* versions, line 247) is the parent directory of every version package
\* of the group, whatever the map order; ParsePackages' single apis root
\* check (line 541) is what makes this hold.
GroupPackageConsistent ==
  Returned =>
    \A k \in DOMAIN byGVK :
      groups[k[1]].pkgPath = PathDir(DeclPkg[byGVK[k].decl])

\* Spec 7: the builder stops only on the fatal errors it reports with a
\* diagnostic (malformed or missing directive, duplicate path, missing
\* root package or domain), never on a nil pointer dereference.
FailuresDiagnosed == failure # "NilDereference"

=============================================================================
