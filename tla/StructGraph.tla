---------------------------- MODULE StructGraph ----------------------------
(***************************************************************************)
(* APIsBuilder.ParseStructs and APIGroup.DoType of                         *)
(* src/cmd/apiregister-gen/generators/parser.go: the work-list that        *)
(* flattens the resource and subresource types of ONE API group, and every *)
(* same-group type they reference, into Struct descriptions.               *)
(*                                                                         *)
(* Types are gengo types abstracted to what the code reads of them: kind,  *)
(* bare name, package path (a sequence of path segments), element type,    *)
(* member list and the comment tags the code tests.  Type strings are      *)
(* sequences of tokens (path segments, "/", ".", "*", "[]", names), so the *)
(* path.Dir / path.Base / strings.Replace conversions of DoType are        *)
(* computed, not assumed.                                                  *)
(***************************************************************************)
EXTENDS Naturals, Sequences, SequencesExt, FiniteSets, TLC, GoPath

CONSTANTS
  Types,          \* every type of the declaration universe the group touches
  TypeKind,       \* Types -> {"Struct", "Builtin", "Pointer", "Slice", "Map"}
  TypeName,       \* Types -> bare name of a named or builtin type
  TypePkg,        \* Types -> package path as segments, <<>> for none
  TypeElem,       \* Types -> element of a pointer, slice or map, else NoType
  NoType,
  ResourceTagged,           \* types commented "+resource=..."
  SubresourceRequestTagged, \* types commented "+subresource-request"
  UnversionedOff,           \* types commented "+genregister:unversioned=false"
  MetaV1Pkg,                \* k8s.io/apimachinery/pkg/apis/meta/v1
  MemberChoices,            \* Types -> the member lists a type may have
  ResourcesByVersion,       \* version -> resource types (apigroup.Versions)
  SubresourcesByVersion     \* version -> SubByGroupVersionKind[group][version]

Unnamed == {"Pointer", "Slice", "Map"}

ASSUME \A t \in Types : (TypeKind[t] \in Unnamed) <=> (TypeElem[t] \in Types)

VARIABLES
  members,    \* t.Members of every type: input, fixed in Init
  remaining,  \* the work-list of ParseStructs
  done,       \* the bare names already flattened
  structs,    \* apigroup.Structs
  flattened   \* history: the types DoType was applied to

vars == <<members, remaining, done, structs, flattened>>

\* Field: Name, VersionedPackage, UnversionedImport, UnversionedType
Field == [name : STRING, versionedPackage : Seq(STRING),
          unversionedImport : Seq(STRING), unversionedType : Seq(STRING)]

\* Struct: Name, the generation flags and its n Fields
Struct(n) == [name : Seq(STRING), genClient : BOOLEAN, genDeepCopy : BOOLEAN,
              genUnversioned : BOOLEAN, fields : [1..n -> Field]]

-----------------------------------------------------------------------------
(* gengo helpers (path helpers in GoPath).                                 *)

\* types.Type.String(): "*" / "[]" / "map[string]" prefixes, then
\* "<package>.<Name>" for a named type or the bare name of a builtin
RECURSIVE TypeString(_)
TypeString(t) ==
  CASE TypeKind[t] = "Pointer" -> <<"*">> \o TypeString(TypeElem[t])
    [] TypeKind[t] = "Slice"   -> <<"[]">> \o TypeString(TypeElem[t])
    [] TypeKind[t] = "Map"     -> <<"map[string]">> \o TypeString(TypeElem[t])
    [] TypePkg[t] = <<>>       -> <<TypeName[t]>>
    [] OTHER                   -> JoinPath(TypePkg[t]) \o <<".", TypeName[t]>>

\* t.Name.Name: an unnamed type's name is its whole type string
Name(t) == IF TypeKind[t] \in Unnamed THEN TypeString(t) ELSE <<TypeName[t]>>

\* The named (or builtin) type under every level of indirection
RECURSIVE Innermost(_)
Innermost(t) == IF TypeKind[t] \in Unnamed THEN Innermost(TypeElem[t]) ELSE t

\* GetGroup: the base of the directory of the type's package
GetGroup(t) == PathBase(PathDir(TypePkg[t]))

\* t.IsPrimitive()
IsPrimitive(t) == TypeKind[t] = "Builtin"

\* strings.Replace(t, s, r, 1): the first occurrence of s in t becomes r
RECURSIVE ReplaceOnce(_, _, _)
ReplaceOnce(r, s, t) ==
  CASE Len(t) < Len(s)                -> t
    [] SubSeq(t, 1, Len(s)) = s       -> r \o SubSeq(t, Len(s) + 1, Len(t))
    [] OTHER                          -> <<Head(t)>> \o ReplaceOnce(r, s, Tail(t))

-----------------------------------------------------------------------------
(* DoType                                                                  *)

\* Bug variant: only the first Replace of an indirect member's type string
\* is applied, so its version segment stays
UnversionedRefOneReplace(t, mt) ==
  IF TypePkg[t] = TypePkg[mt] \/ TypePkg[Innermost(mt)] = <<>>
  THEN [import |-> <<>>, type |-> Name(mt)]
  ELSE IF TypePkg[mt] = MetaV1Pkg
  THEN [import |-> <<"metav1">> \o JoinPath(MetaV1Pkg),
        type   |-> <<"metav1", ".", TypeName[mt]>>]
  ELSE LET hasElem == TypeElem[mt] # NoType
           e       == IF hasElem THEN TypeElem[mt] ELSE mt
           uImport == PathDir(TypePkg[e])
       IN [import |-> JoinPath(uImport),
           type   |-> IF hasElem
                      THEN ReplaceOnce(<<>>, JoinPath(PathDir(uImport)) \o <<"/">>,
                                       TypeString(mt))
                      ELSE <<PathBase(uImport), ".", TypeName[e]>>]

\* The unversioned import and type name DoType computes for a member of
\* type mt of t.  The string of mt has a package qualifier after its last
\* "/" (len(parts) > 1) exactly when its innermost type has a package.
UnversionedRef(t, mt) ==
  IF TypePkg[t] = TypePkg[mt] \/ TypePkg[Innermost(mt)] = <<>>
  THEN [import |-> <<>>, type |-> Name(mt)]
  ELSE IF TypePkg[mt] = MetaV1Pkg
  THEN [import |-> <<"metav1">> \o JoinPath(MetaV1Pkg),
        type   |-> <<"metav1", ".", TypeName[mt]>>]
  ELSE LET hasElem == TypeElem[mt] # NoType
           e       == IF hasElem THEN TypeElem[mt] ELSE mt
           uImport == PathDir(TypePkg[e])
       IN [import |-> JoinPath(uImport),
           type   |-> IF hasElem
                      THEN ReplaceOnce(<<>>, <<"/", PathBase(TypePkg[e])>>,
                             ReplaceOnce(<<>>, JoinPath(PathDir(uImport)) \o <<"/">>,
                                                TypeString(mt)))
                      ELSE <<PathBase(uImport), ".", TypeName[e]>>]

\* One Field: embedded members get an empty name
FieldOf(t, m) ==
  LET ref == UnversionedRef(t, m.type)
  IN [name              |-> IF m.embedded THEN "" ELSE m.name,
      versionedPackage  |-> TypePkg[m.type],
      unversionedImport |-> ref.import,
      unversionedType   |-> ref.type]

\* The Struct of DoType, before ParseStructs sets its generation flags
DoType(t) ==
  [name           |-> Name(t),
   genClient      |-> FALSE,
   genDeepCopy    |-> FALSE,
   genUnversioned |-> t \notin UnversionedOff,
   fields         |-> [i \in DOMAIN members[t] |-> FieldOf(t, members[t][i])]]

\* The member types DoType returns for processing: non-primitive and in
\* the group of t, in member order
AdditionalTypes(t) ==
  SelectSeq([i \in DOMAIN members[t] |-> members[t][i].type],
            LAMBDA mt : ~IsPrimitive(mt) /\ GetGroup(mt) = GetGroup(t))

-----------------------------------------------------------------------------
(* ParseStructs                                                            *)

\* Every order in which two nested Go map ranges visit the values of a
\* version -> set-of-types map
MapOrders(f) ==
  LET RECURSIVE Orders(_)
      Orders(vs) ==
        IF vs = {} THEN {<<>>}
        ELSE UNION { { p \o q : p \in SetToSeqs(f[v]), q \in Orders(vs \ {v}) }
                     : v \in vs }
  IN Orders(DOMAIN f)

\* Every assignment of one member list per type
MemberUniverses ==
  LET RECURSIVE Assign(_)
      Assign(ts) ==
        IF ts = {} THEN {[t \in {} |-> <<>>]}
        ELSE LET t == CHOOSE t \in ts : TRUE
             IN { (t :> c) @@ f : c \in MemberChoices[t], f \in Assign(ts \ {t}) }
  IN Assign(Types)

\* The work-list is seeded with every resource type, then every
\* subresource type of the group, each in Go map order
Init ==
  /\ members \in MemberUniverses
  /\ remaining \in { r \o s : r \in MapOrders(ResourcesByVersion),
                              s \in MapOrders(SubresourcesByVersion) }
  /\ done = {}
  /\ structs = <<>>
  /\ flattened = {}

\* remaining[0] is popped by moving the last element into its place
PopNext == remaining[1]

\* Bug variants of the pop: the slice is not shortened, or the last
\* element is cut off without being moved to the front
PopRestNoShrink == [remaining EXCEPT ![1] = Last(remaining)]
PopRestNoMove == Front(remaining)

PopRest == Front([remaining EXCEPT ![1] = Last(remaining)])

\* One iteration for a type whose bare name was already processed
SkipDone ==
  /\ remaining # <<>>
  /\ Name(PopNext) \in done
  /\ remaining' = PopRest
  /\ UNCHANGED <<members, done, structs, flattened>>

\* b.GenClient: the type has a "+resource:" tag
GenClient(t) == t \in ResourceTagged

\* b.GenDeepCopy: the type has a "+subresource-request" tag
GenDeepCopy(t) == t \in SubresourceRequestTagged

\* The Struct ParseStructs appends: GenClient marks +resource types for
\* client and deep-copy generation, GenDeepCopy marks +subresource-request
\* types for deep-copy
FlaggedStruct(t) ==
  [DoType(t) EXCEPT !.genClient   = GenClient(t),
                    !.genDeepCopy = GenClient(t) \/ GenDeepCopy(t)]

\* Bug variants of the flattening iteration: the done check is dropped,
\* the name is never recorded, or the record is keyed by the full type
\* string instead of the bare name
FlattenNoDoneCheck ==
  /\ remaining # <<>>
  /\ done' = done \cup {Name(PopNext)}
  /\ structs' = Append(structs, FlaggedStruct(PopNext))
  /\ remaining' = PopRest \o AdditionalTypes(PopNext)
  /\ flattened' = flattened \cup {PopNext}
  /\ UNCHANGED members

FlattenNoDoneInsert ==
  /\ remaining # <<>>
  /\ Name(PopNext) \notin done
  /\ structs' = Append(structs, FlaggedStruct(PopNext))
  /\ remaining' = PopRest \o AdditionalTypes(PopNext)
  /\ flattened' = flattened \cup {PopNext}
  /\ UNCHANGED <<members, done>>

\* One iteration that flattens a type of a new bare name; the subtypes
\* DoType discovered join the work-list
Flatten ==
  /\ remaining # <<>>
  /\ Name(PopNext) \notin done
  /\ done' = done \cup {Name(PopNext)}
  /\ structs' = Append(structs, FlaggedStruct(PopNext))
  /\ remaining' = PopRest \o AdditionalTypes(PopNext)
  /\ flattened' = flattened \cup {PopNext}
  /\ UNCHANGED members

Next == SkipDone \/ Flatten

\* ParseStructs is one sequential loop: it keeps iterating while it can
Spec == Init /\ [][Next]_vars /\ WF_vars(Next)

-----------------------------------------------------------------------------
(* Properties                                                              *)

Finished == remaining = <<>>

TypeOK ==
  /\ remaining \in Seq(Types)
  /\ flattened \subseteq Types
  /\ done = {Name(t) : t \in flattened}
  /\ Len(structs) = Cardinality(flattened)
  /\ \A j \in DOMAIN structs : structs[j] \in Struct(Len(structs[j].fields))

\* The types DoType enqueues from a type t: the abstract reference graph
Refs == [t \in Types |-> Range(AdditionalTypes(t))]

Seeds == UNION Range(ResourcesByVersion) \cup UNION Range(SubresourcesByVersion)

\* ParseStructs implements the abstract catalogue of unversioned structs:
\* each type it flattens is a seed or is referenced by a type it flattened
\* before, and no other type of the same bare name was flattened.
Catalogue == INSTANCE UnversionedStructs
               WITH Key <- Name, refs <- Refs, catalogue <- flattened

CatalogueRefinement == Catalogue!SafeSpec

\* When the loop returns, every seed and every type enqueued by a
\* flattened type has a struct of its bare name: the work-list lost
\* nothing on its swap-with-last pops.
CompleteOnReturn == Finished => Catalogue!Frontier = {}

\* Every type reachable from the seeds through the types DoType enqueues
ReachableTypes ==
  LET RECURSIVE Reach(_)
      Reach(S) == LET S2 == S \cup UNION {Refs[t] : t \in S}
                  IN IF S2 = S THEN S ELSE Reach(S2)
  IN Reach(Seeds)

\* Every same-group type reachable from the group's resource and
\* subresource types, in any version, gets an unversioned struct
\* (spec 4.5; spec 9 states the pop order cannot change the result).
ReachableFlattened ==
  Finished => {Name(t) : t \in ReachableTypes} \subseteq done

\* A field whose type is (a pointer, slice or map of) a struct of the
\* group refers to an unversioned struct that is generated (spec 4.5:
\* pointers and collections are handled when enqueueing).
FieldTargetsFlattened ==
  Finished =>
    \A t \in flattened : \A i \in DOMAIN members[t] :
      LET e == Innermost(members[t][i].type)
      IN (TypeKind[e] = "Struct" /\ GetGroup(e) = GetGroup(t)) => Name(e) \in done

\* The indirection prefix of a member type: its "*", "[]" and "map[string]"
\* tokens down to the named type
RECURSIVE Sigils(_)
Sigils(mt) ==
  IF TypeKind[mt] \in Unnamed THEN <<Head(TypeString(mt))>> \o Sigils(TypeElem[mt])
  ELSE <<>>

\* The unversioned form spec 4.5 gives a member type whose named type e
\* lives in another package: metav1 types keep "metav1.<Name>" with the
\* metav1 import; any other becomes "<group>.<Name>" importing the group
\* directory; the indirection prefix is kept in both cases.
SpecUnversionedRef(mt) ==
  LET e == Innermost(mt)
  IN IF TypePkg[e] = MetaV1Pkg
     THEN [import |-> <<"metav1">> \o JoinPath(MetaV1Pkg),
           type   |-> Sigils(mt) \o <<"metav1", ".", TypeName[e]>>]
     ELSE [import |-> JoinPath(PathDir(TypePkg[e])),
           type   |-> Sigils(mt) \o <<PathBase(PathDir(TypePkg[e])), ".", TypeName[e]>>]

\* Every field DoType emits for a member whose (pointed-to, element) named
\* type is in another package carries the unversioned type and import of
\* spec 4.5, however many pointers, slices and maps wrap it: the
\* filepath.Base / Split / Replace rewriting of DoType (parser.go:637-665)
\* resolves every such member.
UnversionedTypesResolved ==
  \A t \in flattened : \A i \in DOMAIN members[t] :
    LET mt == members[t][i].type
        f  == FieldOf(t, members[t][i])
    IN TypePkg[Innermost(mt)] \notin {<<>>, TypePkg[t]} =>
         /\ f.unversionedType = SpecUnversionedRef(mt).type
         /\ f.unversionedImport = SpecUnversionedRef(mt).import

=============================================================================
