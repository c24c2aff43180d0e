--------------------------- MODULE MCStructGraph ---------------------------
(***************************************************************************)
(* A group "g" served in versions v1 and v2 under apis root                *)
(* example.io/apis, next to a group "h" and meta/v1.                       *)
(*                                                                         *)
(*   Widget (v1, v2) resources of g;  WidgetSpec (v1, v2);  Extra (v2);    *)
(*   ScaleRequest (v1) a subresource type;  ObjectMeta (meta/v1);          *)
(*   Other (h/v1);  string;  *WidgetSpec;  *Extra;  []*Extra;             *)
(*   *ObjectMeta, *Other, []*Other, map[string]Other (unversioned runs).   *)
(*                                                                         *)
(* Each struct of g chooses any subsequence of its candidate members, so   *)
(* the run covers every type graph over these candidates.  The graph of    *)
(* by-value members is acyclic, as Go requires of struct types.            *)
(***************************************************************************)
EXTENDS StructGraph

MCTypes == {"W1", "W2", "S1", "S2", "E2", "SR", "OM", "HT", "STR",
            "PS1", "PE2", "LPE2", "POM", "PHT", "LPHT", "MHT"}

MCNoType == "none"

V1 == <<"example.io", "apis", "g", "v1">>
V2 == <<"example.io", "apis", "g", "v2">>
H1 == <<"example.io", "apis", "h", "v1">>
Meta == <<"k8s.io", "apimachinery", "pkg", "apis", "meta", "v1">>

MCTypeKind ==
  [t \in MCTypes |->
     CASE t = "STR" -> "Builtin"
       [] t \in {"PS1", "PE2", "POM", "PHT"} -> "Pointer"
       [] t \in {"LPE2", "LPHT"} -> "Slice"
       [] t = "MHT" -> "Map"
       [] OTHER -> "Struct"]

MCTypeName ==
  ("W1" :> "Widget") @@ ("W2" :> "Widget") @@ ("S1" :> "WidgetSpec") @@
  ("S2" :> "WidgetSpec") @@ ("E2" :> "Extra") @@ ("SR" :> "ScaleRequest") @@
  ("OM" :> "ObjectMeta") @@ ("HT" :> "Other") @@ ("STR" :> "string") @@
  [t \in {"PS1", "PE2", "LPE2", "POM", "PHT", "LPHT", "MHT"} |-> ""]

MCTypePkg ==
  ("W1" :> V1) @@ ("W2" :> V2) @@ ("S1" :> V1) @@ ("S2" :> V2) @@
  ("E2" :> V2) @@ ("SR" :> V1) @@ ("OM" :> Meta) @@ ("HT" :> H1) @@
  [t \in {"STR", "PS1", "PE2", "LPE2", "POM", "PHT", "LPHT", "MHT"} |-> <<>>]

MCTypeElem ==
  ("PS1" :> "S1") @@ ("PE2" :> "E2") @@ ("LPE2" :> "PE2") @@
  ("POM" :> "OM") @@ ("PHT" :> "HT") @@ ("LPHT" :> "PHT") @@ ("MHT" :> "HT") @@
  [t \in MCTypes |-> MCNoType]

M(n, t, e) == [name |-> n, type |-> t, embedded |-> e]

\* The candidate members of each type, in declaration order
Candidates ==
  ("W1" :> <<M("ObjectMeta", "OM", TRUE), M("Spec", "S1", FALSE),
             M("Template", "PS1", FALSE)>>) @@
  ("W2" :> <<M("ObjectMeta", "OM", TRUE), M("Spec", "S2", FALSE),
             M("Extra", "E2", FALSE)>>) @@
  ("S1" :> <<M("Replicas", "STR", FALSE), M("Other", "HT", FALSE)>>) @@
  ("S2" :> <<M("Replicas", "STR", FALSE), M("Legacy", "S1", FALSE)>>) @@
  ("E2" :> <<M("Name", "STR", FALSE), M("Children", "LPE2", FALSE)>>) @@
  ("SR" :> <<M("Spec", "S1", FALSE)>>) @@
  [t \in MCTypes |-> <<>>]

MCMemberChoices == [t \in MCTypes |-> AllSubSeqs(Candidates[t])]

\* For the unversioned-type runs: every type keeps all its candidates, and
\* WidgetSpec v1 gains one more member of another package
MCMemberChoicesWith(extra) ==
  [t \in MCTypes |-> IF t = "S1" THEN {Candidates[t] \o <<extra>>} ELSE {Candidates[t]}]

\* ... a *metav1.ObjectMeta
MCMemberChoicesMetaPtr == MCMemberChoicesWith(M("Meta", "POM", FALSE))

\* ... a []*Other of group h
MCMemberChoicesNested == MCMemberChoicesWith(M("Others", "LPHT", FALSE))

\* For the passing unversioned-type run: the resources choose their
\* members, and WidgetSpec v1 any subsequence of members of another group
\* behind at most one pointer or map
MCMemberChoicesRefs ==
  [t \in MCTypes |->
     CASE t \in {"W1", "W2"} -> AllSubSeqs(Candidates[t])
       [] t = "S1" -> AllSubSeqs(<<M("Other", "HT", FALSE), M("Ref", "PHT", FALSE),
                                   M("ByName", "MHT", FALSE)>>)
       [] OTHER -> {Candidates[t]}]

MCResourcesByVersion == ("v1" :> {"W1"}) @@ ("v2" :> {"W2"})

MCSubresourcesByVersion == "v1" :> {"SR"}

=============================================================================
