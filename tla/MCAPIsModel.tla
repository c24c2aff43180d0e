---------------------------- MODULE MCAPIsModel ----------------------------
(***************************************************************************)
(* A project under the apis root x/apis (domain "example") with two        *)
(* groups: "g" serves Widget in v1 and v2 and the subresource request type *)
(* ScaleRequest in v1, "h" serves Gadget in v1.  Widget v1 and             *)
(* ScaleRequest use WidgetSpec v1, which refers to Gadget of group h;      *)
(* Widget v2 uses WidgetSpec v2 by value or through a pointer.  The        *)
(* universe holds both Widget versions, only v1, or only v2.               *)
(***************************************************************************)
EXTENDS APIsModel

Root == <<"x", "apis">>
G1 == Root \o <<"g", "v1">>
G2 == Root \o <<"g", "v2">>
H1 == Root \o <<"h", "v1">>
Meta == <<"k8s.io", "apimachinery", "pkg", "apis", "meta", "v1">>

MCDeclPkg == ("W1" :> G1) @@ ("W2" :> G2) @@ ("SR" :> G1) @@ ("G" :> H1)

MCDeclName ==
  ("W1" :> "Widget") @@ ("W2" :> "Widget") @@ ("SR" :> "ScaleRequest") @@
  ("G" :> "Gadget")

MCUniverseChoices == {{"W1", "W2", "SR", "G"}, {"W1", "SR", "G"}, {"W2", "G"}}

PathWidgets == <<"path", "=", "widgets">>
ScaleLocal == <<"path", "=", "widgets", "/", "scale", ",", "request", "=", "ScaleRequest">>
StatusTag == <<"path", "=", "widgets", "/", "status">>
Tag(r, s) == [res |-> r, sub |-> s, ctrl |-> <<>>]

MCTagChoices ==
  ("W1" :> {Tag(PathWidgets, s) : s \in {<<ScaleLocal>>, <<ScaleLocal, StatusTag>>}}) @@
  ("W2" :> {Tag(PathWidgets, <<>>)}) @@
  ("SR" :> {Tag(<<>>, <<>>)}) @@
  ("G"  :> {Tag(<<"path", "=", "gadgets">>, <<>>)})

MCUniversePkgs ==
  {Root, Root \o <<"g">>, G1, G2, Root \o <<"h">>, H1}

MCDomainTag == [p \in MCUniversePkgs |-> IF p = Root THEN <<"example">> ELSE <<>>]

MCTypes == {"W1", "W2", "SR", "G", "S1", "S2", "PS2", "OM", "STR"}

MCNoType == "none"

MCTypeKind ==
  [t \in MCTypes |-> CASE t = "STR" -> "Builtin"
                       [] t = "PS2" -> "Pointer"
                       [] OTHER     -> "Struct"]

MCTypeName ==
  MCDeclName @@ ("S1" :> "WidgetSpec") @@ ("S2" :> "WidgetSpec") @@
  ("OM" :> "ObjectMeta") @@ ("STR" :> "string") @@ ("PS2" :> "")

MCTypePkg ==
  MCDeclPkg @@ ("S1" :> G1) @@ ("S2" :> G2) @@ ("OM" :> Meta) @@
  [t \in {"STR", "PS2"} |-> <<>>]

MCTypeElem == ("PS2" :> "S2") @@ [t \in MCTypes |-> MCNoType]

M(n, t, e) == [name |-> n, type |-> t, embedded |-> e]

MCMemberChoices ==
  ("W1" :> {<<M("ObjectMeta", "OM", TRUE), M("Spec", "S1", FALSE)>>}) @@
  ("W2" :> {<<M("ObjectMeta", "OM", TRUE), M("Spec", "S2", FALSE)>>,
            <<M("ObjectMeta", "OM", TRUE), M("Spec", "PS2", FALSE)>>}) @@
  ("SR" :> {<<M("Spec", "S1", FALSE)>>}) @@
  ("G"  :> {<<M("ObjectMeta", "OM", TRUE)>>}) @@
  ("S1" :> {<<M("Replicas", "STR", FALSE), M("Gadget", "G", FALSE)>>}) @@
  ("S2" :> {<<M("Replicas", "STR", FALSE)>>}) @@
  [t \in MCTypes |-> {<<>>}]

=============================================================================
