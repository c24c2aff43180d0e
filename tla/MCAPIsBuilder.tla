--------------------------- MODULE MCAPIsBuilder ---------------------------
(***************************************************************************)
(* A project with group "g" in versions v1 and v2 under the apis root      *)
(* x/apis: the resource Widget in both versions, the subresource request  *)
(* type ScaleRequest (v1), and a controller under x/pkg/controller.  The   *)
(* universe may also hold Gadget, a resource of a group "g" under a second *)
(* apis root y/apis that has no "+domain=" comment.                        *)
(***************************************************************************)
EXTENDS APIsBuilder

RootX == <<"x", "apis">>
RootY == <<"y", "apis">>
GX == RootX \o <<"g">>
GY == RootY \o <<"g">>
CtrlPkg == <<"x", "pkg", "controller", "widget">>

MCDeclPkg ==
  ("W1" :> (GX \o <<"v1">>)) @@ ("W2" :> (GX \o <<"v2">>)) @@
  ("SR" :> (GX \o <<"v1">>)) @@ ("G" :> (GY \o <<"v1">>)) @@ ("C" :> CtrlPkg)

MCDeclName ==
  ("W1" :> "Widget") @@ ("W2" :> "Widget") @@ ("SR" :> "ScaleRequest") @@
  ("G" :> "Gadget") @@ ("C" :> "WidgetController")

MCUniverseChoices ==
  {{"W1", "W2", "SR", "C"}, {"W1", "W2", "SR", "C", "G"}, {"G", "C"}}

\* Tags, written as tokens
PathWidgets == <<"path", "=", "widgets">>
StrategyTag == PathWidgets \o <<",", "strategy", "=", "s", "Strategy">>
ScaleLocal == <<"path", "=", "widgets", "/", "scale", ",", "request", "=", "ScaleRequest">>
ScalePlain == <<"path", "=", "scale">>
ScaleRemote == <<"path", "=", "scale", ",", "request", "=", "a", "/", "v1", ".", "Scale">>
StatusTag == <<"path", "=", "widgets", "/", "status">>
CtrlTag == <<"group", "=", "g", ",", "kind", "=", "Widget">>
Tag(r, s, c) == [res |-> r, sub |-> s, ctrl |-> c]

MCTagChoices ==
  ("W1" :> {Tag(r, s, <<>>) : r \in {PathWidgets, StrategyTag},
                              s \in {<<ScalePlain, ScaleLocal>>,
                                     <<ScaleRemote, StatusTag>>,
                                     <<StatusTag>>,
                                     <<<<"scale">>>>}}) @@
  ("W2" :> {Tag(r, <<>>, <<>>) : r \in {PathWidgets, <<>>, <<"path">>}}) @@
  ("SR" :> {Tag(<<>>, <<>>, <<>>)}) @@
  ("G"  :> {Tag(<<"path", "=", "gadgets">>, <<>>, <<>>)}) @@
  ("C"  :> {Tag(<<>>, <<>>, c) : c \in {CtrlTag, <<>>, <<"kind">>}})

MCUniversePkgs ==
  {RootX, GX, GX \o <<"v1">>, GX \o <<"v2">>, RootY, GY, GY \o <<"v1">>, CtrlPkg}

\* The same universe without the directory of group g: its versions have
\* Go files, the group directory itself has none
MCUniverseNoGroupDir == MCUniversePkgs \ {GX}

MCDomainTag == [p \in MCUniversePkgs |-> IF p = RootX THEN <<"example">> ELSE <<>>]

=============================================================================
