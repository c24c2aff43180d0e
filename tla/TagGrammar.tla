---------------------------- MODULE TagGrammar ----------------------------
(***************************************************************************)
(* Checks the tag parsers of TagParser against a declarative reference on *)
(* every tag of at most MaxTagLen tokens.  The tag is written one token at *)
(* a time, as the text after "+resource:", "+controller:" or               *)
(* "+subresource:" in a comment line would be read.                        *)
(***************************************************************************)
EXTENDS TagParser, FiniteSets

CONSTANTS
  Words,      \* the words a tag is written with
  Parents,    \* the Resource (path) of the parent resource: one word, or ""
              \* when its "+resource:" tag has no path=
  MaxTagLen   \* the longest tag considered

Separators == {",", "=", "/"}

VARIABLE tag

Init == tag = <<>>

Write == /\ Len(tag) < MaxTagLen
         /\ \E w \in Words \cup Separators : tag' = Append(tag, w)

Next == Write

Spec == Init /\ [][Next]_tag

----------------------------------------------------------------------------
(* The reference: pieces of a tag cut at every separator position, a pair *)
(* being a piece with exactly one "=", and the last pair of a key giving   *)
(* its value.                                                              *)

Cuts(s, sep) == SetToSortSeq({i \in DOMAIN s : s[i] = sep}, <)

Pieces(s, sep) ==
  LET b == <<0>> \o Cuts(s, sep) \o <<Len(s) + 1>>
  IN [k \in 1..(Len(b) - 1) |-> SubSeq(s, b[k] + 1, b[k + 1] - 1)]

IsPair(p) == Cardinality({i \in DOMAIN p : p[i] = "="}) = 1

KeyOf(p) == SubSeq(p, 1, Cuts(p, "=")[1] - 1)
ValueOf(p) == SubSeq(p, Cuts(p, "=")[1] + 1, Len(p))

\* The value of the last pair with key k, "" when there is none
LastValue(s, k) ==
  LET ps == Pieces(s, ",")
      at == {i \in DOMAIN ps : KeyOf(ps[i]) = k}
  IN IF at = {} THEN <<>> ELSE ValueOf(ps[Max(at)])

\* A parent Resource as a token sequence
ParentSeq(p) == IF p = "" THEN <<>> ELSE <<p>>

\* The path value with each non-overlapping "parent/" cut out; with an
\* empty parent that is every "/"
StripParent(p, v) ==
  IF p = "" THEN SelectSeq(v, LAMBDA x : x # "/")
  ELSE ReplaceAllSubSeqs(<<>>, ParentSeq(p) \o <<"/">>, v)

WellFormed(s) == \A i \in DOMAIN Pieces(s, ",") : IsPair(Pieces(s, ",")[i])

RefResource(s) ==
  [Resource |-> LastValue(s, <<"path">>), REST |-> LastValue(s, <<"rest">>),
   Strategy |-> LastValue(s, <<"strategy">>)]

RefController(s) ==
  [Group |-> LastValue(s, <<"group">>), Version |-> LastValue(s, <<"version">>),
   Kind |-> LastValue(s, <<"kind">>), Resource |-> LastValue(s, <<"resource">>)]

RefSubresource(p, s) ==
  [Path |-> StripParent(p, LastValue(s, <<"path">>)), Kind |-> <<>>,
   RequestKind |-> LastValue(s, <<"request">>), REST |-> LastValue(s, <<"rest">>)]

----------------------------------------------------------------------------
\* ParseResourceTag, ParseControllerTag and ParseSubresourceTag refuse (log.Fatalf)
\* exactly the tags with an element that is not one key=value pair, and on the
\* others give, for each key they know, the value of its last pair: the
\* Split/Split/switch loop agrees with the reference on every tag.
ParsersMatchReference ==
  IF WellFormed(tag)
  THEN /\ ParseResourceTag(tag) = RefResource(tag)
       /\ ParseControllerTag(tag) = RefController(tag)
       /\ \A p \in Parents :
            ParseSubresourceTag(ParentSeq(p), tag) = RefSubresource(p, tag)
  ELSE /\ ParseResourceTag(tag) = Malformed
       /\ ParseControllerTag(tag) = Malformed
       /\ \A p \in Parents : ParseSubresourceTag(ParentSeq(p), tag) = Malformed

=============================================================================
