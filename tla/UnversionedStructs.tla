------------------------- MODULE UnversionedStructs -------------------------
(***************************************************************************)
(* What the struct work-list of an API group promises, independent of its  *)
(* pop order: a catalogue of types to flatten, grown one type at a time.   *)
(* A type may join when it is a seed (a resource or subresource type of    *)
(* the group) or is referenced by a catalogued type, and no catalogued     *)
(* type has its key (its bare name).  The catalogue keeps growing while    *)
(* such a type exists.                                                     *)
(***************************************************************************)
CONSTANTS
  Types,   \* the candidate types
  Seeds,   \* the types the search starts from
  Key(_)   \* the identity under which two types count as the same struct

VARIABLES
  refs,      \* Types -> SUBSET Types: the references of each type (input)
  catalogue  \* the types added so far

avars == <<refs, catalogue>>

Keys(S) == {Key(t) : t \in S}

\* The types that may be catalogued next
Frontier ==
  { t \in Seeds \cup UNION {refs[u] : u \in catalogue} :
      Key(t) \notin Keys(catalogue) }

Init ==
  /\ DOMAIN refs = Types
  /\ \A t \in Types : refs[t] \subseteq Types
  /\ catalogue = {}

\* The references are input: they never change
Add == \E t \in Frontier : catalogue' = catalogue \cup {t}

Spec == Init /\ [][Add /\ UNCHANGED refs]_avars /\ WF_catalogue(Add)

\* The safety part of Spec
SafeSpec == Init /\ [][Add /\ UNCHANGED refs]_avars

\* What the fairness of Spec gives over finitely many types: the catalogue
\* ends up covering every seed and every reference of a catalogued type.
Complete == <>[](Frontier = {})

=============================================================================
