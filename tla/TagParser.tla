----------------------------- MODULE TagParser -----------------------------
(***************************************************************************)
(* The directive tag grammar of parser.go: ParseResourceTag,               *)
(* ParseControllerTag and ParseSubresourceTag.  A tag is a string, kept as *)
(* a sequence of tokens: the separators "," "=" "/" and words (a key, a    *)
(* value, a path segment).  strings.Split and strings.Replace are computed *)
(* on these sequences, so a malformed tag is found the way the code finds  *)
(* it.  log.Fatalf is the value Malformed.                                 *)
(***************************************************************************)
EXTENDS Naturals, Sequences, SequencesExt

Malformed == [fatal |-> TRUE]

\* strings.Split(s, sep) for a one-token separator: "" gives <<"">>
RECURSIVE Split(_, _)
Split(s, sep) ==
  LET i == SelectInSeq(s, LAMBDA x : x = sep)
  IN IF i = 0 THEN <<s>>
     ELSE <<SubSeq(s, 1, i - 1)>> \o Split(SubSeq(s, i + 1, Len(s)), sep)

\* strings.Replace(s, old, "", -1): every occurrence of old, scanned left
\* to right without overlap, is removed
RECURSIVE RemoveAll(_, _)
RemoveAll(s, old) ==
  CASE Len(s) < Len(old)             -> s
    [] SubSeq(s, 1, Len(old)) = old  -> RemoveAll(SubSeq(s, Len(old) + 1, Len(s)), old)
    [] OTHER                         -> <<Head(s)>> \o RemoveAll(Tail(s), old)

\* The elements of a tag split at ",", each split at "="
KeyValues(tag) ==
  LET elems == Split(tag, ",")
  IN [i \in DOMAIN elems |-> Split(elems[i], "=")]

\* A bug variant of the pair check: only too few "=" are refused
PairCheckLenLt2(tag) == LET kvs == KeyValues(tag) IN \E i \in DOMAIN kvs : Len(kvs[i]) < 2

\* log.Fatalf as soon as one element is not exactly one key and one value
PairCheck(tag) == LET kvs == KeyValues(tag) IN \E i \in DOMAIN kvs : Len(kvs[i]) # 2

\* The switch over the key/value pairs, in order: Fields maps a recognised
\* key to the field it sets, a later pair overwrites an earlier one, other
\* keys are ignored
RECURSIVE SetFields(_, _, _)
SetFields(Fields, r, kvs) ==
  IF kvs = <<>> THEN r
  ELSE LET kv   == Head(kvs)
           next == IF kv[1] \in DOMAIN Fields THEN [r EXCEPT ![Fields[kv[1]]] = kv[2]]
                                               ELSE r
       IN SetFields(Fields, next, Tail(kvs))

\* The loop of the Parse*Tag functions, starting from the empty record
ParseTag(tag, Fields, empty) ==
  IF PairCheck(tag) THEN Malformed ELSE SetFields(Fields, empty, KeyValues(tag))

ResourceTags == [Resource |-> <<>>, REST |-> <<>>, Strategy |-> <<>>]

ParseResourceTag(tag) ==
  ParseTag(tag, (<<"rest">> :> "REST") @@ (<<"path">> :> "Resource")
                @@ (<<"strategy">> :> "Strategy"),
           ResourceTags)

ControllerTags ==
  [Group |-> <<>>, Version |-> <<>>, Kind |-> <<>>, Resource |-> <<>>]

ParseControllerTag(tag) ==
  ParseTag(tag, (<<"group">> :> "Group") @@ (<<"version">> :> "Version")
                @@ (<<"kind">> :> "Kind") @@ (<<"resource">> :> "Resource"),
           ControllerTags)

SubresourceTags ==
  [Path |-> <<>>, Kind |-> <<>>, RequestKind |-> <<>>, REST |-> <<>>]

\* The path value loses every "<parent resource>/" it contains
ParseSubresourceTag(parent, tag) ==
  LET t == ParseTag(tag, (<<"request">> :> "RequestKind") @@ (<<"rest">> :> "REST")
                         @@ (<<"path">> :> "Path"),
                    SubresourceTags)
  IN IF t = Malformed THEN Malformed
     ELSE [t EXCEPT !.Path = RemoveAll(@, parent \o <<"/">>)]

=============================================================================
