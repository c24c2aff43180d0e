------------------------------ MODULE GoPath ------------------------------
(***************************************************************************)
(* The path and package-path helpers parser.go calls.  A package path is   *)
(* a sequence of path segments ("example.io", "apis", "g", "v1"); a type   *)
(* string or tag value is a sequence of tokens in which "/" and "." are    *)
(* tokens of their own.                                                    *)
(***************************************************************************)
EXTENDS Naturals, Sequences, SequencesExt

\* path.Dir / filepath.Dir of a package path: "" and a single segment both
\* give "."
PathDir(p) == IF Len(p) <= 1 THEN <<".">> ELSE Front(p)

\* path.Base / filepath.Base of a package path: "" gives "."
PathBase(p) == IF p = <<>> THEN "." ELSE Last(p)

\* The tokens of a package path, its segments separated by "/"
JoinPath(p) ==
  FlattenSeq([i \in DOMAIN p |-> IF i = 1 THEN <<p[i]>> ELSE <<"/", p[i]>>])

\* filepath.Base of a token string: trailing "/" are dropped, then what
\* follows the last "/" is kept; "" gives "." and all-"/" gives "/"
FileBase(s) ==
  LET keep == SelectLastInSeq(s, LAMBDA x : x # "/")
      t    == SubSeq(s, 1, keep)
  IN IF s = <<>> THEN <<".">>
     ELSE IF keep = 0 THEN <<"/">>
     ELSE SubSeq(t, SelectLastInSeq(t, LAMBDA x : x = "/") + 1, Len(t))

=============================================================================
