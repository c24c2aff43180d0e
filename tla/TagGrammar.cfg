CONSTANTS
  Words = {"path", "rest", "strategy", "group", "version", "kind", "resource", "request", "w"}
  Parents = {"w", ""}
  MaxTagLen = 5

SPECIFICATION Spec

\* A tag is finite: its last token ends the comment line
CHECK_DEADLOCK FALSE

INVARIANT ParsersMatchReference
