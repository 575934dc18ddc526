------------------------------- MODULE MCUndo -------------------------------
(***************************************************************************)
(* Bounded instance of the undo log with its history.                       *)
(***************************************************************************)
EXTENDS UndoHistory

CONSTANTS
  MaxLines,   \* longest buffer explored
  MaxGen,     \* number of edits, undos and redos explored
  MaxAstray,  \* the same once a caller has broken the trust of the log
  MaxDepth    \* deepest nesting of Begin/End explored

StartBuffers == {<<>>, <<Empty>>}

Bounds ==
  /\ Len(store) <= MaxLines
  /\ gen <= IF astray THEN MaxAstray ELSE MaxGen
  /\ open <= MaxDepth
=============================================================================
