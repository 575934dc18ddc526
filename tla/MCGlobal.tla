------------------------------ MODULE MCGlobal ------------------------------
(***************************************************************************)
(* Bounded instance of the ex commands and :global.                         *)
(***************************************************************************)
EXTENDS Global

CONSTANTS
  MaxLines,      \* longest buffer explored
  MaxFresh,      \* the first identity that is not created any more
  MaxChanges     \* change sets kept in the undo log, if of one record each

Lines == [id : Nat, text : Text]
NoText == [id |-> 0, text |-> "plain"]

\* In a body, move and copy take the matched line alone.
EveryBody == {c \in Command : c.op \in {"move", "copy"} => c.count = 1}

CopyToDot == {c \in EveryBody : c.op = "copy" /\ c.dest = "."}

\* Three lines, of which two match; and one line, which is soon deleted.
StartLines ==
  {<<[id |-> 1, text |-> "hit"], [id |-> 2, text |-> "plain"], [id |-> 3, text |-> "hit"]>>,
   <<[id |-> 1, text |-> "hit"]>>}

\* The edit generation only grows; no action here reads it.
ButGen ==
  <<store, open, cur, undo, redo, marks, cursor, lastStepRedo, dotUndo, loop,
    fresh, was, is, phase, trust>>

\* Nothing is claimed of a torn state, so none is left.  A :global is run after
\* a command of one record at most.  Two change sets side by side are kept if
\* they are of one record and create no line: enough for . to go on from one to
\* the other.
Bounds ==
  /\ ~Torn
  /\ Len(store) <= MaxLines
  /\ fresh <= MaxFresh
  /\ Len(undo) + Len(redo) <= MaxChanges
  /\ running \/ Len(undo) + Len(redo) > 1 =>
       \A recs \in Range(undo \o redo) : Len(recs) = 1
  /\ Len(undo) + Len(redo) > 1 => ~running /\ Ids(store) \subseteq 1..3
=============================================================================
