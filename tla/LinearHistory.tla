---------------------------- MODULE LinearHistory ----------------------------
(***************************************************************************)
(* What undo and redo promise, with no record of single edits: the buffer   *)
(* moves along a line of snapshots.  Committing a change adds the snapshot  *)
(* the change started from and forgets what had been undone; undo returns   *)
(* to the latest snapshot, redo comes back from it.  The promise has an      *)
(* end: once lost is set, it says nothing more.                             *)
(***************************************************************************)
EXTENDS Integers, Sequences, SequencesExt

CONSTANT Content   \* every content a buffer can have

VARIABLES
  now,      \* the content of the buffer
  base,     \* its content when the change being made was begun
  past,     \* the contents undo returns to, the next one last
  future,   \* the contents redo returns to, the next one last
  lost      \* TRUE: the promise is off

vars == <<now, base, past, future, lost>>

Init ==
  /\ now \in Content
  /\ base = now
  /\ past = <<>>
  /\ future = <<>>
  /\ lost = FALSE

\* An edit inside a change that is still open.
Work == now' \in Content /\ UNCHANGED <<base, past, future>>

\* The change that began at base is complete.
Commit ==
  /\ past' = Append(past, base)
  /\ future' = <<>>
  /\ now' \in Content
  /\ base' = now'

Undo ==
  /\ past # <<>>
  /\ now' = Last(past)
  /\ base' = now'
  /\ past' = Front(past)
  /\ future' = Append(future, now)

Redo ==
  /\ future # <<>>
  /\ now' = Last(future)
  /\ base' = now'
  /\ future' = Front(future)
  /\ past' = Append(past, now)

\* From here on the buffer, and what undo and redo return to, may be anything.
Lose == lost' = TRUE

Next ==
  \/ ~lost /\ ~lost' /\ (Work \/ Commit \/ Undo \/ Redo)
  \/ Lose

Spec == Init /\ [][Next]_vars
=============================================================================
