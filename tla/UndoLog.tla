------------------------------- MODULE UndoLog -------------------------------
(***************************************************************************)
(* The undo log of a buffer (engine/undo).  Every edit of the buffer goes   *)
(* through the log, which applies it to the store and records how to take   *)
(* it back; the edits made between the outermost Begin and End are one      *)
(* change set, the unit of undo and redo.  The cursor positions kept with a *)
(* change set do not influence the buffer and are left out.                 *)
(***************************************************************************)
EXTENDS LineStore

CONSTANTS
  Start,   \* the buffers a session can begin with
  Over     \* bound: how far behind the buffer a caller's line number may lie

ASSUME UndoLogAssumption ==
  /\ Start \subseteq Buffer
  /\ Over \in Nat

VARIABLES
  store,   \* the lines of the buffer
  open,    \* nesting depth of Begin/End
  cur,     \* records of the open change set
  undo,    \* committed change sets, oldest first
  redo,    \* undone change sets, most recently undone last
  gen      \* edit generation, read by the display cache

vars == <<store, open, cur, undo, redo, gen>>

Rec == [kind : {"set", "insert", "delete"}, lno : Int, before : Line, after : Line]
ChangeSet == Seq(Rec)

TypeOK ==
  /\ store \in Buffer
  /\ open \in Nat
  /\ cur \in ChangeSet
  /\ undo \in Seq(ChangeSet)
  /\ redo \in Seq(ChangeSet)
  /\ gen \in Nat

(***************************************************************************)
(* One record taken back, and one record applied again.                     *)
(***************************************************************************)
Reverted(s, r) ==
  CASE r.kind = "set"    -> SetLine(s, r.lno, r.before)
    [] r.kind = "insert" -> DeleteLine(s, r.lno)
    [] r.kind = "delete" -> InsertLine(s, r.lno, r.before)

Replayed(s, r) ==
  CASE r.kind = "set"    -> SetLine(s, r.lno, r.after)
    [] r.kind = "insert" -> InsertLine(s, r.lno, r.after)
    [] r.kind = "delete" -> DeleteLine(s, r.lno)

\* Faulty variant: the records are taken back in the order they were made.
RevertRunOldestFirst(s, recs) ==
  LET t[i \in 0..Len(recs)] ==
        IF i = 0 THEN s ELSE Reverted(t[i - 1], recs[i])
  IN  t

\* The buffer after the last i records of recs have been taken back, newest first.
RevertRun(s, recs) ==
  LET t[i \in 0..Len(recs)] ==
        IF i = 0 THEN s ELSE Reverted(t[i - 1], recs[Len(recs) - i + 1])
  IN  t

\* Faulty variant: a redo walks the change set the way an undo does.
ReplayRunNewestFirst(s, recs) ==
  LET t[i \in 0..Len(recs)] ==
        IF i = 0 THEN s ELSE Replayed(t[i - 1], recs[Len(recs) - i + 1])
  IN  t

\* The buffer after the first i records of recs have been applied again.
ReplayRun(s, recs) ==
  LET t[i \in 0..Len(recs)] ==
        IF i = 0 THEN s ELSE Replayed(t[i - 1], recs[i])
  IN  t

RevertAll(s, recs) == RevertRun(s, recs)[Len(recs)]
ReplayAll(s, recs) == ReplayRun(s, recs)[Len(recs)]

-----------------------------------------------------------------------------

Pending == open > 0 /\ cur # <<>>

Init ==
  /\ store \in Start
  /\ open = 0
  /\ cur = <<>>
  /\ undo = <<>>
  /\ redo = <<>>
  /\ gen = 0

\* Faulty variant: a nested Begin starts a new change set.
BeginAlwaysFresh ==
  /\ open' = open + 1
  /\ cur' = <<>>
  /\ UNCHANGED <<store, undo, redo, gen>>

Begin ==
  /\ open' = open + 1
  /\ cur' = IF open = 0 THEN <<>> ELSE cur
  /\ UNCHANGED <<store, undo, redo, gen>>

\* Faulty variant: a committed change set leaves the redo stack alone.
EndKeepsRedo ==
  /\ open > 0
  /\ open' = open - 1
  /\ cur' = IF open = 1 THEN <<>> ELSE cur
  /\ undo' = IF open = 1 /\ cur # <<>> THEN Append(undo, cur) ELSE undo
  /\ UNCHANGED <<store, redo, gen>>

\* Only the outermost End commits, and only a change set with records.
End ==
  /\ open > 0
  /\ open' = open - 1
  /\ IF open = 1
       THEN /\ cur' = <<>>
            /\ IF cur # <<>>
                 THEN undo' = Append(undo, cur) /\ redo' = <<>>
                 ELSE UNCHANGED <<undo, redo>>
       ELSE UNCHANGED <<cur, undo, redo>>
  /\ UNCHANGED <<store, gen>>

\* An edit outside any Begin/End is a change set of its own.
Record(r) ==
  /\ IF open = 0
       THEN undo' = Append(undo, <<r>>) /\ redo' = <<>> /\ cur' = <<>>
       ELSE cur' = Append(cur, r) /\ UNCHANGED <<undo, redo>>
  /\ gen' = gen + 1
  /\ UNCHANGED open

Set(lno, line) ==
  /\ Record([kind |-> "set", lno |-> lno, before |-> Get(store, lno),
             after |-> IF InRange(store, lno) THEN line ELSE Empty])
  /\ store' = SetLine(store, lno, line)

\* Append(lno, line) of the code is Insert(lno + 1, line).
Insert(lno, line) ==
  /\ Record([kind |-> "insert", lno |-> lno, before |-> Empty, after |-> line])
  /\ store' = InsertLine(store, lno, line)

Delete(lno) ==
  /\ Record([kind |-> "delete", lno |-> lno, before |-> Get(store, lno),
             after |-> Empty])
  /\ store' = DeleteLine(store, lno)

\* Faulty variant: undo does not count as a change of the buffer.
UndoKeepsGen ==
  /\ undo # <<>>
  /\ store' = RevertAll(store, Last(undo))
  /\ undo' = Front(undo)
  /\ redo' = Append(redo, Last(undo))
  /\ UNCHANGED <<open, cur, gen>>

Undo ==
  /\ undo # <<>>
  /\ store' = RevertAll(store, Last(undo))
  /\ undo' = Front(undo)
  /\ redo' = Append(redo, Last(undo))
  /\ gen' = gen + 1
  /\ UNCHANGED <<open, cur>>

\* The U command: undo, provided the whole change set lies on line lno.
UndoLineOnly(lno) ==
  /\ undo # <<>>
  /\ \A i \in 1..Len(Last(undo)) : Last(undo)[i].lno = lno
  /\ Undo

Redo ==
  /\ redo # <<>>
  /\ store' = ReplayAll(store, Last(redo))
  /\ redo' = Front(redo)
  /\ undo' = Append(undo, Last(redo))
  /\ gen' = gen + 1
  /\ UNCHANGED <<open, cur>>

Edit ==
  \/ \E lno \in 1..(Len(store) + Over), line \in Line : Set(lno, line)
  \/ \E lno \in 1..(Len(store) + 1 + Over), line \in Line : Insert(lno, line)
  \/ \E lno \in 1..(Len(store) + Over) : Delete(lno)

Step ==
  \/ Undo
  \/ \E lno \in 1..Len(store) : UndoLineOnly(lno)
  \/ Redo

Next == Begin \/ End \/ Edit \/ Step

Spec == Init /\ [][Next]_vars

-----------------------------------------------------------------------------
(***************************************************************************)
(* What change sets stand for: the buffers they lead between.               *)
(***************************************************************************)

\* The records lead from buffer a to buffer b, and each of them can be taken
\* back where it was made.
Chain(a, recs, b) ==
  LET t == ReplayRun(a, recs)
  IN  /\ t[Len(recs)] = b
      /\ \A i \in 1..Len(recs) : t[i - 1] = Reverted(t[i], recs[i])

\* Each change set of the undo stack us leads from the buffer before it to the
\* buffer before the next one, the last of them to b.
UndoStack(us, ps, b) ==
  \A i \in 1..Len(us) :
     Chain(ps[i], us[i], IF i = Len(us) THEN b ELSE ps[i + 1])

\* Each change set of the redo stack rs leads to the buffer after it, the most
\* recently undone one from b.
RedoStack(rs, fs, b) ==
  \A i \in 1..Len(rs) :
     Chain(IF i = Len(rs) THEN b ELSE fs[i + 1], rs[i], fs[i])
=============================================================================
