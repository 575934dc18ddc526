----------------------------- MODULE UndoHistory -----------------------------
(***************************************************************************)
(* The undo log together with the history it stands for: history variables  *)
(* that remember the buffer at each change-set boundary.  They are read by  *)
(* no action of the log; they are what "undo takes the change back" is       *)
(* stated with, and they witness that the log implements LinearHistory.     *)
(* The log trusts its callers in two things: that a line they insert or     *)
(* delete is one of the buffer (an insertion may be right behind it), and    *)
(* that they do not undo or redo in the middle of a change set of theirs.    *)
(* Callers break both: p in an empty buffer inserts at line 2               *)
(* (viedit.go, 339-346), :1t99 behind line 99, and u is accepted in the body *)
(* of a :global.  The variable astray says that it has happened; from then   *)
(* on nothing is claimed of undo and redo.                                  *)
(***************************************************************************)
EXTENDS UndoLog

VARIABLES
  base,     \* the buffer when the open change set was begun
  past,     \* past[i]: the buffer before change set undo[i]
  future,   \* future[i]: the buffer after change set redo[i]
  astray    \* has a caller broken the trust of the log?

hist == <<base, past, future>>
hvars == <<store, open, cur, undo, redo, gen, base, past, future, astray>>

HTypeOK ==
  /\ TypeOK
  /\ base \in Buffer
  /\ past \in Seq(Buffer)
  /\ future \in Seq(Buffer)
  /\ astray \in BOOLEAN

HInit ==
  Init /\ base = store /\ past = <<>> /\ future = <<>> /\ astray = FALSE

\* From this step on, nothing is claimed if what holds.
Strays(what) == astray' = (astray \/ what)

\* A change set starting at b has been committed.
Remembered(b) ==
  /\ past' = Append(past, b)
  /\ future' = <<>>
  /\ base' = store'

HBegin == Begin /\ UNCHANGED <<hist, astray>>

HEnd ==
  /\ End
  /\ IF open = 1 /\ cur # <<>> THEN Remembered(base) ELSE UNCHANGED hist
  /\ UNCHANGED astray

\* A set behind the buffer changes nothing, neither now nor when it is undone
\* or redone; an insertion is moved and its undo is not, a deletion does
\* nothing and its undo inserts.
HEdit ==
  /\ \/ \E lno \in 1..(Len(store) + Over), line \in Line :
           Set(lno, line) /\ UNCHANGED astray
     \/ \E lno \in 1..(Len(store) + 1 + Over), line \in Line :
           Insert(lno, line) /\ Strays(lno > Len(store) + 1)
     \/ \E lno \in 1..(Len(store) + Over) :
           Delete(lno) /\ Strays(lno > Len(store))
  /\ IF open = 0 THEN Remembered(store) ELSE UNCHANGED hist

HUndo ==
  /\ Undo \/ \E lno \in 1..Len(store) : UndoLineOnly(lno)
  /\ base' = store'
  /\ past' = Front(past)
  /\ future' = Append(future, store)
  /\ Strays(Pending)

HRedo ==
  /\ Redo
  /\ base' = store'
  /\ future' = Front(future)
  /\ past' = Append(past, store)
  /\ Strays(Pending)

HNext == HBegin \/ HEnd \/ HEdit \/ HUndo \/ HRedo

HSpec == HInit /\ [][HNext]_hvars

-----------------------------------------------------------------------------
(***************************************************************************)
(* Properties.                                                              *)
(***************************************************************************)

\* Undo puts back exactly the buffer the change set started from, whatever
\* mixture of sets, insertions and deletions the set holds and however many
\* undos and redos went before (undo.go, Undo: "Undo reverses the most recent
\* change set"); unless a caller has broken the trust of the log.
UndoRestores ==
  [][HUndo /\ ~astray' => store' = Last(past)]_hvars

\* Redo puts back exactly the buffer the undone change set had ended with
\* (undo.go, Redo: "Redo replays the most recently undone change set"), with
\* the same exception.
RedoRestores ==
  [][HRedo /\ ~astray' => store' = Last(future)]_hvars

\* The edit generation tells two different contents of the buffer apart
\* across any step, undo and redo included: the display cache keeps its lines
\* as long as the generation stands still (undo.go, gen).
GenTellsChange == [][store' # store => gen' # gen]_hvars

\* The inductive invariant: unless a caller has gone astray, every change set
\* on either stack, and the open one, still leads between the buffers it was
\* recorded between.
HistoryInv ==
  /\ HTypeOK
  /\ open = 0 => cur = <<>>
  /\ Len(past) = Len(undo)
  /\ Len(future) = Len(redo)
  /\ ~astray => /\ Chain(base, cur, store)
                /\ UndoStack(undo, past, base)
                /\ RedoStack(redo, future, base)

\* The log implements the promise, as long as its callers do their part.
History == INSTANCE LinearHistory WITH now <- store, Content <- Buffer, lost <- astray
ImplementsHistory == History!Spec
=============================================================================
