------------------------------- MODULE Global -------------------------------
(***************************************************************************)
(* The ex commands that change a buffer, alone and as the body of :global   *)
(* (engine/exsearch.go), with the marks, the match list of :global, the     *)
(* undo log and the direction of u and . (engine/vi.go).                    *)
(*                                                                         *)
(* A command runs to its end in one step: nothing runs beside it.  :global  *)
(* is one step for each match, as it polls for an interrupt between them.   *)
(* Between commands the user moves the cursor at will, so a command finds   *)
(* it on any line; inside :global only the body moves it.                   *)
(*                                                                         *)
(* Nothing keeps a command inside the buffer: :t and :m take a mark or a    *)
(* number behind it as their destination, :put and :k any address, and an   *)
(* empty buffer has a line 1 that can be deleted, copied and matched.        *)
(***************************************************************************)
EXTENDS UndoLog, LineEdits, FiniteSets

CONSTANTS
  Text,       \* the texts of lines; a line is [id : Nat, text : Text]
  Mark,       \* the names of marks
  Dests,      \* the destinations of move and copy that are used
  Bodies      \* the commands :global is used with

Command ==
  [op : {"delete", "join"}, count : 1..2]
    \cup [op : {"move", "copy"}, count : 1..2, dest : Dests]
    \cup [op : {"substitute"}, count : 1..2, two : BOOLEAN]
    \cup [op : {"put"}, count : {1}]

ASSUME GlobalAssumption ==
  /\ Empty.text \in Text
  /\ Matching \subseteq Text
  /\ Dests \subseteq {"0", "$", "."} \cup Mark
  /\ Bodies \subseteq Command
  /\ \A lines \in Start : \A i \in DOMAIN lines : lines[i].id = i

VARIABLES
  marks,          \* mark -> line number
  cursor,         \* line of the cursor in a running :global, else 0
  lastStepRedo,   \* direction of the last u; TRUE after every change
  dotUndo,        \* does . repeat an undo?
  gMarks,         \* the match list of the running :global
  gLastEdit,      \* where its last insertion or deletion was
  body,           \* its command
  next,           \* index of the next match; 0 when no :global is running
  fresh,          \* identity of the next line created
  flagged,        \* history: the lines matched by the running :global
  visited,        \* history: the lines its command has been run on
  before,         \* history: the buffer when it began
  was,            \* history: the buffer before the last command
  is,             \* history: the buffer after it
  phase,          \* history: was the last command "done", is it "undone"?
  trust           \* history: "astray" once a command has inserted or deleted at
                  \* a number that is none of the buffer's, "torn" once an undo
                  \* or redo has come after that, "whole" before

log == <<store, open, cur, undo, redo, gen>>
loop == <<gMarks, gLastEdit, body, next, flagged, visited, before>>
gvars == <<log, marks, cursor, lastStepRedo, dotUndo, loop, fresh, was, is, phase, trust>>

running == next # 0
Astray == trust # "whole"
Torn == trust = "torn"

Ids(lines) == {lines[i].id : i \in DOMAIN lines}
LineOf(lines, id) == CHOOSE i \in DOMAIN lines : lines[i].id = id

-----------------------------------------------------------------------------

GInit ==
  /\ Init
  /\ marks = [m \in Mark |-> Gone]
  /\ cursor = 0
  /\ lastStepRedo = TRUE
  /\ dotUndo = FALSE
  /\ gMarks = <<>> /\ gLastEdit = 0 /\ body = <<>> /\ next = 0
  /\ fresh = Len(store) + 1
  /\ flagged = <<>> /\ visited = {} /\ before = <<>>
  /\ was = <<>> /\ is = <<>> /\ phase = "none"
  /\ trust = "whole"

\* The state a command starts from, with the cursor on line at.
Found(at) ==
  [lines |-> store, recs |-> cur, marks |-> marks, gMarks |-> gMarks,
   gLastEdit |-> IF running THEN gMarks[next] ELSE gLastEdit, cursor |-> at, fresh |-> fresh,
   ok |-> TRUE, ended |-> FALSE, astray |-> FALSE]

\* The state command c leaves, run on line lno and count - 1 lines behind it.
\* Only :s can be stopped inside; it then has scanned the lines before stop.
Executed(c, at, lno, stop) ==
  LET e == Found(at)
      last == lno + c.count - 1
  IN  IF c.op = "put" THEN exPut(e, lno)
      ELSE IF InvalidAddress(e, lno, last) THEN Failed(e)
      ELSE CASE c.op = "delete"     -> exDelete(e, lno, last)
             [] c.op = "move"       -> exMove(e, lno, last, c.dest)
             [] c.op = "copy"       -> exCopy(e, lno, last, c.dest)
             [] c.op = "join"       -> exJoin(e, lno, last)
             [] c.op = "substitute" -> exSubstitute(e, lno, last, c.two, stop)

Stops(c, lno) ==
  IF c.op = "substitute" THEN lno..(lno + c.count) ELSE {lno}

\* What command result e changes apart from the undo log and the cursor.
Edited(e) ==
  /\ store' = e.lines
  /\ marks' = e.marks
  /\ fresh' = e.fresh
  /\ trust' = IF e.astray /\ ~Torn THEN "astray" ELSE trust
  /\ gen' = gen + Len(e.recs) - Len(cur)

\* The outermost endChange: recs is the change set it commits.
Committed(recs) ==
  /\ open' = 0
  /\ cur' = <<>>
  /\ IF recs # <<>>
       THEN undo' = Append(undo, recs) /\ redo' = <<>>
       ELSE UNCHANGED <<undo, redo>>
  /\ lastStepRedo' = TRUE
  /\ dotUndo' = FALSE

Remember(recs, from, to) ==
  IF recs = <<>> THEN phase' = "none" /\ was' = <<>> /\ is' = <<>>
  ELSE phase' = "done" /\ was' = from /\ is' = to

\* A command of its own.
Execute(c, lno) ==
  /\ ~running
  /\ \E stop \in Stops(c, lno), at \in 1..LineCount(store) :
       LET e == Executed(c, at, lno, stop) IN
       /\ Edited(e)
       /\ IF e.ended
            THEN Committed(e.recs) /\ Remember(e.recs, store, e.lines)
            ELSE UNCHANGED <<open, cur, undo, redo, lastStepRedo, dotUndo,
                             was, is, phase>>
  /\ UNCHANGED <<cursor, loop>>

ExMark(lno, m) ==
  /\ ~running
  /\ marks' = [marks EXCEPT ![m] = lno]
  /\ UNCHANGED <<log, cursor, lastStepRedo, dotUndo, loop, fresh, was, is, phase, trust>>

-----------------------------------------------------------------------------
(***************************************************************************)
(* :global.                                                                 *)
(***************************************************************************)

\* A line that matches, or with invert one that does not, joins those found.
Collected(found, lno, invert) ==
  IF Matches(Get(store, lno)) # invert THEN Append(found, lno) ELSE found

\* The matches among the lines l1 to l2.
MatchList(l1, l2, invert) ==
  LET n == l2 - l1 + 1
  IN  Rounds(<<>>, n, LAMBDA found, i : Collected(found, l1 + i - 1, invert))[n]

GlobalStart(c, l1, l2, invert) ==
  /\ ~running
  /\ LET found == MatchList(l1, l2, invert) IN
     /\ gMarks' = found
     /\ flagged' = [i \in DOMAIN found |-> Get(store, found[i]).id]
  /\ gLastEdit' = 0
  /\ body' = c
  /\ next' = 1
  /\ visited' = {}
  /\ cursor' \in 1..LineCount(store)
  /\ Remember(<<>>, store, store)
  /\ before' = store
  /\ Begin
  /\ UNCHANGED <<marks, lastStepRedo, dotUndo, fresh, trust>>

target == gMarks[next]
Visitable == target \in 1..LineCount(store)

\* The deferred functions of global: endChange, then the list is dropped.
GlobalLeave(recs, lines) ==
  /\ Committed(recs)
  /\ Remember(recs, before, lines)
  /\ gMarks' = <<>> /\ gLastEdit' = 0 /\ body' = <<>> /\ next' = 0
  /\ cursor' = 0
  /\ flagged' = <<>> /\ visited' = {} /\ before' = <<>>

\* The matched line is gone: on to the next.
GlobalSkip ==
  /\ running /\ next <= Len(gMarks)
  /\ ~Visitable
  /\ next' = next + 1
  /\ UNCHANGED <<log, marks, cursor, lastStepRedo, dotUndo, gMarks, gLastEdit,
                 body, fresh, flagged, visited, before, was, is, phase, trust>>

\* The body runs on the matched line; its first error ends the command.
GlobalVisit ==
  /\ running /\ next <= Len(gMarks)
  /\ Visitable
  /\ \E stop \in Stops(body, target) :
       LET e == Executed(body, cursor, target, stop) IN
       /\ Edited(e)
       /\ IF e.ok
            THEN /\ cursor' = e.cursor
                 /\ cur' = e.recs
                 /\ gMarks' = e.gMarks
                 /\ gLastEdit' = e.gLastEdit
                 /\ next' = next + 1
                 /\ lastStepRedo' = TRUE /\ dotUndo' = FALSE
                 /\ visited' = visited \cup {Get(store, target).id}
                 /\ UNCHANGED <<open, undo, redo, body, flagged, before,
                                was, is, phase>>
            ELSE GlobalLeave(e.recs, e.lines)

\* An interrupt noted before a match: what was done stays.
GlobalInterrupted ==
  /\ running /\ next <= Len(gMarks)
  /\ GlobalLeave(cur, store)
  /\ UNCHANGED <<store, gen, marks, fresh, trust>>

\* Faulty variant: the loop ends in front of its last match.
GlobalEndEarly ==
  /\ running /\ next >= Len(gMarks)
  /\ GlobalLeave(cur, store)
  /\ UNCHANGED <<store, gen, marks, fresh, trust>>

\* The user finds the cursor on the last insertion or deletion.
GlobalEnd ==
  /\ running /\ next > Len(gMarks)
  /\ GlobalLeave(cur, store)
  /\ UNCHANGED <<store, gen, marks, fresh, trust>>

-----------------------------------------------------------------------------
(***************************************************************************)
(* u, and . after it.  The marks stay as they are.                          *)
(***************************************************************************)

\* The records of an edit astray are walked like the others, from now on.
Walked == trust' = IF Astray THEN "torn" ELSE "whole"

\* u turns round: it redoes what the u before it has undone.
ExUndo ==
  /\ ~running
  /\ IF lastStepRedo THEN Undo ELSE Redo
  /\ lastStepRedo' = ~lastStepRedo
  /\ dotUndo' = TRUE
  /\ phase' = CASE phase = "done" -> "undone"
                [] phase = "undone" -> "done"
                [] OTHER -> "none"
  /\ Walked
  /\ UNCHANGED <<marks, cursor, loop, fresh, was, is>>

\* . goes on in the direction of the last u.
DotUndo ==
  /\ ~running
  /\ dotUndo
  /\ IF lastStepRedo THEN Redo ELSE Undo
  /\ phase' = "none"
  /\ Walked
  /\ UNCHANGED <<marks, cursor, lastStepRedo, dotUndo, loop, fresh, was, is>>

GNext ==
  \/ \E c \in Command, lno \in 0..(LineCount(store) + Over) : Execute(c, lno)
  \/ \E lno \in 1..(LineCount(store) + Over), m \in Mark : ExMark(lno, m)
  \/ \E c \in Bodies, l1, l2 \in 1..LineCount(store), invert \in BOOLEAN :
       l1 <= l2 /\ GlobalStart(c, l1, l2, invert)
  \/ GlobalSkip
  \/ GlobalVisit
  \/ GlobalInterrupted
  \/ GlobalEnd
  \/ ExUndo
  \/ DotUndo

GSpec == GInit /\ [][GNext]_gvars

-----------------------------------------------------------------------------
(***************************************************************************)
(* Properties.  The identity of a line tells whether it is the same one.  A  *)
(* move deletes its lines and inserts copies of them (excmds.go, exMove), so *)
(* a line moved is gone and another one is there: what matched, and what was *)
(* marked, does not move with :m, and nothing here says that it does.        *)
(***************************************************************************)

\* A :global begun in an empty buffer matches a line that is not there.
Phantom == running /\ before = <<>>

\* While :global runs, the number of each match is the number of the line that
\* was matched, wherever the body's insertions and deletions have shifted it,
\* and none once it is deleted (screen.go: "so a body command that adds or
\* moves lines cannot mistrack later matches"); destinations behind the buffer
\* included, unless an undo has walked the record of one before.
MatchTracked ==
  Torn \/ Phantom \/ \A i \in DOMAIN gMarks :
     gMarks[i] = IF flagged[i] \in Ids(store) THEN LineOf(store, flagged[i]) ELSE Gone

\* :global runs its command on no line that did not match, and misses no
\* match that is still there when its loop ends (exsearch.go, global).
NoneMissed ==
  [][GlobalEnd /\ ~Torn /\ ~Phantom =>
       /\ \A i \in DOMAIN flagged :
            flagged[i] \in visited \/ flagged[i] \notin Ids(store)
       /\ visited \subseteq {flagged[i] : i \in DOMAIN flagged}]_gvars

\* Whatever the last command was, a whole :global included, one u puts back
\* the buffer it found and the next u the buffer it left (vi.go,
\* doUndoCommand: "'uuu' alternates undo/redo"; exsearch.go: "nvi undoes an
\* entire :g with a single u"), as long as no command has inserted or deleted
\* at a number that is none of the buffer's.
OneUndo ==
  [][ExUndo /\ ~Astray => /\ phase = "done" => store' = was
                          /\ phase = "undone" => store' = is]_gvars

\* The mark stands where the line it stood on now is, or nowhere if that line
\* is gone.
StaysOn(m) ==
  marks[m] \in DOMAIN store =>
    LET id == store[marks[m]].id
    IN  marks'[m] = IF id \in Ids(store') THEN LineOf(store', id) ELSE Gone

\* No edit takes a mark off its line (mark.go: "a mark on a deleted line becomes
\* invalid, and marks below an edit shift to follow their line").  Undo and
\* redo do: they leave the marks where they are.
MarksFollow ==
  [][\/ Torn
     \/ \A m \in Mark : StaysOn(m)
     \/ \E lno \in 1..(LineCount(store) + Over), m \in Mark : ExMark(lno, m)
     \/ ExUndo
     \/ DotUndo]_gvars
=============================================================================
