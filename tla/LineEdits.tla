------------------------------ MODULE LineEdits ------------------------------
(***************************************************************************)
(* The line-edit primitives of a screen (engine/screen.go) and the ex       *)
(* commands that are built from them (engine/excmds.go, exsearch.go).       *)
(* A command is an operator from the state it finds to the state it leaves: *)
(*   lines, recs     the buffer, and the records the undo log has gained    *)
(*   marks           mark -> line number, Gone when it does not resolve     *)
(*   gMarks          the lines a running :g still has to visit; <<>> = nil  *)
(*   gLastEdit       where the last insertion or deletion was               *)
(*   cursor          line of the cursor                                     *)
(*   fresh           the identity of the next line created                  *)
(*   ok, ended       did it report no error; did it reach an endChange      *)
(*   astray          has a line been inserted or deleted at a number that is *)
(*                   none of the buffer's, which the undo log does not follow *)
(* A line is an identity and a text.  The code has no identities: they tell *)
(* which line a number means, and no operator decides anything by them.     *)
(***************************************************************************)
EXTENDS LineStore

CONSTANT
  Matching    \* the texts the pattern of :g and :s matches

Gone == -1

\* The phantom line of an empty buffer counts as a line (screen.lineCount).
LineCount(lines) == IF lines = <<>> THEN 1 ELSE Len(lines)

ClampLine(lines, lno) ==
  IF lno < 1 THEN 1 ELSE IF lno > LineCount(lines) THEN LineCount(lines) ELSE lno

Matches(line) == line.text \in Matching

-----------------------------------------------------------------------------
(***************************************************************************)
(* The primitives.                                                          *)
(***************************************************************************)

\* Faulty variant: the shift forgets the line at the insertion point.
ShiftedDownBehind(lno, at) == IF lno > at THEN lno + 1 ELSE lno

\* Line number lno after an insertion in front of line at.
ShiftedDown(lno, at) == IF lno >= at THEN lno + 1 ELSE lno

\* Line number lno after line at has been deleted.
ShiftedUp(lno, at) ==
  IF lno = at THEN Gone ELSE IF lno > at THEN lno - 1 ELSE lno

Logged(e, kind, lno, before, after) ==
  Append(e.recs, [kind |-> kind, lno |-> lno, before |-> before, after |-> after])

\* log.Insert alone, as setLine does it: neither marks nor gMarks move.
LogInsert(e, lno, line) ==
  [e EXCEPT !.lines = InsertLine(@, lno, line),
            !.recs = Logged(e, "insert", lno, Empty, line)]

\* Faulty variant: the line it records as replaced is already the new one.
setLineStale(e, lno, line) ==
  [e EXCEPT !.lines = SetLine(@, lno, line),
            !.recs = Logged(e, "set", lno, line, line)]

\* In an empty buffer the line is a new one.
setLine(e, lno, line) ==
  IF e.lines = <<>>
  THEN [LogInsert(e, 1, [line EXCEPT !.id = e.fresh]) EXCEPT !.fresh = @ + 1]
  ELSE [e EXCEPT !.lines = SetLine(@, lno, line),
                 !.recs = Logged(e, "set", lno, Get(e.lines, lno),
                                 IF InRange(e.lines, lno) THEN line ELSE Empty)]

\* Faulty variant: only the marks are told of an insertion.
insertLineMarksOnly(e, lno, line) ==
  [LogInsert(e, lno, line) EXCEPT
     !.marks = [m \in DOMAIN @ |-> ShiftedDown(@[m], lno)],
     !.gLastEdit = IF e.gMarks = <<>> THEN @ ELSE lno,
     !.astray = IF lno \in 1..(Len(e.lines) + 1) THEN @ ELSE TRUE]

insertLine(e, lno, line) ==
  [LogInsert(e, lno, line) EXCEPT
     !.marks = [m \in DOMAIN @ |-> ShiftedDown(@[m], lno)],
     !.gMarks = [i \in DOMAIN @ |-> ShiftedDown(@[i], lno)],
     !.gLastEdit = IF e.gMarks = <<>> THEN @ ELSE lno,
     !.astray = IF lno \in 1..(Len(e.lines) + 1) THEN @ ELSE TRUE]

appendLine(e, lno, line) == insertLine(e, lno + 1, line)

deleteLine(e, lno) ==
  [e EXCEPT
     !.lines = DeleteLine(@, lno),
     !.recs = Logged(e, "delete", lno, Get(e.lines, lno), Empty),
     !.marks = [m \in DOMAIN @ |-> ShiftedUp(@[m], lno)],
     !.gMarks = [i \in DOMAIN @ |-> ShiftedUp(@[i], lno)],
     !.gLastEdit = IF e.gMarks = <<>> THEN @ ELSE lno,
     !.astray = IF InRange(e.lines, lno) THEN @ ELSE TRUE]

\* A loop of n rounds; d[i] is the state after the first i of them.
Rounds(e, n, Round(_, _)) ==
  LET d[i \in 0..n] == IF i = 0 THEN e ELSE Round(d[i - 1], i)
  IN  d

\* The last line first.
deleteLines(e, l1, l2) ==
  LET n == l2 - l1 + 1
  IN  Rounds(e, n, LAMBDA d, i : deleteLine(d, l2 - i + 1))[n]

\* A line with a text, created behind line at.
AppendText(e, at, text) ==
  [appendLine(e, at, [id |-> e.fresh, text |-> text]) EXCEPT !.fresh = @ + 1]

\* Lines with the texts given, created behind line at.
AppendTexts(e, at, texts) ==
  Rounds(e, Len(texts), LAMBDA d, i : AppendText(d, at + i - 1, texts[i]))[Len(texts)]

Texts(e, l1, l2) == [i \in 1..(l2 - l1 + 1) |-> Get(e.lines, l1 + i - 1).text]

-----------------------------------------------------------------------------
(***************************************************************************)
(* The commands, on the lines l1 to l2.                                     *)
(***************************************************************************)

Failed(e) == [e EXCEPT !.ok = FALSE]
Ended(e, lno) == [e EXCEPT !.ended = TRUE, !.cursor = ClampLine(e.lines, lno)]

InvalidAddress(e, l1, l2) == l1 < 1 \/ l2 > LineCount(e.lines) \/ l1 > l2

\* A destination: 0, $, the line of the cursor, or that of a mark.
resolveAddrArg(e, dest) ==
  CASE dest = "0" -> 0
    [] dest = "$" -> LineCount(e.lines)
    [] dest = "." -> e.cursor
    [] OTHER -> e.marks[dest]

NoDestination(e, dest) == dest \in DOMAIN e.marks /\ e.marks[dest] = Gone

exDelete(e, l1, l2) == Ended(deleteLines(e, l1, l2), l1)

exCopy(e, l1, l2, dest) ==
  LET at == resolveAddrArg(e, dest)
  IN  IF NoDestination(e, dest) THEN Failed(e)
      ELSE Ended(AppendTexts(e, at, Texts(e, l1, l2)), at + l2 - l1 + 1)

\* The copy is appended first; the source has moved down when it lies behind.
exMove(e, l1, l2, dest) ==
  LET at == resolveAddrArg(e, dest)
      n == l2 - l1 + 1
      moved == IF at < l1 THEN n ELSE 0
  IN  IF NoDestination(e, dest) \/ at \in l1..l2 THEN Failed(e)
      ELSE Ended(deleteLines(AppendTexts(e, at, Texts(e, l1, l2)),
                             l1 + moved, l2 + moved), at + moved)

\* Two lines joined match if one of them does.
Joined(a, b) == IF a \in Matching THEN a ELSE b

JoinNext(d, lno) ==
  deleteLine(setLine(d, lno, [Get(d.lines, lno) EXCEPT
               !.text = Joined(@, Get(d.lines, lno + 1).text)]), lno + 1)

\* One line alone is joined with the next; l1 is joined with its successor
\* once for each line behind it.
exJoin(e, l1, l2) ==
  LET last == IF l1 = l2 THEN l1 + 1 ELSE l2
      n == last - l1
  IN  IF last > LineCount(e.lines) THEN Failed(e)
      ELSE Ended(Rounds(e, n, LAMBDA d, i : JoinNext(d, l1))[n], l1)

Substituted(d, lno, two) ==
  LET new == setLine(d, lno, [Get(d.lines, lno) EXCEPT !.text = Empty.text])
  IN  IF ~Matches(Get(d.lines, lno)) THEN d
      ELSE [IF two THEN AppendText(new, lno, Empty.text) ELSE new EXCEPT !.cursor = lno]

\* :s with a replacement of one line, or of two (a newline in it).  Lines the
\* replacement adds are not scanned again.  The command polls for an interrupt
\* before each line, and keeps what it has done when it stops.
exSubstitute(e, l1, l2, two, stop) ==
  LET n == stop - l1
      done == Rounds(e, n, LAMBDA d, i :
                Substituted(d, l1 + i - 1 + Len(d.lines) - Len(e.lines), two))[n]
      any == done.recs # e.recs
  IN  IF stop <= l2 \/ ~any
        THEN [done EXCEPT !.ended = TRUE, !.ok = FALSE, !.cursor = e.cursor]
        ELSE Ended(done, done.cursor)

\* :put and :read of one line, behind line l1 (or in front of all lines).
exPut(e, l1) == Ended(AppendText(e, l1, Empty.text), l1 + 1)

exMark(e, l1, m) == [e EXCEPT !.marks[m] = l1]
=============================================================================
