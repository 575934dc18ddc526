------------------------------ MODULE ViEdits ------------------------------
(***************************************************************************)
(* What the editing commands of vi do to the text (engine/viedit.go), the   *)
(* undo log (engine/undo), the marks and the registers (engine/register).   *)
(* An operator takes the editor it finds to the editor it leaves.  The      *)
(* fields of an editor s that are used here:                                *)
(*   lines, cursor          the text and the cursor in it                   *)
(*   open, recs, from       the open change set: depth of Begin/End, its    *)
(*                          records, and the cursor it began at             *)
(*   undo, redo             change sets [recs, before, after], the next one *)
(*                          last                                            *)
(*   marks                  mark -> position                                *)
(*   unnamed, named, numbered   the registers; a text is [kind, lines]      *)
(*   changed                has the command being typed changed the buffer? *)
(*   lastStepRedo, dotUndo  the direction of u, and whether . repeats it    *)
(*   astray                 for the properties: has a line been inserted,   *)
(*                          set or deleted where the buffer has none?       *)
(***************************************************************************)
EXTENDS Motions

CONSTANTS
  ShiftWidth,   \* the shiftwidth option
  AutoIndent,   \* the autoindent option
  Ring          \* how many numbered registers there are (nine)

ASSUME ViAssumption ==
  TabStop \in Nat \ {0} /\ ShiftWidth \in Nat \ {0} /\ AutoIndent \in BOOLEAN /\ Ring \in Nat \ {0}

Log == INSTANCE UndoLog
         WITH Line <- Seq(STRING), Empty <- <<>>, Start <- {}, Over <- 0,
              store <- <<>>, open <- 0, cur <- <<>>, undo <- <<>>, redo <- <<>>, gen <- 0

(***************************************************************************)
(* Line primitives (screen.setLine, insertLine, appendLine, deleteLine).    *)
(***************************************************************************)
Logged(s, kind, lno, before, after) ==
  Append(s.recs, [kind |-> kind, lno |-> lno, before |-> before, after |-> after])

Strays(s, to) == [s EXCEPT !.astray = @ \/ to]

logInsert(s, lno, line) ==
  [Strays(s, lno \notin 1..(Len(s.lines) + 1))
     EXCEPT !.lines = Log!InsertLine(@, lno, line),
            !.recs = Logged(s, "insert", lno, <<>>, line)]

setLine(s, lno, line) ==
  IF s.lines = <<>> THEN logInsert(s, 1, line)
  ELSE [Strays(s, ~Log!InRange(s.lines, lno))
          EXCEPT !.lines = Log!SetLine(@, lno, line),
                 !.recs = Logged(s, "set", lno, Log!Get(s.lines, lno),
                                 IF Log!InRange(s.lines, lno) THEN line ELSE <<>>)]

insertLine(s, lno, line) ==
  [logInsert(s, lno, line) EXCEPT
     !.marks = [m \in DOMAIN @ |-> IF @[m].line >= lno THEN [@[m] EXCEPT !.line = @ + 1] ELSE @[m]]]

appendLine(s, lno, line) == insertLine(s, lno + 1, line)

\* The marks on the line are gone.
deleteLine(s, lno) ==
  [Strays(s, ~Log!InRange(s.lines, lno)) EXCEPT
     !.lines = Log!DeleteLine(@, lno),
     !.recs = Logged(s, "delete", lno, Log!Get(s.lines, lno), <<>>),
     !.marks = [m \in {k \in DOMAIN @ : @[k].line # lno} |->
                  IF @[m].line > lno THEN [@[m] EXCEPT !.line = @ - 1] ELSE @[m]]]

deleteLines(s, l1, l2) ==
  FoldRight(LAMBDA lno, e : deleteLine(e, lno), [i \in 1..(l2 - l1 + 1) |-> l1 + i - 1], s)

AppendLines(s, at, lines) ==
  FoldLeft(LAMBDA e, i : appendLine(e, at + i - 1, lines[i]), s, [i \in DOMAIN lines |-> i])

SetCol(s, col) == [s EXCEPT !.cursor.col = col]
MoveTo(s, line, col) == [s EXCEPT !.cursor = Pos(line, col)]
InMode(s) == [s EXCEPT !.cursor = clampCursor(s.lines, @, s.inserting)]

(***************************************************************************)
(* Change sets (beginChange, endChange, Log.Begin, End, Undo, Redo).        *)
(***************************************************************************)
beginChange(s) ==
  [s EXCEPT !.open = @ + 1,
            !.recs = IF s.open = 0 THEN <<>> ELSE @,
            !.from = IF s.open = 0 THEN s.cursor ELSE @]

endChange(s) ==
  LET commits == s.open = 1 /\ s.recs # <<>>
  IN  [s EXCEPT !.open = @ - 1,
                !.recs = IF s.open = 1 THEN <<>> ELSE @,
                !.undo = IF commits THEN Append(@, [recs |-> s.recs, before |-> s.from,
                                                    after |-> s.cursor]) ELSE @,
                !.redo = IF commits THEN <<>> ELSE @,
                !.lastStepRedo = TRUE, !.dotUndo = FALSE]

Changed(s) == [s EXCEPT !.changed = TRUE]

logUndo(s) ==
  [s EXCEPT !.lines = Log!RevertAll(@, Last(s.undo).recs),
            !.undo = Front(@), !.redo = Append(@, Last(s.undo)),
            !.cursor = Last(s.undo).before]
logRedo(s) ==
  [s EXCEPT !.lines = Log!ReplayAll(@, Last(s.redo).recs),
            !.redo = Front(@), !.undo = Append(@, Last(s.redo)),
            !.cursor = Last(s.redo).after]

\* u toggles the direction and steps, . steps on in the direction.
doUndoCommand(s, fromDot) ==
  LET toRedo == IF fromDot THEN s.lastStepRedo ELSE ~s.lastStepRedo
      stepped == IF toRedo THEN logRedo(s) ELSE logUndo(s)
  IN  IF (IF toRedo THEN s.redo ELSE s.undo) = <<>> THEN s
      ELSE InMode([stepped EXCEPT !.lastStepRedo = toRedo, !.dotUndo = TRUE])

\* U takes back the change sets that are confined to the current line.
RECURSIVE UndoLineRun(_, _)
UndoLineRun(s, line) ==
  IF s.undo # <<>> /\ \A i \in DOMAIN Last(s.undo).recs : Last(s.undo).recs[i].lno = line
  THEN UndoLineRun(logUndo(s), line) ELSE s

restoreLine(s) ==
  LET e == UndoLineRun(s, s.cursor.line)
  IN  IF e.undo = s.undo THEN s
      ELSE InMode([e EXCEPT !.lastStepRedo = FALSE, !.dotUndo = TRUE])

(***************************************************************************)
(* Registers.                                                               *)
(***************************************************************************)
NoText == [kind |-> "chars", lines |-> <<>>]
Lower == [A |-> "a", B |-> "b"]        \* the names whose capital appends
Digits == <<"1", "2", "3", "4", "5", "6", "7", "8", "9">>
DigitOf(name) == CHOOSE i \in DOMAIN Digits : Digits[i] = name
IsDigit(k) == \E i \in DOMAIN Digits : Digits[i] = k

regGet(s, name) ==
  IF name \in {"", "\""} THEN s.unnamed
  ELSE IF name \in DOMAIN s.named THEN s.named[name]
  ELSE IF name \in DOMAIN Lower /\ Lower[name] \in DOMAIN s.named THEN s.named[Lower[name]]
  ELSE IF IsDigit(name) /\ DigitOf(name) <= Len(s.numbered) THEN s.numbered[DigitOf(name)]
  ELSE NoText

appendText(a, b) ==
  IF a.lines = <<>> THEN b ELSE IF b.lines = <<>> THEN a
  ELSE IF a.kind = "chars" /\ b.kind = "chars"
  THEN [a EXCEPT !.lines = Front(@) \o <<Last(@) \o b.lines[1]>> \o Tail(b.lines)]
  ELSE [kind |-> "lines", lines |-> a.lines \o b.lines]

\* Names other than letters store nothing.
storeNamed(s, name, t) ==
  IF name \in DOMAIN s.named THEN [s EXCEPT !.named[name] = t]
  ELSE IF name \in DOMAIN Lower /\ Lower[name] \in DOMAIN s.named
  THEN [s EXCEPT !.named[Lower[name]] = appendText(@, t)]
  ELSE s

storeYank(s, name, t) == storeNamed([s EXCEPT !.unnamed = t], name, t)

\* An unnamed delete of whole lines moves the ring of numbered registers on.
storeDelete(s, name, t) ==
  LET e == [s EXCEPT !.unnamed = t]
  IN  IF name # "" THEN storeNamed(e, name, t)
      ELSE IF t.kind # "lines" THEN e
      ELSE [e EXCEPT !.numbered = SubSeq(<<t>> \o @, 1, Min({Ring, Len(@) + 1}))]

(***************************************************************************)
(* Entering insert and replace mode (viinsert.go).                          *)
(***************************************************************************)
effCount(c) == IF c = 0 THEN 1 ELSE c

startInsert(s, pos, replace, cmd) ==
  LET at == clampCursor(s.lines, pos, TRUE)
  IN  [s EXCEPT !.inserting = TRUE, !.replaceMode = replace, !.cursor = at,
                !.insertText = <<>>, !.overtyped = <<>>, !.insertCmd = cmd,
                !.insertCount = effCount(s.count), !.count = 0, !.insertEnter = at,
                !.aiCount = 0, !.aiCarat = "", !.aiRestore = <<>>]

enterInsert(s, pos, replace, cmd) == startInsert(beginChange(s), pos, replace, cmd)

(***************************************************************************)
(* Spans of characters [p1, p2) and of lines.                               *)
(***************************************************************************)
Upto(r, col) == SubSeq(r, 1, Min({col, Len(r)}))
From(r, col) == SubSeq(r, Min({col, Len(r)}) + 1, Len(r))
Between(r, a, b) == From(Upto(r, Max({a, b})), Min({a, b}))
leadingWhitespace(r) ==
  LET text == {i \in DOMAIN r : r[i] \notin Blanks}
  IN  IF text = {} THEN r ELSE Upto(r, Min(text) - 1)
LineSpan(s, l1, l2) == [i \in 1..(l2 - l1 + 1) |-> lineRunes(s.lines, l1 + i - 1)]

collectLines(s, l1, l2) == [kind |-> "lines", lines |-> LineSpan(s, l1, l2)]

collectChars(s, p1, p2) ==
  [kind |-> "chars",
   lines |-> IF p1.line = p2.line THEN <<Between(lineRunes(s.lines, p1.line), p1.col, p2.col)>>
             ELSE <<From(lineRunes(s.lines, p1.line), p1.col)>>
                  \o LineSpan(s, p1.line + 1, p2.line - 1)
                  \o <<Upto(lineRunes(s.lines, p2.line), p2.col)>>]

\* Faulty variant: the last line of the span stays behind.
deleteCharsButLast(s, p1, p2) ==
  LET r == lineRunes(s.lines, p1.line)
  IN  IF p1.line = p2.line
      THEN setLine(s, p1.line, Upto(r, Min({p1.col, p2.col})) \o From(r, Max({p1.col, p2.col})))
      ELSE deleteLines(setLine(s, p1.line, Upto(r, p1.col) \o From(lineRunes(s.lines, p2.line), p2.col)),
                       p1.line + 1, p2.line - 1)

deleteChars(s, p1, p2) ==
  LET r == lineRunes(s.lines, p1.line)
  IN  IF p1.line = p2.line
      THEN setLine(s, p1.line, Upto(r, Min({p1.col, p2.col})) \o From(r, Max({p1.col, p2.col})))
      ELSE deleteLines(setLine(s, p1.line, Upto(r, p1.col) \o From(lineRunes(s.lines, p2.line), p2.col)),
                       p1.line + 1, p2.line)

toggleCaseRune(r) == CASE r = "a" -> "A" [] r = "A" -> "a" [] OTHER -> r
ToggledFrom(r, lo, hi) ==
  [i \in DOMAIN r |-> IF i > lo /\ i <= hi THEN toggleCaseRune(r[i]) ELSE r[i]]

\* ~ over the span, line by line.
ToggleSpan(s, p1, p2) ==
  FoldLeft(LAMBDA e, l :
             setLine(e, l, LET r == lineRunes(e.lines, l)
                           IN  ToggledFrom(r, IF l = p1.line THEN p1.col ELSE 0,
                                              IF l = p2.line THEN p2.col ELSE Len(r))),
           s, [i \in 1..(p2.line - p1.line + 1) |-> p1.line + i - 1])

(***************************************************************************)
(* Operators over a motion (operate, operateLines, operateChars).           *)
(***************************************************************************)
operateLines(s, op, reg, l1, l2, doubled) ==
  LET t == collectLines(s, l1, l2)
      gone == deleteLines(storeDelete(beginChange(s), reg, t), l1, l2)
      landing == clampLine(gone.lines, l1)
      indent == IF AutoIndent THEN leadingWhitespace(lineRunes(s.lines, l1)) ELSE <<>>
      opened == insertLine(gone, l1, <<>>)
      indented == IF indent = <<>> THEN opened ELSE setLine(opened, l1, indent)
      toggled == endChange(ToggleSpan(beginChange(s), Pos(l1, 0), Pos(l2, lineLen(s.lines, l2))))
  IN  CASE op = "y" ->
             MoveTo(storeYank(s, reg, t), l1, firstNonBlank(s.lines, l1))
        [] op = "d" ->
             MoveTo(Changed(endChange(gone)), landing,
                    IF doubled THEN firstNonBlank(gone.lines, landing) ELSE 0)
        [] op = "c" ->
             [startInsert(indented, Pos(l1, Len(indent)), FALSE, "c")
                EXCEPT !.aiCount = Len(indent)]
        [] op = "~" ->
             MoveTo(Changed(toggled), l1, firstNonBlank(toggled.lines, l1))

operateChars(s, op, reg, p1, p2) ==
  LET t == collectChars(s, p1, p2)
      gone == deleteChars(storeDelete(beginChange(s), reg, t), p1, p2)
      At(e) == InMode([e EXCEPT !.cursor = p1])
  IN  CASE op = "y" -> At(storeYank(s, reg, t))
        [] op = "d" -> At(Changed(endChange(gone)))
        [] op = "c" -> startInsert(gone, p1, FALSE, "c")
        [] op = "~" -> At(Changed(endChange(ToggleSpan(beginChange(s), p1, p2))))

makeIndent(width) ==
  [i \in 1..(width \div TabStop) |-> "\t"] \o [i \in 1..(width % TabStop) |-> " "]
IndentWidth(r) == DisplayCol(r, Len(leadingWhitespace(r)))

\* Blank lines are left as they are.
shiftLines(s, l1, l2, dir) ==
  LET Shift(e, l) ==
        LET r == lineRunes(e.lines, l)
            lead == leadingWhitespace(r)
        IN  IF lead = r THEN e
            ELSE setLine(e, l, makeIndent(Max({0, IndentWidth(r) + dir * ShiftWidth}))
                               \o From(r, Len(lead)))
  IN  endChange(FoldLeft(Shift, beginChange(s), [i \in 1..(l2 - l1 + 1) |-> l1 + i - 1]))

\* < and > : the cursor stays on its character if the span starts on its line.
operateShift(s, dir, l1, l2) ==
  LET e == shiftLines(s, l1, l2, dir)
      Lead(t) == Len(leadingWhitespace(lineRunes(t, l1)))
      col == Max({0, s.cursor.col + Lead(e.lines) - Lead(s.lines)})
      most == lineLen(e.lines, l1) - 1
  IN  MoveTo(Changed(e), l1,
        IF s.cursor.line # l1 THEN firstNonBlank(e.lines, l1)
        ELSE IF most >= 0 /\ col > most THEN most ELSE col)

\* A span that ends in column 0 is pulled back to the line before; a sentence,
\* paragraph or section then is whole lines if it starts in the indent.
operate(s, op, reg, mot) ==
  LET p1 == IF Before(mot.to, s.cursor) THEN mot.to ELSE s.cursor
      p2 == IF Before(mot.to, s.cursor) THEN s.cursor ELSE mot.to
      whole == mot.linewise \/ (mot.promote /\ mot.endFlag /\ s.cursor.col = 0)
      pulled == ~whole /\ ~mot.inclusive /\ p2.col = 0 /\ p2.line # p1.line
      indented == mot.promote /\ p1.col <= firstNonBlank(s.lines, p1.line)
      l1 == clampLine(s.lines, p1.line)
      l2 == clampLine(s.lines, p2.line)
      before == Pos(p2.line - 1, lineLen(s.lines, p2.line - 1))
      end == IF pulled THEN before ELSE IF mot.inclusive THEN [p2 EXCEPT !.col = @ + 1] ELSE p2
  IN  IF op \in {"<", ">"} THEN operateShift(s, IF op = ">" THEN 1 ELSE -1, l1, l2)
      ELSE IF whole \/ (pulled /\ indented)
      THEN operateLines(s, op, reg, l1, IF whole THEN l2 ELSE before.line, mot.doubled)
      ELSE operateChars(s, op, reg, p1, end)

(***************************************************************************)
(* p and P.                                                                 *)
(***************************************************************************)
putLines(s, after, t) ==
  LET first == IF after THEN s.cursor.line + 1 ELSE s.cursor.line
      e == AppendLines(s, first - 1, t.lines)
  IN  MoveTo(e, first, firstNonBlank(e.lines, clampLine(e.lines, first)))

PutCol(s, after) ==
  LET len == lineLen(s.lines, s.cursor.line)
  IN  Min({len, IF after /\ len > 0 THEN s.cursor.col + 1 ELSE s.cursor.col})

\* The cursor is left on the last character put.
putChars(s, after, t) ==
  LET r == lineRunes(s.lines, s.cursor.line)
      col == PutCol(s, after)
      n == Len(t.lines)
      first == setLine(s, s.cursor.line, Upto(r, col) \o t.lines[1])
      e == AppendLines(first, s.cursor.line,
                       SubSeq(t.lines, 2, n - 1) \o <<Last(t.lines) \o From(r, col)>>)
  IN  IF n = 1
      THEN SetCol(setLine(s, s.cursor.line, Upto(r, col) \o t.lines[1] \o From(r, col)),
                  Max({col, col + Len(t.lines[1]) - 1}))
      ELSE MoveTo(e, s.cursor.line + n - 1, Len(Last(t.lines)))

\* Faulty variant: each repetition of a counted put is a change of its own.
PutTimesApart(s, after, t, count) ==
  FoldLeft(LAMBDA e, i :
             IF t.kind = "lines" THEN beginChange(endChange(putLines(e, after \/ i > 1, t)))
             ELSE beginChange(endChange(putChars(e, after, t))),
           s, [i \in 1..count |-> i])

\* Lines put again go behind the first of those put before.
PutTimes(s, after, t, count) ==
  FoldLeft(LAMBDA e, i :
             IF t.kind = "lines" THEN putLines(e, after \/ i > 1, t)
             ELSE putChars(e, after, t),
           s, [i \in 1..count |-> i])

\* After characters were put the cursor is on the first of them.
put(s, after) ==
  LET name == s.reg
      t == regGet(s, name)
      taken == [s EXCEPT !.reg = "", !.putReg = name]
      done == PutTimes(beginChange([taken EXCEPT !.count = 0]), after, t, effCount(s.count))
  IN  IF t.lines = <<>> THEN taken
      ELSE Changed(endChange(IF t.kind = "lines" THEN done
                             ELSE MoveTo(done, s.cursor.line, PutCol(s, after))))

(***************************************************************************)
(* r, J, ~, o and O.                                                        *)
(***************************************************************************)
replaceChar(s, c) ==
  LET e == beginChange([s EXCEPT !.count = 0])
      r == lineRunes(s.lines, s.cursor.line)
      col == s.cursor.col
      count == effCount(s.count)
      split == insertLine(setLine(e, s.cursor.line, Upto(r, col)),
                          s.cursor.line + 1, From(r, col + count))
      written == setLine(e, s.cursor.line,
                         Upto(r, col) \o [i \in 1..count |-> c] \o From(r, col + count))
  IN  IF col + count > Len(r) THEN [s EXCEPT !.count = 0]
      ELSE Changed(InMode(endChange(
             IF c \in {"CR", "NL"} THEN MoveTo(split, s.cursor.line + 1, 0)
             ELSE SetCol(written, col + count - 1))))

Separator(a, b) ==
  IF a = <<>> \/ Last(a) \in Blanks \/ (b # <<>> /\ b[1] = ")") THEN <<>>
  ELSE IF Last(a) \in {".", "?", "!"} THEN <<" ", " ">> ELSE <<" ">>

joinLines(s) ==
  LET JoinOne(e, k) ==
        LET l == e.cursor.line
            a == lineRunes(e.lines, l)
            next == lineRunes(e.lines, l + 1)
            b == From(next, Len(leadingWhitespace(next)))
            sep == Separator(a, b)
        IN  IF l >= Len(e.lines) THEN e
            ELSE SetCol(deleteLine(setLine(e, l, a \o sep \o b), l + 1),
                        Max({0, Len(a) + Len(sep) - 1}))
  IN  Changed(InMode(endChange(
        FoldLeft(JoinOne, beginChange([s EXCEPT !.count = 0]),
                 [k \in 1..Max({1, s.count - 1}) |-> k]))))

toggleCase(s) ==
  LET e == beginChange([s EXCEPT !.count = 0])
      r == lineRunes(s.lines, s.cursor.line)
      to == Min({Len(r), s.cursor.col + effCount(s.count)})
  IN  IF r = <<>> THEN [s EXCEPT !.count = 0]
      ELSE Changed(InMode(endChange(
             SetCol(setLine(e, s.cursor.line, ToggledFrom(r, s.cursor.col, to)), to))))

openLine(s, below) ==
  LET e == beginChange(s)
      indent == IF AutoIndent /\ s.lines # <<>>
                THEN leadingWhitespace(lineRunes(s.lines, s.cursor.line)) ELSE <<>>
      at == IF s.lines = <<>> THEN 1 ELSE IF below THEN s.cursor.line + 1 ELSE s.cursor.line
      opened == IF s.lines = <<>> THEN logInsert(e, 1, indent) ELSE insertLine(e, at, indent)
  IN  [startInsert(opened, Pos(at, Len(indent)), FALSE, IF below THEN "o" ELSE "O")
         EXCEPT !.aiCount = Len(indent)]
=============================================================================
