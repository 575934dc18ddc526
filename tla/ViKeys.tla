------------------------------- MODULE ViKeys -------------------------------
(***************************************************************************)
(* The keys of vi (engine/vi.go): counts, registers, operators and motions   *)
(* are gathered key by key into commands, text is typed, and . repeats the   *)
(* last command that changed the buffer by pressing its keys again.          *)
(* The state is one editor record (ViEdits, ViInsert), here with             *)
(*   count, reg, awaitReg, op, opCount, opReg, pending   the command so far  *)
(*   findCmd, findChar, preserveCol, setEOL, desiredCol, desiredEOL          *)
(*   rec        the keys of the command being typed                          *)
(*   dot        the keys . presses; replaying: . is pressing them            *)
(*   putReg, dotPutReg   the numbered register just put, and the one . put   *)
(*   endless    . has been reached while . pressed its own keys              *)
(* and, for the properties,                                                  *)
(*   carried, dotCarried   has a command in rec, or in dot, left its count    *)
(*              or its register to the next command?                          *)
(* Not here: the keys that lead to the colon line (: / ? n N ! Q &), to      *)
(* other screens and files, the scrolling keys (Viewport), # and @.          *)
(***************************************************************************)
EXTENDS ViInsert, TLC

CONSTANTS
  Texts,          \* the texts a session starts with
  TildeOp,        \* the tildeop option: ~ is an operator
  Keyboards,      \* the keys a user presses, for each Situation
  NamedRegisters, \* the named registers in use
  Kept            \* the text in the registers at the start, as after :e

VARIABLES
  vi,      \* the editor
  keys,    \* the keyboard of the session
  pressed, \* how many keys have been pressed
  history  \* what the log holds: the text before the open change, the texts
           \* before each change that can be undone, behind each undone

vars == <<vi, keys, pressed, history>>

newEditor(t) ==
  [lines |-> t, cursor |-> FirstPlace, desiredCol |-> 0, desiredEOL |-> FALSE,
   marks |-> [m \in {} |-> FirstPlace],
   unnamed |-> Kept, named |-> [n \in NamedRegisters |-> Kept],
   numbered |-> IF Kept = NoText THEN <<>> ELSE [i \in 1..Ring |-> Kept],
   open |-> 0, recs |-> <<>>, from |-> FirstPlace, undo |-> <<>>, redo |-> <<>>,
   count |-> 0, reg |-> "", awaitReg |-> FALSE, op |-> "", opCount |-> 0, opReg |-> "",
   pending |-> "", findCmd |-> "", findChar |-> "", preserveCol |-> FALSE, setEOL |-> FALSE,
   inserting |-> FALSE, replaceMode |-> FALSE, insertText |-> <<>>, insertCmd |-> "",
   insertCount |-> 1, insertEnter |-> FirstPlace, overtyped |-> <<>>,
   aiCount |-> 0, aiCarat |-> "", aiRestore |-> <<>>, literalNext |-> FALSE,
   savedInsert |-> <<>>, rec |-> <<>>, dot |-> <<>>, replaying |-> FALSE, changed |-> FALSE,
   putReg |-> "", dotPutReg |-> "", lastStepRedo |-> TRUE, dotUndo |-> FALSE,
   endless |-> FALSE, crashed |-> FALSE, astray |-> FALSE, carried |-> FALSE,
   dotCarried |-> FALSE]

(***************************************************************************)
(* Commands in the making.                                                  *)
(***************************************************************************)
pendingState(s) ==
  s.count # 0 \/ s.op # "" \/ s.reg # "" \/ s.awaitReg \/ s.pending # "" \/ s.inserting

NoCount(s) == [s EXCEPT !.count = 0]
NoOperator(s) == [s EXCEPT !.op = "", !.opCount = 0, !.opReg = ""]
cancelCommand(s) == [NoCount(NoOperator(s)) EXCEPT !.reg = ""]

\* Special keys stand for commands.
normalizeKey(key) ==
  CASE key \in {"LEFT", "BS"} -> "h" [] key \in {"RIGHT", " "} -> "l" [] key = "DOWN" -> "j"
    [] key = "UP" -> "k" [] key = "CR" -> "+" [] OTHER -> key

\* A complete command: the column to keep, the keys of ., and all is forgotten.
finishCommand(s) ==
  LET kept == s.changed /\ ~s.replaying
      column == CursorColumn(lineRunes(s.lines, s.cursor.line), s.cursor.col)
  IN  [cancelCommand(s) EXCEPT
         !.desiredCol = IF s.preserveCol THEN @ ELSE column,
         !.desiredEOL = IF s.preserveCol THEN @ \/ s.setEOL ELSE s.setEOL,
         !.preserveCol = FALSE, !.setEOL = FALSE,
         !.dot = IF kept THEN s.rec ELSE @,
         !.dotCarried = IF kept THEN s.carried ELSE @,
         !.dotPutReg = IF ~kept THEN @ ELSE IF IsDigit(s.putReg) THEN s.putReg ELSE "",
         !.dotUndo = @ /\ ~s.changed, !.lastStepRedo = @ \/ s.changed,
         !.changed = FALSE, !.putReg = ""]

(***************************************************************************)
(* Motions, alone and behind an operator.                                   *)
(***************************************************************************)
Operators == {"d", "c", "y", "<", ">"}
CharCommands == {"f", "F", "t", "T", "r", "m", "GRAVE", "QUOTE", "[", "]"}
MotionKeys == LineMotionKeys \cup {"w", "W", "b", "B", "e", "E", ";", ",", "%", "(", ")", "{", "}"}

startOperator(s, op) ==
  [s EXCEPT !.op = op, !.opCount = s.count, !.opReg = s.reg, !.reg = "", !.count = 0]

setMark(s, name, pos) == [s EXCEPT !.marks = (name :> pos) @@ s.marks]

\* Does the motion set the mark that '' returns to?
SetsContext(key, from, to) ==
  \/ key \in {"%", "(", ")", "{", "}", "[[", "]]"}
  \/ key \in {"G", "QUOTE"} /\ from.line # to.line
  \/ key = "GRAVE" /\ from # to
setPrevContext(s, from, key) ==
  IF SetsContext(key, from, s.cursor) THEN setMark(s, "QUOTE", from) ELSE s

MarkName(c) == IF c = "GRAVE" THEN "QUOTE" ELSE c

\* cw on a word is ce.  A count before the operator multiplies one behind it.
ChangedWord(s, key) ==
  IF s.op = "c" /\ key \in {"w", "W"} /\ classAt(s.lines, s.cursor) # "blank"
  THEN IF key = "w" THEN "e" ELSE "E"
  ELSE key

applyMotionOrOp(s, key, mot) ==
  LET e == NoCount(NoOperator(s))
      moved == [e EXCEPT !.cursor = clampCursor(s.lines, mot.to, FALSE),
                         !.preserveCol = @ \/ key \in {"j", "k"}, !.setEOL = @ \/ key = "$"]
  IN  IF ~mot.ok THEN e
      ELSE IF s.op # "" THEN operate(e, s.op, s.opReg, mot)
      ELSE setPrevContext(moved, s.cursor, key)

doMotion(s, key, charArg) ==
  applyMotionOrOp(s, ChangedWord(s, key),
    computeMotion(s, ChangedWord(s, key), effCount(s.opCount) * effCount(s.count),
                  s.count # 0 \/ s.opCount # 0, charArg))

\* dd, cc, yy: a count beyond the last line is an error.
doubledOperator(s) ==
  LET last == s.cursor.line + effCount(s.opCount) * effCount(s.count) - 1
      e == NoCount(NoOperator(s))
  IN  IF last > lineCount(s.lines) THEN e
      ELSE operate(e, s.op, s.opReg, [Linewise(Pos(last, 0)) EXCEPT !.doubled = TRUE])

\* The character behind f F t T r m ` ' [ and ].  A key without one ends the
\* wait and nothing else.
charArg(s, key) ==
  LET e == [s EXCEPT !.pending = ""]
      bracket == s.pending \in {"[", "]"}
      found == IF s.pending \in {"f", "F", "t", "T"}
               THEN [e EXCEPT !.findCmd = s.pending, !.findChar = key] ELSE e
  IN  IF key \in {"ESC", "BS"} \cup Arrows \/ (bracket /\ key # s.pending) THEN e
      ELSE IF s.pending = "r" THEN replaceChar(e, key)
      ELSE IF s.pending = "m" THEN setMark(e, MarkName(key), s.cursor)
      ELSE doMotion(found, IF bracket THEN key \o key ELSE s.pending, MarkName(key))

(***************************************************************************)
(* Commands of one key.                                                     *)
(***************************************************************************)
\* x X D C s are operators with a motion, and Y and S with whole lines.
synthOperator(s, op, motion) ==
  operate([NoCount(s) EXCEPT !.reg = "", !.setEOL = @ \/ motion = "$"], op, s.reg,
          computeMotion(s, motion, effCount(s.count), TRUE, ""))

synthLineOperator(s, op) ==
  operate([NoCount(s) EXCEPT !.reg = ""], op, s.reg,
          Linewise(Pos(s.cursor.line + effCount(s.count) - 1, 0)))

Synth == [x |-> <<"d", "l">>, X |-> <<"d", "h">>, D |-> <<"d", "$">>,
          C |-> <<"c", "$">>, s |-> <<"c", "l">>]
SynthLine == [Y |-> "y", S |-> "c"]

InsertAt0(s, col, cmd) == enterInsert(s, Pos(s.cursor.line, col), cmd = "R", cmd)

editKey(s, key) ==
  LET col == s.cursor.col
      len == lineLen(s.lines, s.cursor.line)
      indent == firstNonBlank(s.lines, s.cursor.line)
  IN  CASE key \in DOMAIN Synth ->
             synthOperator(IF key = "D" THEN NoCount(s) ELSE s, Synth[key][1], Synth[key][2])
        [] key \in DOMAIN SynthLine -> synthLineOperator(s, SynthLine[key])
        [] key \in {"p", "P"} -> put(s, key = "p")
        [] key = "J" -> joinLines(s)
        [] key = "~" -> IF TildeOp THEN startOperator(s, "~") ELSE toggleCase(s)
        [] key \in {"i", "R"} -> InsertAt0(s, col, key)
        [] key = "I" -> InsertAt0(SetCol(s, indent), indent, key)
        [] key = "a" -> InsertAt0(s, IF len > 0 THEN col + 1 ELSE col, key)
        [] key = "A" -> InsertAt0(s, len, key)
        [] key \in {"o", "O"} -> openLine(s, key = "o")
        [] key = "u" -> doUndoCommand(s, FALSE)
        [] key = "U" -> restoreLine(s)
        [] OTHER -> s

(***************************************************************************)
(* The record that . presses.                                               *)
(***************************************************************************)
itoaRunes(n) ==
  LET f[k \in 0..n] == IF k = 0 THEN <<>>
                       ELSE Append(f[k \div 10], IF k % 10 = 0 THEN "0" ELSE Digits[k % 10])
  IN  f[n]

\* A count given to . replaces the one the record starts with.
overrideCount(events, n) ==
  LET behind == {i \in DOMAIN events : ~IsDigit(events[i]) /\ events[i] # "0"}
  IN  itoaRunes(n) \o
        (IF events # <<>> /\ IsDigit(events[1])
         THEN SubSeq(events, IF behind = {} THEN Len(events) + 1 ELSE Min(behind), Len(events))
         ELSE events)

setDotPutDigit(events, name) ==
  LET quotes == {i \in 1..(Len(events) - 1) : events[i] = "\""}
  IN  IF quotes = {} THEN events ELSE [events EXCEPT ![Min(quotes) + 1] = name]

NextRegister(name) == IF DigitOf(name) < Ring THEN Digits[DigitOf(name) + 1] ELSE name

RECURSIVE key(_, _)

\* "1p and then . . put register 1, 2, 3.  A record with a . in it would
\* press itself for ever.
repeatDot(s) ==
  LET name == IF s.dotPutReg = "" THEN "" ELSE NextRegister(s.dotPutReg)
      walked == IF name = "" THEN s
                ELSE [s EXCEPT !.dotPutReg = name, !.dot = setDotPutDigit(@, name)]
      events == IF s.count = 0 THEN walked.dot ELSE overrideCount(walked.dot, s.count)
  IN  CASE s.dotUndo -> doUndoCommand(NoCount(s), TRUE)
        [] ~s.dotUndo /\ s.dot = <<>> -> s
        [] ~s.dotUndo /\ s.dot # <<>> /\ s.replaying -> [cancelCommand(s) EXCEPT !.endless = TRUE]
        [] OTHER -> [FoldLeft(key, [NoCount(walked) EXCEPT !.replaying = TRUE], events)
                       EXCEPT !.replaying = FALSE]

(***************************************************************************)
(* commandKey and key.                                                      *)
(***************************************************************************)
commandKey(s, pressedKey) ==
  LET k == normalizeKey(pressedKey)
      counts == IsDigit(k) \/ (k = "0" /\ s.count # 0)
      doubled == s.op # "" /\ k = s.op
  IN  IF k = "ESC" THEN cancelCommand(s)
      ELSE IF counts THEN [s EXCEPT !.count = @ * 10 + (IF k = "0" THEN 0 ELSE DigitOf(k))]
      ELSE IF doubled THEN doubledOperator(s)
      ELSE IF k = "\"" THEN [s EXCEPT !.awaitReg = TRUE]
      ELSE IF k \in Operators THEN startOperator(s, k)
      ELSE IF k \in CharCommands THEN [s EXCEPT !.pending = k]
      ELSE IF k \in MotionKeys THEN doMotion(s, k, "")
      ELSE IF s.op # "" THEN NoOperator(s)
      ELSE IF k = "." THEN repeatDot(s)
      ELSE editKey(s, k)

\* Faulty variant: the record goes on where the last command ended.
RecordedOn(s, k) == IF s.replaying THEN s ELSE [s EXCEPT !.rec = Append(@, k)]

\* Keys are recorded from where no command was begun.
Recorded(s, k) ==
  IF s.replaying THEN s
  ELSE [s EXCEPT !.rec = IF pendingState(s) THEN Append(@, k) ELSE <<k>>,
                 !.carried = @ /\ pendingState(s)]

\* A command is over, and its count or its register still stands.
Carries(s, k, e) ==
  LET prefix == s.awaitReg \/ (~s.inserting /\ s.pending = "" /\ (IsDigit(k) \/ k = "0"))
      over == ~e.inserting /\ ~e.awaitReg /\ e.op = "" /\ e.pending = ""
  IN  [e EXCEPT !.carried = @ \/ (~s.replaying /\ ~prefix /\ over /\ pendingState(e))]

Settled(e) == IF pendingState(e) THEN e ELSE finishCommand(e)

key(s, k) ==
  LET r == Recorded(s, k)
  IN  Settled(Carries(s, k, IF s.inserting THEN insertKey(r, k)
              ELSE IF s.awaitReg THEN
                [r EXCEPT !.awaitReg = FALSE,
                          !.reg = IF k \in {"ESC", "BS", "CR"} \cup Arrows THEN @ ELSE k]
              ELSE IF s.pending # "" THEN charArg(r, k)
              ELSE commandKey(r, k)))

(***************************************************************************)
(* A session: Input gives a key to the editor and then puts the cursor where *)
(* it may rest.                                                             *)
(***************************************************************************)
Situation(s) ==
  IF s.inserting THEN IF s.replaceMode THEN "replace" ELSE "insert"
  ELSE IF s.awaitReg THEN "name"
  ELSE IF s.pending # "" THEN "char"
  ELSE IF s.reg # "" THEN "register"
  ELSE IF s.op # "" THEN "operator"
  ELSE IF s.lines = <<>> THEN "empty"
  ELSE IF s.count # 0 THEN "count"
  ELSE "command"

HistoryOf(s) ==
  LET begun == Log!RevertAll(s.lines, s.recs)
      Earlier(set, texts) == <<Log!RevertAll(texts[1], set.recs)>> \o texts
      Later(set, texts) == <<Log!ReplayAll(texts[1], set.recs)>> \o texts
  IN  [base |-> begun,
       past |-> Front(FoldRight(Earlier, s.undo, <<begun>>)),
       future |-> Front(FoldRight(Later, s.redo, <<begun>>))]

Init ==
  /\ vi \in {newEditor(t) : t \in Texts}
  /\ keys \in Keyboards
  /\ pressed = 0
  /\ history = HistoryOf(vi)

Press(k) ==
  /\ vi' = InMode(key(vi, k))
  /\ pressed' = pressed + 1
  /\ history' = HistoryOf(vi')
  /\ UNCHANGED keys

Next == ~vi.endless /\ ~vi.crashed /\ \E k \in keys[Situation(vi)] : Press(k)

Spec == Init /\ [][Next]_vars

-----------------------------------------------------------------------------
(***************************************************************************)
(* Properties.                                                              *)
(***************************************************************************)
AtRest == ~pendingState(vi)

TypeOK ==
  /\ vi.lines \in Seq(Seq(STRING))
  /\ vi.cursor = InMode(vi).cursor
  /\ vi.undo \in Seq([recs : Log!ChangeSet, before : [line : Nat, col : Nat],
                      after : [line : Nat, col : Nat]])
  /\ vi.open = IF vi.inserting THEN 1 ELSE 0
  /\ ~vi.replaying
  /\ Len(vi.numbered) <= Ring
  /\ vi.op \in Operators \cup {"", "~"} /\ vi.pending \in CharCommands \cup {""}

\* A press of . that changes the text is one change: one u takes it back.
Undoes(dotted) == dotted.lines # vi.lines => key(dotted, "u").lines = vi.lines

\* So it is whatever the keys that were recorded, two cases excepted: a command
\* that left its count or its register to the next one, which is then recorded
\* with it (Carries), and a log that names a line the buffer did not have
\* (repeatDot, finishCommand, doUndoCommand).
DotIsOneChange ==
  AtRest /\ ~vi.dotCarried => LET e == InMode(key(vi, ".")) IN e.astray \/ Undoes(e)

\* Without the first exception: . repeats one command (repeatDot: "replays the
\* last buffer-changing command"; consumeReg: a register "does not leak into the
\* next command").  Violated by commands that leave one.
DotRepeatsOne ==
  AtRest => LET e == InMode(key(vi, ".")) IN e.astray \/ Undoes(e)

\* The text as one run of characters, every line ended by a newline, and the
\* text of a register likewise.
Flat(lines) == FlattenSeq([i \in DOMAIN lines |-> Append(lines[i], "\n")])
FlatText(t) == IF t.kind = "lines" THEN Flat(t.lines) ELSE Front(Flat(t.lines))

\* The register the command being typed names.
Named == IF vi.op = "" THEN vi.reg ELSE vi.opReg

\* What a command deletes from a buffer that has lines is in the unnamed
\* register, all of it and nothing else: put back at some place it gives the
\* text from before, over every motion, count, and adjustment of the span to
\* whole lines.  A register named by a capital has it behind what it held
\* (operate, deleteChars, collectChars, StoreDelete, appendText).
DeletedIsKept ==
  [][(~vi.inserting /\ ~vi'.inserting /\ vi'.lines # vi.lines /\ vi.lines # <<>>
        /\ vi'.unnamed # vi.unnamed /\ Last(vi'.rec) # ".") =>
       /\ \E i \in 0..Len(Flat(vi'.lines)) :
            Flat(vi.lines) = SubSeq(Flat(vi'.lines), 1, i) \o FlatText(vi'.unnamed)
                               \o SubSeq(Flat(vi'.lines), i + 1, Len(Flat(vi'.lines)))
       /\ Named \in DOMAIN Lower /\ Lower[Named] \in NamedRegisters =>
            LET held == Flat(vi'.named[Lower[Named]].lines)
            IN  /\ IsPrefix(Front(Flat(vi.named[Lower[Named]].lines)), held)
                /\ IsSuffix(Flat(vi'.unnamed.lines), held)]_vars

\* The record that . presses never leads . back to itself: . comes to an end
\* (repeatDot: "replays the last buffer-changing command").
DotEnds == ~vi.endless

\* A press of u right behind a change takes the whole change back (undo.go: "one
\* Undo reverses the most recent change set").  Violated in an empty buffer.
UndoReverses ==
  [][~vi.inserting /\ ~vi'.inserting /\ Len(vi'.undo) = Len(vi.undo) + 1 /\ vi'.redo = <<>> =>
       key(vi', "u").lines = vi.lines]_vars

\* ^^D puts the indent of the line by, which the line has (insertCtrlD; aiCount
\* is "the count of leading autoindent whitespace runes on the current line").
\* Violated: an indent that was erased is still counted.
IndentIsThere == ~vi.crashed

(***************************************************************************)
(* The history of the text: what u and . after it move along.               *)
(***************************************************************************)
base == history.base
past == history.past
future == history.future

History == INSTANCE LinearHistory
             WITH now <- vi.lines, lost <- vi.astray, Content <- Seq(Seq(STRING))

\* U takes back several changes in one press.
UndoRun ==
  \E n \in 2..Len(past) :
    LET left == Len(past) - n
    IN  /\ vi'.lines = past[left + 1] /\ base' = vi'.lines
        /\ past' = SubSeq(past, 1, left)
        /\ future' = future \o <<vi.lines>> \o Reverse(SubSeq(past, left + 2, Len(past)))

\* A . that repeats several commands makes several steps at once.
DotRun == vi.dotCarried /\ Last(vi'.rec) = "."

\* As long as no line is inserted, set or deleted where the buffer has none, each
\* command and each insertion from its first key to ESC is one change; u goes
\* back and comes again along a line of texts, and a new change forgets what had
\* been undone (beginChange, endChange, doUndoCommand).
ImplementsHistory ==
  History!Init /\ [][History!Next \/ UndoRun \/ DotRun]_<<vi.lines, base, past, future, vi.astray>>
=============================================================================
