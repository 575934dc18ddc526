------------------------------ MODULE ViInsert ------------------------------
(***************************************************************************)
(* Insert and replace mode (engine/viinsert.go): what a key does to the      *)
(* text while s.inserting.  Besides those of ViEdits, an editor s has        *)
(*   insertText, insertCmd, insertCount   what was typed, the command that   *)
(*                     began it, and its count                               *)
(*   insertEnter       where the insertion began: ^W and ^U stop there       *)
(*   overtyped         the characters R has overtyped, noOrig where there    *)
(*                     was none                                              *)
(*   aiCount, aiCarat, aiRestore   autoindent: characters of indent on this  *)
(*                     line, a ^ or 0 just typed, the indent ^^D put by      *)
(*   literalNext       the last key was ^V                                   *)
(*   savedInsert       what ^@ inserts                                       *)
(*   crashed           a slice beyond its line has ended the program          *)
(* ^X hex input and the flash of showmatch are left out.                     *)
(***************************************************************************)
EXTENDS ViEdits

CONSTANTS
  WrapLen,       \* the wraplen option, 0 for none
  Werase,        \* how ^W finds a word: "default", "ttywerase" or "altwerase"
  Abbreviations  \* the abbreviations: a function from words to what they stand for

Arrows == {"LEFT", "RIGHT", "UP", "DOWN"}
noOrig == "noOrig"

Line(s) == lineRunes(s.lines, s.cursor.line)
Left(s) == Upto(Line(s), s.cursor.col)
Right(s) == From(Line(s), s.cursor.col)
Write(s, r, col) == SetCol(setLine(s, s.cursor.line, r), col)
Typed(s, r) == [s EXCEPT !.insertText = Append(@, r)]

(***************************************************************************)
(* One character, a new line, and abbreviations.                            *)
(***************************************************************************)
\* R overtypes up to the end of the line and appends behind it.
insertRune(s, r) ==
  LET over == s.replaceMode /\ Right(s) # <<>>
      e == IF ~s.replaceMode THEN s
           ELSE [s EXCEPT !.overtyped = Append(@, IF over THEN Right(s)[1] ELSE noOrig)]
  IN  Write(e, Left(s) \o <<r>> \o (IF over THEN Tail(Right(s)) ELSE Right(s)), s.cursor.col + 1)

\* A word before the cursor that is an abbreviation is replaced.
maybeExpandAbbrev(s) ==
  LET start == Max({0} \cup {i \in DOMAIN Left(s) : Left(s)[i] \notin WordRunes})
      word == From(Left(s), start)
  IN  IF word \notin DOMAIN Abbreviations THEN s
      ELSE Write(s, Upto(Line(s), start) \o Abbreviations[word] \o Right(s),
                 start + Len(Abbreviations[word]))

\* A line too wide is broken at the last blank before the cursor.
maybeWrapMargin(s) ==
  LET blanks == {i \in DOMAIN Left(s) : Left(s)[i] \in Blanks}
      i == Max(blanks)
  IN  IF WrapLen = 0 \/ DisplayCol(Line(s), s.cursor.col) <= WrapLen \/ blanks = {} THEN s
      ELSE MoveTo(appendLine(setLine(s, s.cursor.line, Upto(Line(s), i - 1)),
                             s.cursor.line, From(Line(s), i)),
                  s.cursor.line + 1, s.cursor.col - i)

\* The new line takes the indent of the line left, or the one ^^D put by.
insertNewline(s) ==
  LET indent == IF ~AutoIndent THEN <<>>
                ELSE IF s.aiRestore # <<>> THEN s.aiRestore ELSE leadingWhitespace(Line(s))
      e == appendLine(setLine(s, s.cursor.line, Left(s)), s.cursor.line, indent \o Right(s))
  IN  [MoveTo(e, s.cursor.line + 1, Len(indent))
         EXCEPT !.aiRestore = <<>>, !.aiCount = Len(indent)]

NewlineTyped(s) == Typed(insertNewline(maybeExpandAbbrev(s)), "\n")

(***************************************************************************)
(* Arrow keys: the insertion begins anew where they lead.                   *)
(***************************************************************************)
insertArrow(s, key) ==
  LET line == s.cursor.line + (IF key = "UP" THEN -1 ELSE IF key = "DOWN" THEN 1 ELSE 0)
      col == s.cursor.col + (IF key = "LEFT" THEN -1 ELSE IF key = "RIGHT" THEN 1 ELSE 0)
      to == Pos(line, Max({0, Min({col, lineLen(s.lines, line)})}))
  IN  IF line \notin 1..lineCount(s.lines) THEN s
      ELSE [s EXCEPT !.cursor = to, !.insertEnter = to,
                     !.aiCount = IF line # s.cursor.line THEN 0 ELSE @]

(***************************************************************************)
(* Erasing: a character, a word (^W), the insertion on this line (^U).       *)
(***************************************************************************)
\* R puts back what the last character typed has overtyped.
RestoreOvertyped(s) ==
  LET orig == Last(s.overtyped)
  IN  IF s.overtyped = <<>> \/ s.cursor.col = 0 THEN s
      ELSE Write([s EXCEPT !.overtyped = Front(@)],
                 Front(Left(s)) \o (IF orig = noOrig THEN <<>> ELSE <<orig>>) \o Right(s),
                 s.cursor.col - 1)

\* In column 0 the line is joined to the one before.
insertBackspace(s) ==
  LET above == lineRunes(s.lines, s.cursor.line - 1)
  IN  IF s.replaceMode THEN RestoreOvertyped(s)
      ELSE IF s.cursor.col > 0 THEN Write(s, Front(Left(s)) \o Right(s), s.cursor.col - 1)
      ELSE IF s.cursor.line = 1 THEN s
      ELSE MoveTo(deleteLine(setLine(s, s.cursor.line - 1, above \o Line(s)), s.cursor.line),
                  s.cursor.line - 1, Len(above))

\* Erasing never reaches before the start of the insertion on its line.
EraseFrom(s) ==
  IF s.cursor.line = s.insertEnter.line /\ s.insertEnter.col <= s.cursor.col
  THEN s.insertEnter.col ELSE 0

EraseTo(s, col) == Write(s, Upto(Line(s), col) \o Right(s), col)

\* The first of the columns lo..i behind which all characters are in over.
RunBack(r, lo, i, over) == Min({k \in lo..i : \A j \in (k + 1)..i : r[j] \in over})

insertWordErase(s) ==
  LET r == Line(s)
      lo == EraseFrom(s)
      i == RunBack(r, lo, s.cursor.col, Blanks)
      solid == Range(r) \ Blanks
      SameClass(k) ==
        RunBack(r, lo, k, {c \in solid : (c \in WordRunes) = (r[k] \in WordRunes)})
  IN  EraseTo(s, CASE i = lo -> lo
                   [] Werase = "ttywerase" -> RunBack(r, lo, i, solid)
                   [] Werase = "altwerase" -> IF i - 1 = lo THEN lo ELSE SameClass(i - 1)
                   [] OTHER -> SameClass(i))

insertLineErase(s) == EraseTo(s, EraseFrom(s))

(***************************************************************************)
(* Indenting while text is typed (^T, ^D).                                  *)
(***************************************************************************)
\* The column behind the first n characters.  Each counts as one, a wide or a
\* control character too, but for tabs.
scrcol(r, n) ==
  LET step(c, i) == IF r[i] = "\t" THEN c + TabStop - (c % TabStop) ELSE c + 1
  IN  FoldLeft(step, 0, [i \in 1..n |-> i])

\* Tabs and blanks that fill columns [from, to) of the screen.
Filled(from, to) ==
  LET step(c) == TabStop - (c % TabStop)
      fill[c \in from..to] ==
        IF c = to THEN <<>>
        ELSE IF c + step(c) <= to THEN <<"\t">> \o fill[c + step(c)]
        ELSE <<" ">> \o fill[c + 1]
  IN  fill[from]

\* The blanks before the cursor are filled up to the next shiftwidth.
insertIndent(s) ==
  LET r == Line(s)
      at == scrcol(r, s.cursor.col)
      lo == RunBack(r, 0, s.cursor.col, Blanks)
      filled == Upto(r, lo) \o Filled(scrcol(r, lo), at + ShiftWidth - (at % ShiftWidth))
      e == Write(s, filled \o Right(s), Len(filled))
  IN  IF s.cursor.col = s.aiCount THEN [e EXCEPT !.aiCount = Len(filled)] ELSE e

eraseToLeftMargin(s) == [Write(s, Right(s), 0) EXCEPT !.aiCount = 0]

\* The line up to the cursor becomes an indent one shiftwidth less.
insertDedent(s) ==
  LET at == scrcol(Line(s), s.cursor.col)
      indent == makeIndent(((at - 1) \div ShiftWidth) * ShiftWidth)
  IN  IF at = 0 THEN s
      ELSE [Write(s, indent \o Right(s), Len(indent)) EXCEPT !.aiCount = Len(indent)]

\* ^D, and behind ^ or 0: erases the indent, or else is a character like others.
\* Erasures do not count in aiCount: the line may be shorter than the indent
\* that ^^D is to keep.
insertCtrlD(s, carat) ==
  LET reach == IF carat = "" THEN s.aiCount ELSE s.aiCount + 1
      kept == [s EXCEPT !.aiRestore = SubSeq(Line(s), 1, s.aiCount)]
  IN  IF AutoIndent /\ s.cursor.col = 0 THEN s
      ELSE IF ~AutoIndent \/ s.aiCount = 0 \/ s.cursor.col > reach
      THEN Typed(insertRune(s, "^D"), "^D")
      ELSE IF carat = "^" /\ s.aiCount > Len(Line(s)) THEN [s EXCEPT !.crashed = TRUE]
      ELSE IF carat = "^" THEN eraseToLeftMargin(kept)
      ELSE IF carat = "0" THEN eraseToLeftMargin(s)
      ELSE insertDedent(s)

(***************************************************************************)
(* ESC.                                                                     *)
(***************************************************************************)
TypeRunes(s, runes) == FoldLeft(insertRune, s, runes)

\* Text without a newline is typed again for the count; o and O open a line
\* for each, and R inserts from the second time on.
RepeatInsert(s) ==
  LET e == IF s.insertCmd = "R" THEN [s EXCEPT !.replaceMode = FALSE] ELSE s
      Once(t, i) == TypeRunes(IF s.insertCmd \in {"o", "O"} THEN insertNewline(t) ELSE t,
                              s.insertText)
  IN  IF s.insertCount <= 1 \/ s.insertText = <<>> \/ Contains(s.insertText, "\n") THEN s
      ELSE FoldLeft(Once, e, [i \in 1..(s.insertCount - 1) |-> i])

\* Faulty variant: an insertion in which nothing was typed stays open.
finishInsertTyped(s) ==
  LET e == RepeatInsert(s)
      left == [e EXCEPT !.inserting = FALSE, !.replaceMode = FALSE,
                        !.cursor.col = Max({0, @ - 1}),
                        !.savedInsert = IF s.insertText = <<>> THEN @ ELSE s.insertText]
      done == InMode(IF s.insertText = <<>> THEN left ELSE endChange(left))
  IN  IF s.insertText # <<>> \/ s.insertCmd \in {"o", "O", "c"} THEN Changed(done) ELSE done

finishInsert(s) ==
  LET e == RepeatInsert(s)
      left == [e EXCEPT !.inserting = FALSE, !.replaceMode = FALSE,
                        !.cursor.col = Max({0, @ - 1}),
                        !.savedInsert = IF s.insertText = <<>> THEN @ ELSE s.insertText]
      done == InMode(endChange(left))
  IN  IF s.insertText # <<>> \/ s.insertCmd \in {"o", "O", "c"} THEN Changed(done) ELSE done

(***************************************************************************)
(* insertKey.                                                               *)
(***************************************************************************)
\* ^V: only a newline keeps its meaning.
insertLiteral(s, key) ==
  CASE key = "NL" -> NewlineTyped(s)
    [] key \in Arrows -> s
    [] OTHER -> LET r == IF key = "CR" THEN "\r" ELSE key IN Typed(insertRune(s, r), r)

\* A character that is not of a word ends a word, ^ and 0 in the indent wait
\* for ^D, and a line too wide is broken.
insertChar(s, r) ==
  LET e == IF r \in WordRunes THEN s ELSE maybeExpandAbbrev(s)
      arms == r \in {"^", "0"} /\ AutoIndent /\ e.cursor.col <= e.aiCount
  IN  maybeWrapMargin(Typed(insertRune([e EXCEPT !.aiCarat = IF arms THEN r ELSE ""], r), r))

insertKey(s, key) ==
  LET e == [s EXCEPT !.aiCarat = ""]
  IN  CASE s.literalNext -> insertLiteral([s EXCEPT !.literalNext = FALSE], key)
        [] ~s.literalNext /\ key = "ESC" -> finishInsert(maybeExpandAbbrev(e))
        [] ~s.literalNext /\ key \in {"CR", "NL"} -> NewlineTyped(e)
        [] ~s.literalNext /\ key = "BS" -> insertBackspace(e)
        [] ~s.literalNext /\ key \in Arrows -> insertArrow(e, key)
        [] ~s.literalNext /\ key = "^V" -> [e EXCEPT !.literalNext = TRUE]
        [] ~s.literalNext /\ key = "^W" -> insertWordErase(e)
        [] ~s.literalNext /\ key = "^U" -> insertLineErase(e)
        [] ~s.literalNext /\ key = "^T" -> insertIndent(e)
        [] ~s.literalNext /\ key = "^D" -> insertCtrlD(e, s.aiCarat)
        [] ~s.literalNext /\ key = "^@" ->
             FoldLeft(LAMBDA t, r : Typed(insertRune(t, r), r), e, s.savedInsert)
        [] OTHER -> insertChar(e, key)
=============================================================================
