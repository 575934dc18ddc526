------------------------------ MODULE Motions ------------------------------
(***************************************************************************)
(* The motions of vi (engine/vimotion.go, vimotion2.go, viword.go): where a *)
(* motion key takes the cursor, and how an operator treats the span.        *)
(* A text is a sequence of lines and a line a sequence of characters; lines *)
(* count from 1 and columns from 0, as in the code.  Column Len(line) of a  *)
(* line is the boundary behind its last character.                          *)
(***************************************************************************)
EXTENDS Integers, Sequences, FiniteSets, SequencesExt

CONSTANTS
  WordRunes,   \* the letters, digits and _ in use (isWordRune)
  WideRunes,   \* the characters two columns wide: control and East Asian ones
  TabStop,     \* the tabstop option
  List         \* the list option: a tab is shown as ^I

Blanks == {" ", "\t"}
Closers == {")", "]", "\"", "'"}
Pos(line, col) == [line |-> line, col |-> col]

(***************************************************************************)
(* Lines, as the screen reads them (screen.go).                             *)
(***************************************************************************)
\* An empty buffer has one empty line.
lineCount(t) == IF t = <<>> THEN 1 ELSE Len(t)
lineRunes(t, lno) == IF lno \in DOMAIN t THEN t[lno] ELSE <<>>
lineLen(t, lno) == Len(lineRunes(t, lno))
runeAt(t, p) == t[p.line][p.col + 1]
AtEnd(t, p) == p.col >= lineLen(t, p.line)

clampLine(t, line) ==
  IF line < 1 THEN 1 ELSE IF line > lineCount(t) THEN lineCount(t) ELSE line

firstNonBlank(t, lno) ==
  LET r == lineRunes(t, lno)
      cols == {i \in DOMAIN r : r[i] \notin Blanks}
  IN  IF cols = {} THEN 0 ELSE Min(cols) - 1

runeWidth(r, col) ==
  IF r \in WideRunes \/ (r = "\t" /\ List) THEN 2
  ELSE IF r = "\t" THEN TabStop - (col % TabStop) ELSE 1

\* The display column behind the first n characters of a line.
DisplayCol(r, n) ==
  LET f[i \in 0..n] == IF i = 0 THEN 0
                       ELSE IF i > Len(r) THEN f[i - 1]
                       ELSE f[i - 1] + runeWidth(r[i], f[i - 1])
  IN  f[n]

\* Where the cursor is shown: on the last column of its character.
CursorColumn(r, col) ==
  IF col >= Len(r) THEN DisplayCol(r, col) ELSE DisplayCol(r, col + 1) - 1

\* The character that covers display column dcol, or the last one.
colAtDisplay(t, lno, dcol) ==
  LET r == lineRunes(t, lno)
      over == {i \in DOMAIN r : DisplayCol(r, i) > dcol}
  IN  IF r = <<>> THEN 0 ELSE IF over = {} THEN Len(r) - 1 ELSE Min(over) - 1

(***************************************************************************)
(* Walking the text (stepFwd, stepBack).                                    *)
(***************************************************************************)
Before(p, q) == p.line < q.line \/ (p.line = q.line /\ p.col < q.col)
Places(t) ==
  UNION {{Pos(l, c) : c \in 0..lineLen(t, l)} : l \in 1..lineCount(t)}
FirstPlace == Pos(1, 0)
LastPlace(t) == Pos(lineCount(t), lineLen(t, lineCount(t)))

stepFwd(t, p) ==
  IF p.col < lineLen(t, p.line) THEN Pos(p.line, p.col + 1)
  ELSE IF p.line < lineCount(t) THEN Pos(p.line + 1, 0)
  ELSE p

stepBack(t, p) ==
  IF p.col > 0 THEN Pos(p.line, p.col - 1)
  ELSE IF p.line > 1 THEN Pos(p.line - 1, lineLen(t, p.line - 1))
  ELSE p

\* Walking from p on to the next place in stops, or to the end of the text.
Ahead(t, p, stops) ==
  CHOOSE q \in Places(t) :
    /\ ~Before(q, p)
    /\ q \in stops \/ q = LastPlace(t)
    /\ \A r \in Places(t) : ~Before(r, p) /\ Before(r, q) => r \notin stops

Behind(t, p, stops) ==
  CHOOSE q \in Places(t) :
    /\ ~Before(p, q)
    /\ q \in stops \/ q = FirstPlace
    /\ \A r \in Places(t) : ~Before(p, r) /\ Before(q, r) => r \notin stops

\* Repeating a motion count times.
RECURSIVE Times(_, _, _)
Times(f, n, p) == IF n = 0 THEN p ELSE Times(f, n - 1, f[p])

(***************************************************************************)
(* What a motion returns.                                                   *)
(***************************************************************************)
Exclusive(p) ==
  [ok |-> TRUE, to |-> p, linewise |-> FALSE, inclusive |-> FALSE,
   promote |-> FALSE, endFlag |-> FALSE, doubled |-> FALSE]
Failed == [Exclusive(FirstPlace) EXCEPT !.ok = FALSE]
Inclusive(p) == [Exclusive(p) EXCEPT !.inclusive = TRUE]
Linewise(p) == [Exclusive(p) EXCEPT !.linewise = TRUE]
Promoted(p) == [Exclusive(p) EXCEPT !.promote = TRUE]

(***************************************************************************)
(* Words (viword.go).                                                       *)
(***************************************************************************)
classAt(t, p) ==
  IF AtEnd(t, p) THEN "nl"
  ELSE IF runeAt(t, p) \in Blanks THEN "blank"
  ELSE IF runeAt(t, p) \in WordRunes THEN "word"
  ELSE "punct"

classOf(t, p, big) ==
  IF big /\ classAt(t, p) = "punct" THEN "word" ELSE classAt(t, p)

InWord(t, p, big) == classOf(t, p, big) \in {"word", "punct"}
WordPlaces(t, big) == {p \in Places(t) : InWord(t, p, big)}
EmptyLineAt(t, p) == p.col = 0 /\ lineLen(t, p.line) = 0

wordForwardOnce(t, p, big) ==
  LET c == classOf(t, p, big)
      past == IF InWord(t, p, big)
              THEN Ahead(t, p, {q \in Places(t) : classOf(t, q, big) # c}) ELSE p
  IN  Ahead(t, past, {q \in Places(t) : InWord(t, q, big) \/ (q # past /\ EmptyLineAt(t, q))})

\* The start of the run that ends at or before p, found walking back.
wordBackOnce(t, p, big) ==
  LET q == Behind(t, stepBack(t, p), WordPlaces(t, big))
      c == classOf(t, q, big)
  IN  IF p = FirstPlace \/ ~InWord(t, q, big) THEN q
      ELSE Behind(t, q, {r \in Places(t) : r = FirstPlace \/ classOf(t, stepBack(t, r), big) # c})

\* Faulty variant: a run is not left behind before the next one is looked for.
wordEndOnceHere(t, p, big) ==
  LET q == Ahead(t, p, WordPlaces(t, big))
      c == classOf(t, q, big)
  IN  IF ~InWord(t, q, big) THEN q
      ELSE Ahead(t, q, {r \in Places(t) : classOf(t, stepFwd(t, r), big) # c})

wordEndOnce(t, p, big) ==
  LET q == Ahead(t, stepFwd(t, p), WordPlaces(t, big))
      c == classOf(t, q, big)
  IN  IF ~InWord(t, q, big) THEN q
      ELSE Ahead(t, q, {r \in Places(t) : classOf(t, stepFwd(t, r), big) # c})

wordForward(t, p, count, big) ==
  Exclusive(Times([q \in Places(t) |-> wordForwardOnce(t, q, big)], count, p))
wordBack(t, p, count, big) ==
  Exclusive(Times([q \in Places(t) |-> wordBackOnce(t, q, big)], count, p))
wordEnd(t, p, count, big) ==
  Inclusive(Times([q \in Places(t) |-> wordEndOnce(t, q, big)], count, p))

(***************************************************************************)
(* f F t T within the line (findMotion).                                    *)
(***************************************************************************)
reverseFind(cmd) ==
  CASE cmd = "f" -> "F" [] cmd = "F" -> "f" [] cmd = "t" -> "T" [] cmd = "T" -> "t"

\* The columns of ch on the line beyond col, the nearest first.
Finds(r, col, forward, ch) ==
  LET at == {c \in 0..(Len(r) - 1) : r[c + 1] = ch}
  IN  IF forward THEN SetToSortSeq({c \in at : c > col}, LAMBDA a, b : a < b)
      ELSE SetToSortSeq({c \in at : c < col}, LAMBDA a, b : a > b)

findMotion(t, p, cmd, ch, count) ==
  LET found == Finds(lineRunes(t, p.line), p.col, cmd \in {"f", "t"}, ch)
      At(c) == Pos(p.line, c)
  IN  IF Len(found) < count THEN Failed
      ELSE CASE cmd = "f" -> Inclusive(At(found[count]))
             [] cmd = "t" -> Inclusive(At(found[count] - 1))
             [] cmd = "F" -> Exclusive(At(found[count]))
             [] cmd = "T" -> Exclusive(At(found[count] + 1))

(***************************************************************************)
(* % (matchMotion).                                                         *)
(***************************************************************************)
Opens == {"(", "[", "{", "<"}
isBracket(r) ==
  CASE r = "(" -> ")" [] r = ")" -> "(" [] r = "[" -> "]" [] r = "]" -> "["
    [] r = "{" -> "}" [] r = "}" -> "{" [] r = "<" -> ">" [] r = ">" -> "<"
    [] OTHER -> ""

runeAtPos(t, p) == IF AtEnd(t, p) THEN "\n" ELSE runeAt(t, p)

\* Faulty variant: the nearest partner is taken, however the brackets nest.
NearestPartner(t, p, ch, depth) ==
  LET q == IF ch \in Opens
           THEN Ahead(t, p, {r \in Places(t) : runeAtPos(t, r) = isBracket(ch)})
           ELSE Behind(t, p, {r \in Places(t) : runeAtPos(t, r) = isBracket(ch)})
  IN  IF runeAtPos(t, q) = isBracket(ch) THEN Inclusive(q) ELSE Failed

\* The scan for the partner of ch from p on, depth brackets being open.
RECURSIVE MatchFrom(_, _, _, _)
MatchFrom(t, p, ch, depth) ==
  LET r == runeAtPos(t, p)
      now == IF r = ch THEN depth + 1 ELSE IF r = isBracket(ch) THEN depth - 1 ELSE depth
      next == IF ch \in Opens THEN stepFwd(t, p) ELSE stepBack(t, p)
  IN  IF r = isBracket(ch) /\ now = 0 THEN Inclusive(p)
      ELSE IF next = p THEN Failed
      ELSE MatchFrom(t, next, ch, now)

\* The bracket % starts from: the first one at or behind the cursor.
BracketCols(t, p) ==
  {c \in p.col..(lineLen(t, p.line) - 1) : isBracket(runeAt(t, Pos(p.line, c))) # ""}

matchMotion(t, p) ==
  IF BracketCols(t, p) = {} THEN Failed
  ELSE LET start == Pos(p.line, Min(BracketCols(t, p)))
       IN  MatchFrom(t, start, runeAt(t, start), 0)

(***************************************************************************)
(* } { ]] [[ _ and the addressed lines.                                     *)
(***************************************************************************)
isBlankLine(t, lno) == lineLen(t, lno) = 0
isSectionStart(t, lno) == lineLen(t, lno) > 0 /\ lineRunes(t, lno)[1] \in {"{", "\f"}

BlankLines(t) == {l \in 1..lineCount(t) : isBlankLine(t, l)}
SectionStarts(t) == {l \in 1..lineCount(t) : isSectionStart(t, l)}

\* The lines among stops that are below lno, the last line never being one.
LinesBelow(t, lno, stops) ==
  SetToSortSeq(stops \cap (lno + 1)..(lineCount(t) - 1), LAMBDA a, b : a < b)
LinesAbove(t, lno, stops) == SetToSortSeq(stops \cap 2..(lno - 1), LAMBDA a, b : a > b)

\* The last line is a boundary, and a motion that reaches it goes to its end.
BoundaryFwd(t, p, count, stops) ==
  LET below == LinesBelow(t, p.line, stops)
  IN  Promoted(IF count <= Len(below) THEN Pos(below[count], 0) ELSE LastPlace(t))
BoundaryBack(t, p, count, stops) ==
  LET above == LinesAbove(t, p.line, stops)
  IN  Promoted(IF count <= Len(above) THEN Pos(above[count], 0) ELSE FirstPlace)

paragraphFwd(t, p, count) == BoundaryFwd(t, p, count, BlankLines(t))
paragraphBack(t, p, count) == BoundaryBack(t, p, count, BlankLines(t))
sectionFwd(t, p, count) == BoundaryFwd(t, p, count, SectionStarts(t))
sectionBack(t, p, count) == BoundaryBack(t, p, count, SectionStarts(t))

underscoreMotion(t, p, count) ==
  LET lno == clampLine(t, p.line + count - 1)
  IN  Linewise(Pos(lno, firstNonBlank(t, lno)))

(***************************************************************************)
(* Sentences: the character-stream cursor (vcs), a record [lno, cno, flag]. *)
(***************************************************************************)
\* Faulty variant: a line of blanks is not taken for an empty one.
vcsLineVoid(t, lno) == lineRunes(t, lno) = <<>>

vcsLineEmpty(t, lno) == \A i \in DOMAIN lineRunes(t, lno) : lineRunes(t, lno)[i] \in Blanks

csAt(t, lno, cno) ==
  IF vcsLineEmpty(t, lno) THEN [lno |-> lno, cno |-> 0, flag |-> "EMP"]
  ELSE [lno |-> lno, cno |-> Min({cno, lineLen(t, lno) - 1}), flag |-> "OK"]

csCh(t, c) == IF c.flag = "OK" THEN lineRunes(t, c.lno)[c.cno + 1] ELSE ""
csBlank(t, c) == c.flag = "OK" /\ csCh(t, c) \in Blanks
csGap(t, c) == c.flag \in {"EOL", "EMP"} \/ csBlank(t, c)

csNext(t, c) ==
  CASE c.flag \in {"EMP", "EOL"} ->
         IF c.lno = lineCount(t) THEN [c EXCEPT !.flag = "EOF"] ELSE csAt(t, c.lno + 1, 0)
    [] c.flag = "OK" ->
         IF c.cno = lineLen(t, c.lno) - 1 THEN [c EXCEPT !.flag = "EOL"]
         ELSE [c EXCEPT !.cno = @ + 1]
    [] OTHER -> c

csPrev(t, c) ==
  CASE c.flag \in {"EMP", "EOL"} ->
         IF c.lno = 1 THEN [c EXCEPT !.flag = "SOF"]
         ELSE csAt(t, c.lno - 1, lineLen(t, c.lno - 1))
    [] c.flag \in {"EOF", "OK"} ->
         IF c.cno > 0 THEN [c EXCEPT !.cno = @ - 1]
         ELSE [c EXCEPT !.flag = IF c.lno = 1 THEN "SOF" ELSE "EOL"]
    [] OTHER -> c

\* Stepping at least once, and on while a condition holds.
RECURSIVE csNextWhile(_, _, _)
csNextWhile(t, c, over) ==
  LET n == csNext(t, c)
      goOn == IF over = "gap" THEN csGap(t, n)
              ELSE n.flag = "OK" /\ csCh(t, n) \in Closers
  IN  IF goOn THEN csNextWhile(t, n, over) ELSE n

RECURSIVE csPrevWhile(_, _, _)
csPrevWhile(t, c, over) ==
  LET n == csPrev(t, c)
      goOn == CASE over = "gap" -> csGap(t, n)
                [] over = "eol" -> n.flag = "EOL"
                [] over = "text" -> n.flag = "OK" /\ ~csBlank(t, n)
                [] over = "space" -> n.flag = "EOL" \/ csBlank(t, n)
  IN  IF goOn THEN csPrevWhile(t, n, over) ELSE n

fblank(t, c) == csNextWhile(t, c, "gap")
bblank(t, c) == csPrevWhile(t, c, "gap")

sentenceResult(t, c) ==
  [Promoted(Pos(c.lno, IF c.flag = "EMP" \/ lineLen(t, c.lno) = 0 THEN 0
                       ELSE Min({c.cno, lineLen(t, c.lno) - 1})))
     EXCEPT !.endFlag = c.flag # "OK"]

\* ) : the scan for the end of a sentence.  state is "period" behind a full stop
\* and its closers, "blank" behind one blank more.
RECURSIVE SentenceScan(_, _, _, _, _)

FirstBehind(t, c) == IF csBlank(t, c) THEN fblank(t, c) ELSE c

SentenceStep(t, p, n, cnt, state) ==
  LET ch == csCh(t, n)
      gap == fblank(t, n)
  IN  CASE n.flag = "EOF" ->
             IF Pos(n.lno, n.cno) = p THEN Failed ELSE sentenceResult(t, n)
        [] n.flag = "EOL" /\ state = "none" -> SentenceScan(t, p, n, cnt, "none")
        [] n.flag = "EOL" /\ state # "none" ->
             IF cnt > 1 THEN SentenceScan(t, p, n, cnt - 1, "none")
             ELSE sentenceResult(t, FirstBehind(t, csNext(t, n)))
        [] n.flag = "EMP" ->   \* an empty line is two sentences
             IF cnt <= 2 THEN sentenceResult(t, IF cnt = 1 THEN n ELSE gap)
             ELSE SentenceScan(t, p, gap, cnt - 2, "none")
        [] n.flag = "OK" /\ (state = "blank" \/ (ch = "\t" /\ state = "period")) /\ ch \in Blanks ->
             IF cnt = 1 THEN sentenceResult(t, gap)
             ELSE SentenceScan(t, p, n, cnt - 1, "none")
        [] OTHER ->
             SentenceScan(t, p, n, cnt,
               IF ch \in {".", "?", "!"} \/ (ch \in Closers /\ state = "period") THEN "period"
               ELSE IF ch = " " /\ state = "period" THEN "blank" ELSE "none")

SentenceScan(t, p, c, cnt, state) == SentenceStep(t, p, csNext(t, c), cnt, state)

\* From a gap the text behind it is the first sentence on.
FromGap(t, p, behind, count) ==
  IF count > 1 THEN SentenceScan(t, p, behind, count - 1, "none")
  ELSE IF Pos(behind.lno, behind.cno) = p THEN Failed
  ELSE sentenceResult(t, behind)

sentenceFwd(t, p, count) ==
  LET c == csAt(t, p.line, p.col)
  IN  IF c.flag = "EMP" \/ csBlank(t, c) THEN FromGap(t, p, fblank(t, c), count)
      ELSE SentenceScan(t, p, c, count, "none")

\* ( : last holds when what lies behind could end a sentence.  A boundary that
\* only leads back to the start counts if an empty line is before it.
RECURSIVE SentenceBackScan(_, _, _, _, _)

SentenceBegin(t, onward) ==
  IF onward.flag # "OK" \/ csBlank(t, onward) THEN fblank(t, onward) ELSE onward

SentenceBackTo(t, p, n, begin, cnt) ==
  LET before == csPrevWhile(t, begin, "space")
  IN  IF Pos(begin.lno, begin.cno) # p THEN sentenceResult(t, begin)
      ELSE IF before.flag = "EMP" THEN sentenceResult(t, before)
      ELSE SentenceBackScan(t, p, csAt(t, n.lno, n.cno), cnt, FALSE)

SentenceBackStep(t, p, n, cnt, last) ==
  LET ch == csCh(t, n)
      stop == ch \in {".", "?", "!"}
  IN  CASE n.flag = "SOF" -> sentenceResult(t, n)
        [] n.flag = "EOL" -> SentenceBackScan(t, p, n, cnt, TRUE)
        [] n.flag = "EMP" /\ cnt > 1 -> SentenceBackScan(t, p, bblank(t, n), cnt - 1, FALSE)
        [] n.flag = "OK" /\ stop /\ last /\ cnt > 1 ->
             SentenceBackScan(t, p, n, cnt - 1, FALSE)
        [] n.flag = "OK" /\ ~(stop /\ last) ->
             SentenceBackScan(t, p, n, cnt, ch \in Blanks \cup Closers)
        [] OTHER -> SentenceBackTo(t, p, n, SentenceBegin(t, csNextWhile(t, n, "closers")), cnt)

SentenceBackScan(t, p, c, cnt, last) == SentenceBackStep(t, p, csPrev(t, c), cnt, last)

sentenceBack(t, p, count) ==
  LET c == csAt(t, p.line, p.col)
      from == IF c.flag = "EMP" THEN csPrevWhile(t, bblank(t, c), "eol")
              ELSE IF csBlank(t, c) THEN c
              ELSE csPrevWhile(t, c, "text")
  IN  IF p = FirstPlace THEN Failed ELSE SentenceBackScan(t, p, from, count, FALSE)

(***************************************************************************)
(* computeMotion.  A screen s has its lines, a cursor, the column that vertical *)
(* motions keep (desiredCol, desiredEOL), marks, and the last f F t T       *)
(* (findCmd, findChar).  H M L, which go by screen rows, are in Viewport.   *)
(***************************************************************************)
maintainedCol(s, lno) ==
  IF s.desiredEOL THEN Max({0, lineLen(s.lines, lno) - 1})
  ELSE colAtDisplay(s.lines, lno, s.desiredCol)

FirstOnLine(t, line, at) == Linewise(Pos(line, firstNonBlank(t, at)))

\* ^ stops on the last blank of a blank line.
CaretCol(t, lno) ==
  LET r == lineRunes(t, lno)
  IN  IF r # <<>> /\ firstNonBlank(t, lno) = 0 /\ r[1] \in Blanks
      THEN Len(r) - 1 ELSE firstNonBlank(t, lno)

MarkMotion(s, name, line) ==
  IF name \notin DOMAIN s.marks THEN Failed
  ELSE IF line
       THEN FirstOnLine(s.lines, s.marks[name].line, clampLine(s.lines, s.marks[name].line))
       ELSE Exclusive(s.marks[name])

\* The motions of one line and of whole lines.
LineMotion(s, key, count, explicit) ==
  LET t == s.lines
      cur == s.cursor
      eol == Min({cur.line + count - 1, lineCount(t)})
      vertical(line) == Linewise(Pos(line, maintainedCol(s, clampLine(t, line))))
  IN  CASE key = "h" -> Exclusive(Pos(cur.line, Max({0, cur.col - count})))
        [] key = "l" -> Exclusive(Pos(cur.line, Min({cur.col + count, lineLen(t, cur.line)})))
        [] key = "0" -> Exclusive(Pos(cur.line, 0))
        [] key = "^" -> Exclusive(Pos(cur.line, CaretCol(t, cur.line)))
        [] key = "|" -> Exclusive(Pos(cur.line, Max({0, count - 1})))
        [] key = "$" -> Inclusive(Pos(eol, Max({0, lineLen(t, eol) - 1})))
        [] key = "j" -> vertical(cur.line + count)
        [] key = "k" -> vertical(cur.line - count)
        [] key = "+" -> FirstOnLine(t, cur.line + count, cur.line + count)
        [] key = "-" -> FirstOnLine(t, cur.line - count, cur.line - count)
        [] key = "_" -> underscoreMotion(t, cur, count)
        [] key = "G" /\ explicit ->
             IF count > lineCount(t) THEN Failed
             ELSE FirstOnLine(t, count, clampLine(t, count))
        [] key = "G" /\ ~explicit -> FirstOnLine(t, lineCount(t), lineCount(t))

LineMotionKeys == {"h", "l", "0", "^", "|", "$", "j", "k", "+", "-", "_", "G"}

computeMotion(s, key, count, explicit, charArg) ==
  LET t == s.lines
      cur == s.cursor
  IN  CASE key \in LineMotionKeys -> LineMotion(s, key, count, explicit)
        [] key \in {"w", "W"} -> wordForward(t, cur, count, key = "W")
        [] key \in {"b", "B"} -> wordBack(t, cur, count, key = "B")
        [] key \in {"e", "E"} -> wordEnd(t, cur, count, key = "E")
        [] key \in {"f", "F", "t", "T"} -> findMotion(t, cur, key, charArg, count)
        [] key = ";" -> IF s.findCmd = "" THEN Failed
                        ELSE findMotion(t, cur, s.findCmd, s.findChar, count)
        [] key = "," -> IF s.findCmd = "" THEN Failed
                        ELSE findMotion(t, cur, reverseFind(s.findCmd), s.findChar, count)
        [] key = "%" -> matchMotion(t, cur)
        [] key = "(" -> sentenceBack(t, cur, count)
        [] key = ")" -> sentenceFwd(t, cur, count)
        [] key = "{" -> paragraphBack(t, cur, count)
        [] key = "}" -> paragraphFwd(t, cur, count)
        [] key = "]]" -> sectionFwd(t, cur, count)
        [] key = "[[" -> sectionBack(t, cur, count)
        [] key = "GRAVE" -> MarkMotion(s, charArg, FALSE)
        [] key = "QUOTE" -> MarkMotion(s, charArg, TRUE)

\* clampCursor: the last column the cursor may rest on depends on the mode.
clampCursor(t, p, inserting) ==
  LET line == clampLine(t, p.line)
      most == IF inserting THEN lineLen(t, line) ELSE Max({0, lineLen(t, line) - 1})
  IN  Pos(line, Max({0, Min({p.col, most})}))
=============================================================================
