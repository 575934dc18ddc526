--------------------------- MODULE CursorMotions ---------------------------
(***************************************************************************)
(* A cursor led through a text by motion keys (vimode.doMotion without an    *)
(* operator), and what the motions are for, stated without walking.         *)
(***************************************************************************)
EXTENDS Motions

CONSTANTS
  Texts,    \* the texts of the instance
  Keys,     \* the motion keys pressed
  Counts    \* the counts given

VARIABLES text, cursor, desiredCol, desiredEOL

vars == <<text, cursor, desiredCol, desiredEOL>>

Screen == [lines |-> text, cursor |-> cursor, desiredCol |-> desiredCol,
           desiredEOL |-> desiredEOL, marks |-> <<>>, findCmd |-> "", findChar |-> ""]

Init ==
  /\ text \in Texts
  /\ cursor = FirstPlace
  /\ desiredCol = 0 /\ desiredEOL = FALSE

\* Every key but j and k makes the column it comes to the one to keep, and $
\* the end of the line (finishCommand).  A key that fails rings the bell and
\* leaves the cursor where it is.
Move(key, count) ==
  LET m == computeMotion(Screen, key, count, TRUE, "")
  IN  /\ m.ok
      /\ cursor' = clampCursor(text, m.to, FALSE)
      /\ IF key \in {"j", "k"} THEN UNCHANGED <<desiredCol, desiredEOL>>
         ELSE /\ desiredCol' = CursorColumn(lineRunes(text, cursor'.line), cursor'.col)
              /\ desiredEOL' = (key = "$")
      /\ UNCHANGED text

Next == \E key \in Keys, count \in Counts : Move(key, count)

Spec == Init /\ [][Next]_vars

(***************************************************************************)
(* What the motions are for.                                                *)
(***************************************************************************)
\* The n-th of a set of places after p (or before it), or the end.
Nth(S, p, n) ==
  LET after == SetToSortSeq({q \in S : Before(p, q)}, LAMBDA a, b : Before(a, b))
  IN  IF n <= Len(after) THEN after[n] ELSE LastPlace(text)
NthBack(S, p, n) ==
  LET before == SetToSortSeq({q \in S : Before(q, p)}, LAMBDA a, b : Before(b, a))
  IN  IF n <= Len(before) THEN before[n] ELSE FirstPlace

\* Where words start and end: at a change of class within a line.
Class(p, big) == IF p.col < 0 THEN "nl" ELSE classOf(text, p, big)
WordStarts(big) ==
  {p \in Places(text) : InWord(text, p, big) /\ Class(Pos(p.line, p.col - 1), big) # Class(p, big)}
WordEnds(big) ==
  {p \in Places(text) : InWord(text, p, big) /\ Class(Pos(p.line, p.col + 1), big) # Class(p, big)}
EmptyLines == {Pos(l, 0) : l \in {k \in 1..lineCount(text) : lineLen(text, k) = 0}}

\* w, b and e go to the count-th start of a word (an empty line is one for w),
\* start before, and end, from any place and over any mixture of words, blanks,
\* punctuation and line ends, or to the end of the text.
WordsAgree ==
  \A n \in Counts, big \in BOOLEAN :
    /\ wordForward(text, cursor, n, big).to = Nth(WordStarts(big) \cup EmptyLines, cursor, n)
    /\ wordBack(text, cursor, n, big).to = NthBack(WordStarts(big), cursor, n)
    /\ wordEnd(text, cursor, n, big).to = Nth(WordEnds(big), cursor, n)

\* % from the place it leads to leads back to the bracket it started from, over
\* any nesting and on any number of lines.
MatchReturns ==
  LET m == matchMotion(text, cursor)
      start == Pos(cursor.line, Min(BracketCols(text, cursor)))
  IN  m.ok => matchMotion(text, m.to).ok /\ matchMotion(text, m.to).to = start

\* A sentence ends behind a full stop and its closers, at the end of a line or
\* before two blanks or a tab.  ( takes one blank, and a full stop with a closer
\* behind it whatever follows.
StopBehind(p, back) ==
  LET r == lineRunes(text, p.line)
      stops == {c \in 0..(p.col - 1) : r[c + 1] \in {".", "?", "!"}
                  /\ \A d \in (c + 1)..(p.col - 1) : r[d + 1] \in Closers}
      rest == SubSeq(r, p.col + 1, Len(r))
  IN  /\ stops # {}
      /\ \/ rest = <<>> \/ rest = <<" ">>
         \/ Len(rest) > 0 /\ (rest[1] = "\t" \/ (back /\ rest[1] = " "))
         \/ Len(rest) > 1 /\ rest[1] = " " /\ rest[2] \in Blanks
         \/ back /\ rest[1] \notin Closers /\ p.col - 1 \notin stops

\* Sentences start at the first text behind such an end, or behind a blank line.
Void(l) == \A i \in DOMAIN lineRunes(text, l) : lineRunes(text, l)[i] \in Blanks
Gap(p) == AtEnd(text, p) \/ Void(p.line) \/ runeAt(text, p) \in Blanks
SentenceStarts(back) ==
  {p \in Places(text) :
     /\ ~Gap(p)
     /\ \E q \in Places(text) :
          /\ ~Before(p, q)
          /\ StopBehind(q, back) \/ (Void(q.line) /\ Before(q, p))
          /\ \A r \in Places(text) : ~Before(r, q) /\ Before(r, p) => Gap(r)}

\* The cursor is on a full stop, or on a closer behind one.
OnStop ==
  LET r == lineRunes(text, cursor.line)
  IN  \E c \in 0..cursor.col : /\ r[c + 1] \in {".", "?", "!"}
                               /\ \A d \in (c + 1)..cursor.col : r[d + 1] \in Closers
CloserStarts == \E q \in SentenceStarts(TRUE) : runeAt(text, q) \in Closers

\* From text, ) never passes over the start of a sentence, and where ) or (
\* stops in text, and not at a boundary, a sentence starts.  (Historic vi does
\* otherwise from blanks, from a full stop itself and where a sentence starts
\* with a closing bracket, and so does this.)
SentencesAgree ==
  LET fwd == sentenceFwd(text, cursor, 1)
      back == sentenceBack(text, cursor, 1)
      after == {q \in SentenceStarts(FALSE) : Before(cursor, q)}
  IN  ~Gap(cursor) =>
        /\ (fwd.ok /\ ~OnStop) =>
             /\ \A q \in after : ~Before(q, fwd.to)
             /\ ~fwd.endFlag => fwd.to \in after
        /\ (back.ok /\ ~back.endFlag /\ ~CloserStarts) =>
             back.to \in SentenceStarts(TRUE) /\ Before(back.to, cursor)
=============================================================================
