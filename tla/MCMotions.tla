----------------------------- MODULE MCMotions -----------------------------
(***************************************************************************)
(* Bounded instance of the motions: every text of a few characters, cut     *)
(* into up to three lines in every way.                                     *)
(***************************************************************************)
EXTENDS CursorMotions

CONSTANTS WordChars, MatchChars, SentenceChars   \* how many characters a text has

\* The ways to cut a sequence of n characters into up to three lines.
Cuts(n) == {<<n>>} \cup {<<i, n - i>> : i \in 0..n}
           \cup {<<i, j, n - i - j>> : i, j \in 0..n} 
Valid(c) == \A i \in DOMAIN c : c[i] >= 0
CutInto(r, c) ==
  LET from(i) == IF i = 1 THEN 0 ELSE IF i = 2 THEN c[1] ELSE c[1] + c[2]
  IN  [i \in DOMAIN c |-> SubSeq(r, from(i) + 1, from(i) + c[i])]
TextsOver(alphabet, most) ==
  UNION {{CutInto(r, c) : r \in [1..n -> alphabet], c \in {d \in Cuts(n) : Valid(d)}}
         : n \in 0..most}
SmallTexts ==
  TextsOver({"a", ".", " "}, WordChars) \cup TextsOver({"(", ")", "a"}, MatchChars)
  \cup TextsOver({"a", ".", ")", " "}, SentenceChars)
=============================================================================
