----------------------------- MODULE LineBuffer -----------------------------
(***************************************************************************)
(* What a line store promises (the LineStore interface of                   *)
(* engine/buffer/linestore.go), as a machine: a sequence of lines, edited   *)
(* by line number, and the line given to whoever asked last.                *)
(***************************************************************************)
EXTENDS LineStore

CONSTANTS
  LineNo,  \* the line numbers callers give
  Edited   \* the lines they write

VARIABLES
  lines,    \* the buffer
  answer    \* the line Get returned last

lvars == <<lines, answer>>

LInit == lines \in Buffer /\ answer = Empty

LGet == \E lno \in LineNo : answer' = Get(lines, lno) /\ UNCHANGED lines

LSet ==
  \E lno \in LineNo, line \in Edited : lines' = SetLine(lines, lno, line) /\ UNCHANGED answer

LInsert ==
  \E lno \in LineNo, line \in Edited : lines' = InsertLine(lines, lno, line) /\ UNCHANGED answer

LDelete == \E lno \in LineNo : lines' = DeleteLine(lines, lno) /\ UNCHANGED answer

LNext == LGet \/ LSet \/ LInsert \/ LDelete

LSpec == LInit /\ [][LNext]_lvars
=============================================================================
