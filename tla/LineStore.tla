------------------------------ MODULE LineStore ------------------------------
(***************************************************************************)
(* The line store of a buffer (engine/buffer): a sequence of lines numbered *)
(* from 1.  The operators are the LineStore interface as its reference      *)
(* implementation, buffer.Mem, realises it; an address outside the buffer   *)
(* is accepted by every operation: Set and Delete ignore it, Insert moves   *)
(* it to the nearest legal position.                                        *)
(***************************************************************************)
EXTENDS Integers, Sequences, SequencesExt

CONSTANTS
  Line,   \* the contents a line can have
  Empty   \* the line without characters

ASSUME LineAssumption == Empty \in Line

Buffer == Seq(Line)

InRange(s, lno) == lno \in 1..Len(s)

\* The content of a line; reading outside the buffer gives no characters.
Get(s, lno) == IF InRange(s, lno) THEN s[lno] ELSE Empty

SetLine(s, lno, line) ==
  IF InRange(s, lno) THEN ReplaceAt(s, lno, line) ELSE s

\* The position at which an insertion at lno really happens.
Clamp(s, lno) ==
  IF lno < 1 THEN 1 ELSE IF lno > Len(s) + 1 THEN Len(s) + 1 ELSE lno

InsertLine(s, lno, line) == InsertAt(s, Clamp(s, lno), line)

DeleteLine(s, lno) == IF InRange(s, lno) THEN RemoveAt(s, lno) ELSE s
=============================================================================
