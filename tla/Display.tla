------------------------------- MODULE Display -------------------------------
(***************************************************************************)
(* How a screen shows its text (engine/display.go, engine/view.go): lines    *)
(* wrap over rows, the first of which starts behind the line number.  The    *)
(* frontends paint with loops over cells (frontend/grid, frontend/tcell);    *)
(* the engine and the mouse reckon with divisions.  A view v is a record of  *)
(*   lines, top, cursor      the text, the first line shown, the cursor      *)
(*   rows, cols, mapRows     the size of the screen, and the rows in use     *)
(*   gutter                  the columns of the line number, 0 without       *)
(***************************************************************************)
EXTENDS Motions

CONSTANT Texts   \* the texts shown

\* The columns of a line as shown: list mode ends it with a $.
LineWidth(r) == DisplayCol(r, Len(r)) + (IF List THEN 1 ELSE 0)
Widths == [r \in {<<>>} \cup UNION {Range(t) : t \in Texts} |-> LineWidth(r)]
displayWidth(v, lno) == Widths[lineRunes(v.lines, lno)]

(***************************************************************************)
(* Wrapping by division (WrapRowCount, WrapCellPos, WrapRowStart).          *)
(***************************************************************************)
\* The gutter leaves a column for text.
Inset(v) == Min({v.gutter, v.cols - 1})

\* Faulty variant: the gutter is not counted.
wrapRowsOfText(v, lno) == Max({1, (displayWidth(v, lno) + v.cols - 1) \div v.cols})

wrapRowsOf(v, lno) ==
  IF displayWidth(v, lno) = 0 THEN 1
  ELSE (Inset(v) + displayWidth(v, lno) + v.cols - 1) \div v.cols

WrapCellPos(v, dcol) ==
  [row |-> (Inset(v) + dcol) \div v.cols, x |-> (Inset(v) + dcol) % v.cols]

WrapRowStart(v, row) == IF row = 0 THEN 0 ELSE row * v.cols - Inset(v)

MapRows(v) == IF v.mapRows <= 0 \/ v.mapRows > v.rows THEN v.rows ELSE v.mapRows

\* The rows of lines a to b, and those from the top of the screen to a line.
RowsOf(v, a, b) ==
  LET sum[l \in (a - 1)..b] == IF l < a THEN 0 ELSE sum[l - 1] + wrapRowsOf(v, l)
  IN  IF b < a THEN 0 ELSE sum[b]
RowsAbove(v, lno) == RowsOf(v, v.top, lno - 1)

(***************************************************************************)
(* Painting (composeEditor, composeScreen, paintScreen): a row shows the     *)
(* columns from `from` on, as many as there is room for, from x on.          *)
(***************************************************************************)
LineRows(v, lno) ==
  LET width == displayWidth(v, lno)
      rest[i \in 0..width] ==
        IF i = width THEN <<>>
        ELSE <<[line |-> lno, from |-> i, x |-> 0]>> \o rest[Min({i + v.cols, width})]
  IN  <<[line |-> lno, from |-> 0, x |-> v.gutter]>>
        \o rest[Min({Max({v.cols - v.gutter, 1}), width})]

Painted(v) ==
  LET all == FlattenSeq([i \in 1..(lineCount(v.lines) - v.top + 1) |-> LineRows(v, v.top + i - 1)])
  IN  SubSeq(all, 1, Min({MapRows(v), Len(all)}))

\* The cells with text on them, each with the line and display column it shows.
Cells(v) ==
  LET rows == Painted(v)
      Text(row, y) == {[x |-> row.x + i, y |-> y - 1, line |-> row.line, dcol |-> row.from + i] :
                         i \in 0..(Min({displayWidth(v, row.line) - row.from, v.cols - row.x}) - 1)}
  IN  UNION {Text(rows[y], y) : y \in DOMAIN rows}

(***************************************************************************)
(* The cursor (placeCursor) and the mouse (Locate, CellOf).                  *)
(***************************************************************************)
Hidden == [x |-> -1, y |-> -1]

placeCursor(v) ==
  LET cell == WrapCellPos(v, CursorColumn(lineRunes(v.lines, v.cursor.line), v.cursor.col))
      y == RowsAbove(v, v.cursor.line) + cell.row
  IN  IF v.cursor.line < v.top \/ y >= MapRows(v) THEN Hidden ELSE [x |-> cell.x, y |-> y]

\* The character whose columns hold dcol, or the place behind the last.
caretRuneIndex(r, dcol) ==
  LET over == {i \in DOMAIN r : DisplayCol(r, i) > dcol}
  IN  IF over = {} THEN Len(r) ELSE Min(over) - 1

\* Below the last line is the end of the text.
Locate(v, x, y) ==
  LET row == Max({0, Min({y, v.rows - 1})})
      lines == {l \in v.top..lineCount(v.lines) :
                  RowsAbove(v, l) <= row /\ row < RowsAbove(v, l) + wrapRowsOf(v, l)}
      lno == CHOOSE l \in lines : TRUE
      seg == row - RowsAbove(v, lno)
      off == IF seg = 0 THEN x - v.gutter ELSE x
  IN  IF lines = {} THEN LastPlace(v.lines)
      ELSE Pos(lno, caretRuneIndex(lineRunes(v.lines, lno), WrapRowStart(v, seg) + off))

CellOf(v, p) ==
  LET cell == WrapCellPos(v, DisplayCol(lineRunes(v.lines, p.line), p.col))
      y == RowsAbove(v, p.line) + cell.row
  IN  IF p.line < v.top \/ y >= v.rows THEN Hidden ELSE [x |-> cell.x, y |-> y]

\* What a click on a row hits.  A line that begins in the map is taken to be
\* shown to its end.
editorRowKindAt(v, y) ==
  LET begun == {l \in v.top..lineCount(v.lines) : RowsAbove(v, l) < MapRows(v)}
  IN  IF y >= v.rows THEN "status"
      ELSE IF \E l \in begun : y < RowsAbove(v, l + 1) THEN "buffer"
      ELSE IF y < MapRows(v) THEN "tilde" ELSE "blank"

\* A click selects text unless it hits the columns of the gutter, on any row.
ScreenToBuffer(v, x, y) ==
  [ok |-> y >= 0 /\ x >= v.gutter /\ editorRowKindAt(v, y) = "buffer", at |-> Locate(v, x, y)]
=============================================================================
