------------------------------ MODULE Viewport ------------------------------
(***************************************************************************)
(* Which part of the text a screen shows (engine/screen.go, vi.go): paging,  *)
(* scrolling, placing a line (z), the motions over the screen (H M L), a     *)
(* change of size, and a host that scrolls and clicks.  After every key the  *)
(* cursor is brought back to where it may rest and into view.  The screen s  *)
(* is a view of Display with                                                 *)
(*   minMapRows   the rows the screen was made small to by z or the window   *)
(*                option; mapRows grows from there as the cursor goes down   *)
(*   window, winUserSet   the window option                                  *)
(*   defScroll    the count given to ^D or ^U, 0 for none                    *)
(*   desiredCol   the column j and k keep; $, which makes it the end of the  *)
(*                line, is in CursorMotions, so desiredEOL stays FALSE here  *)
(***************************************************************************)
EXTENDS Display

CONSTANTS
  Sizes,     \* the sizes of the screen, <<rows, cols>>
  Gutters,   \* the widths of the line number, 0 without
  Counts,    \* the counts given to commands
  Windows    \* the values the window option is set to, and the ones given to z

ASSUME ViewportAssumption ==
  /\ \A size \in Sizes : size[1] \in Nat \ {0} /\ size[2] \in Nat \ {0}
  /\ Gutters \subseteq Nat

VARIABLES
  s,       \* the screen
  freed    \* the host has scrolled, and no key has been pressed since

vars == <<s, freed>>

(***************************************************************************)
(* Rows of the screen (rowAddr): a line and which of its rows.              *)
(***************************************************************************)
screenLines(e, lno) == wrapRowsOf(e, lno)
Row(lno, sub) == [lno |-> lno, sub |-> sub]
RowNo(e, a) == RowsOf(e, 1, a.lno - 1) + a.sub + 1
RowAt(e, n) ==
  LET lno == Max({1} \cup {l \in 1..lineCount(e.lines) : RowsOf(e, 1, l - 1) < n})
      sub == n - RowsOf(e, 1, lno - 1) - 1
  IN  Row(lno, Max({0, Min({sub, screenLines(e, lno) - 1})}))

\* As far as there are rows.
advanceRows(e, a, n) == RowAt(e, RowNo(e, a) + n)
retreatRows(e, a, n) == RowAt(e, RowNo(e, a) - n)
Moved(e, a, b) == RowNo(e, b) - RowNo(e, a)
rowAfter(a, b) == a.lno > b.lno \/ (a.lno = b.lno /\ a.sub > b.sub)
TopRow(e) == Row(e.top, 0)

cursorRowAddr(e) ==
  LET start == DisplayCol(lineRunes(e.lines, e.cursor.line), e.cursor.col)
  IN  Row(e.cursor.line, Min({WrapCellPos(e, start).row, screenLines(e, e.cursor.line) - 1}))

rowStartCol(e, a) ==
  IF a.sub = 0 THEN 0 ELSE colAtDisplay(e.lines, a.lno, WrapRowStart(e, a.sub))

\* The first non-blank from a column on, or the last character.
nnbFrom(e, lno, from) ==
  LET r == lineRunes(e.lines, lno)
      text == {i \in DOMAIN r : i > from /\ r[i] \notin Blanks}
  IN  IF r = <<>> THEN 0 ELSE IF text = {} THEN Len(r) - 1 ELSE Min(text) - 1

(***************************************************************************)
(* The size of the map.                                                     *)
(***************************************************************************)
windowVal(e) == IF e.window <= 0 \/ e.window > e.rows THEN e.rows ELSE e.window
effectiveMapRows(e) == MapRows(e)
ResetMap(e) == [e EXCEPT !.mapRows = windowVal(e), !.minMapRows = windowVal(e)]

applyWindowOption(e) ==
  ResetMap(IF ~e.winUserSet \/ e.window <= 0 \/ e.window > e.rows
           THEN [e EXCEPT !.window = e.rows, !.winUserSet = FALSE] ELSE e)

halfPage(e) == IF e.defScroll > 0 THEN e.defScroll ELSE (e.rows + 1) \div 2
\* Faulty variant: pages do not overlap, and a line is lost between them.
pageOffsetApart(count, window) == count * window + 1

pageOffset(count, window) == Max({1, count * window - 2})

(***************************************************************************)
(* Bringing the cursor into view (scrollToCursor).                          *)
(***************************************************************************)
rowsBetween(e, a, b, cap) == Min({cap, RowsOf(e, a, b - 1)})

\* Faulty variant: the last line counts as shown when it begins on the screen.
bottomLineBegun(e, top) ==
  Max({top} \cup {l \in top..lineCount(e.lines) : RowsOf(e, top, l - 1) < effectiveMapRows(e)})

\* The last line shown whole, unless the first is too long for the map.
bottomLine(e, top) ==
  Max({top} \cup {l \in top..lineCount(e.lines) : RowsOf(e, top, l) <= effectiveMapRows(e)})

topForBottom(e, bottom) ==
  Min({bottom} \cup {l \in 1..bottom : RowsOf(e, l, bottom) <= effectiveMapRows(e)})

topForMiddle(e, target) ==
  Min({target} \cup {l \in 1..target : RowsOf(e, l, target - 1) <= effectiveMapRows(e) \div 2})

\* Near the edge the screen scrolls as little as it must, farther off to the
\* boundary of the text, or with the line in the middle.
scrollFull(e) ==
  LET c == e.cursor.line
      bottom == bottomLine(e, e.top)
      last == lineCount(e.lines)
      half == Max({1, e.rows \div 2})
      below == IF rowsBetween(e, bottom, c, half) < half THEN topForBottom(e, c)
               ELSE IF rowsBetween(e, c, last + 1, e.rows) < half THEN topForBottom(e, last)
               ELSE topForMiddle(e, c)
      above == IF rowsBetween(e, c, e.top, half) < half THEN c
               ELSE IF rowsBetween(e, 1, c, half) < half THEN 1
               ELSE topForMiddle(e, c)
  IN  CASE c > bottom -> [e EXCEPT !.top = below]
        [] c < e.top -> [e EXCEPT !.top = above]
        [] OTHER -> e

\* A small map grows until the cursor's line begins in it.
scrollSmall(e) ==
  LET need == RowsAbove(e, e.cursor.line) + 1
      full == [e EXCEPT !.mapRows = e.rows]
  IN  IF e.cursor.line < e.top THEN [e EXCEPT !.top = e.cursor.line]
      ELSE IF need <= effectiveMapRows(e) THEN e
      ELSE IF need <= e.rows THEN [e EXCEPT !.mapRows = need]
      ELSE [full EXCEPT !.top = Max({@, topForBottom(full, e.cursor.line)})]

scrollToCursor(e) ==
  LET t == [e EXCEPT !.top = Max({1, @})]
  IN  IF t.minMapRows < t.rows THEN scrollSmall(t) ELSE scrollFull(t)

(***************************************************************************)
(* Paging and scrolling (^F ^B ^D ^U ^E ^Y).                                *)
(***************************************************************************)
\* The first character of a continued row, or the first non-blank of a line.
Land(e, a) ==
  LET col == rowStartCol(e, a)
  IN  [e EXCEPT !.cursor = Pos(a.lno, IF col # 0 THEN col ELSE firstNonBlank(e.lines, a.lno))]

pageDown(e, offset, full) ==
  LET rest == effectiveMapRows(e) - 1
      walked == Moved(e, TopRow(e), advanceRows(e, TopRow(e), rest + offset))
      scroll == Max({0, walked - rest})
      newTop == advanceRows(e, TopRow(e), scroll)
      t == [e EXCEPT !.top = newTop.lno]
      lowest == advanceRows(t, TopRow(t), rest)
      target == advanceRows(t, cursorRowAddr(e), offset)
  IN  Land(t, IF full /\ scroll = offset THEN newTop
              ELSE IF rowAfter(target, lowest) THEN lowest ELSE target)

pageUp(e, offset, full) ==
  LET newTop == retreatRows(e, TopRow(e), offset)
      scroll == Moved(e, newTop, TopRow(e))
      t == [e EXCEPT !.top = newTop.lno]
      target == retreatRows(t, cursorRowAddr(e), offset)
  IN  Land(t, IF full /\ scroll = offset THEN advanceRows(t, newTop, effectiveMapRows(e) - 1)
              ELSE IF rowAfter(newTop, target) THEN newTop ELSE target)

scrollDown(e, n) ==
  LET top == Max({1, Min({e.top + n, topForBottom(e, lineCount(e.lines))})})
  IN  [e EXCEPT !.top = top,
                !.cursor = IF @.line >= top THEN @ ELSE Pos(top, maintainedCol(e, top))]

scrollUp(e, n) ==
  LET top == Max({1, e.top - n})
      lowest == bottomLine(e, top)
  IN  [e EXCEPT !.top = top,
                !.cursor = IF @.line <= lowest THEN @ ELSE Pos(lowest, maintainedCol(e, lowest))]

(***************************************************************************)
(* z: the line, the one of the cursor without a count, to the top, the       *)
(* middle or the bottom; with a size the map is made that small.             *)
(***************************************************************************)
screenPosition(e, typ, line, win) ==
  LET target == IF line = 0 THEN e.cursor.line ELSE Min({line, lineCount(e.lines)})
      t == [e EXCEPT !.cursor = clampCursor(e.lines, Pos(target, @.col), FALSE)]
      small == Min({win, windowVal(e)})
      whole == ResetMap(t)
  IN  IF win > 0 THEN [t EXCEPT !.minMapRows = small, !.mapRows = small, !.top = target]
      ELSE CASE typ = "CR" -> [whole EXCEPT !.top = target]
             [] typ = "+" -> IF line = 0 THEN pageDown(whole, effectiveMapRows(whole), TRUE)
                             ELSE [whole EXCEPT !.top = target]
             [] typ = "^" -> IF line = 0 THEN pageUp(whole, effectiveMapRows(whole), TRUE)
                             ELSE [whole EXCEPT !.top = topForBottom(whole, target)]
             [] typ = "." -> [whole EXCEPT !.top = topForMiddle(whole, target)]
             [] typ = "-" -> [whole EXCEPT !.top = topForBottom(whole, target)]

(***************************************************************************)
(* H, M and L: the rows of the screen from the top, the middle, and the      *)
(* bottom (computeMotion).                                                   *)
(***************************************************************************)
HighRow(e, count) == advanceRows(e, TopRow(e), Min({count, effectiveMapRows(e)}) - 1)

LowRow(e, count) ==
  LET a == retreatRows(e, advanceRows(e, TopRow(e), effectiveMapRows(e) - 1), count - 1)
  IN  IF a.lno < e.top THEN TopRow(e) ELSE a

MiddleRow(e) ==
  LET rest == effectiveMapRows(e) - 1
      filled == Moved(e, TopRow(e), advanceRows(e, TopRow(e), rest))
  IN  advanceRows(e, TopRow(e), IF filled = rest THEN rest \div 2 ELSE filled - filled \div 2)

ScreenMotion(e, key, count) ==
  LET a == CASE key = "H" -> HighRow(e, count) [] key = "L" -> LowRow(e, count)
             [] key = "M" -> MiddleRow(e)
  IN  Pos(a.lno, nnbFrom(e, a.lno, rowStartCol(e, a)))

(***************************************************************************)
(* Keys.  After each the cursor is clamped and brought into view (Input);    *)
(* all but ^E ^Y j k make the cursor's column the one to keep.               *)
(***************************************************************************)
clamped(e) == [e EXCEPT !.cursor = clampCursor(e.lines, @, FALSE)]
Column(e) ==
  [e EXCEPT !.desiredCol = CursorColumn(lineRunes(e.lines, e.cursor.line), e.cursor.col)]

Input(e) == s' = scrollToCursor(clamped(e)) /\ freed' = FALSE

FullPage(count) ==
  \/ Input(Column(pageDown(s, pageOffset(count, windowVal(s)), TRUE)))
  \/ Input(Column(pageUp(s, pageOffset(count, windowVal(s)), TRUE)))

\* A count is kept for the next time.
HalfPage ==
  \E count \in Counts \cup {0} :
    LET t == IF count = 0 THEN s ELSE [s EXCEPT !.defScroll = count]
    IN  \/ Input(Column(pageDown(t, halfPage(t), FALSE)))
        \/ Input(Column(pageUp(t, halfPage(t), FALSE)))

Roll ==
  \E count \in Counts : Input(scrollDown(s, count)) \/ Input(scrollUp(s, count))

Position ==
  \E line \in Counts \cup {0} :
    \/ \E typ \in {"CR", "+", "^", ".", "-"} : Input(Column(screenPosition(s, typ, line, 0)))
    \/ \E win \in Windows : Input(Column(screenPosition(s, "CR", line, win)))

ToScreenRow ==
  \E key \in {"H", "M", "L"}, count \in Counts :
    Input(Column([s EXCEPT !.cursor = ScreenMotion(s, key, count)]))

\* Motions over the text: up, down, to the start of the line, to a line.
Motion ==
  \E key \in {"j", "k", "0", "G"}, count \in Counts :
    LET screen == [marks |-> <<>>, findCmd |-> "", findChar |-> ""] @@ s
        m == computeMotion(screen, key, count, TRUE, "")
        t == [s EXCEPT !.cursor = IF m.ok THEN m.to ELSE @]
    IN  Input(IF m.ok /\ key \in {"j", "k"} THEN t ELSE Column(t))

(***************************************************************************)
(* The size of the screen, the window option, and a host's mouse.           *)
(***************************************************************************)
Sized(e, size) == applyWindowOption([e EXCEPT !.rows = size[1], !.cols = size[2], !.defScroll = 0])

Resize ==
  \E size \in Sizes :
    s' = scrollToCursor(clamped(Sized(s, size))) /\ freed' = FALSE

setWindow ==
  \E w \in Windows :
    LET t == [s EXCEPT !.window = Max({1, Min({w, s.rows})}), !.winUserSet = TRUE]
    IN  s' = scrollToCursor(ResetMap(t)) /\ freed' = FALSE

\* The host scrolls without the cursor.
ScrollLines ==
  \E delta \in {-1, 1} :
    /\ s' = [s EXCEPT !.top = Min({Max({1, @ + delta}), Len(s.lines)})]
    /\ freed' = TRUE

\* A click on a cell; the column to keep stays what it was.
MoveCursorTo ==
  \E x \in 0..(s.cols - 1), y \in 0..(s.rows - 1) :
    LET click == ScreenToBuffer(s, x, y)
    IN  /\ click.ok
        /\ s' = scrollToCursor(clamped([s EXCEPT !.cursor = click.at]))
        /\ freed' = FALSE

newScreen(t, size, g) ==
  [lines |-> t, rows |-> 0, cols |-> 0, gutter |-> g, top |-> 1, cursor |-> FirstPlace,
   mapRows |-> 0, minMapRows |-> 0, window |-> 0, winUserSet |-> FALSE, defScroll |-> 0,
   desiredCol |-> 0, desiredEOL |-> FALSE]

Init ==
  /\ \E t \in Texts, size \in Sizes, g \in Gutters : s = Sized(newScreen(t, size, g), size)
  /\ freed = FALSE

Next ==
  \/ (\E count \in Counts : FullPage(count)) \/ HalfPage \/ Roll \/ Position \/ ToScreenRow \/ Motion
  \/ Resize \/ setWindow \/ ScrollLines \/ MoveCursorTo

Spec == Init /\ [][Next]_vars

-----------------------------------------------------------------------------
(***************************************************************************)
(* Properties.                                                              *)
(***************************************************************************)
\* A line of at most half the map, so that one placed in the middle fits.
Short(lno) == 2 * wrapRowsOf(s, lno) <= MapRows(s) + 1
WholeMap == s.minMapRows = s.rows

\* The cursor is on the screen after every key, on the last column of its
\* character as painted: the rows reckoned by division where it is scrolled and
\* placed are the rows painted by the loops (scrollToCursor, placeCursor,
\* composeEditor).  In a small map only the first row of its line is sure to be.
CursorShown ==
  LET r == lineRunes(s.lines, s.cursor.line)
      at == placeCursor(s)
  IN  ~freed =>
        /\ s.top <= s.cursor.line /\ RowsAbove(s, s.cursor.line) < MapRows(s)
        /\ (WholeMap /\ Short(s.cursor.line)) => at # Hidden
        /\ (at # Hidden /\ r # <<>>) =>
             \E c \in Cells(s) : /\ c.x = at.x /\ c.y = at.y
                                 /\ c.line = s.cursor.line /\ c.dcol = CursorColumn(r, s.cursor.col)

\* A click on a cell finds the character painted there, and a character is
\* looked for on the cell it is painted on (Locate, CellOf: "the inverse of
\* Locate").  The columns of the line number cannot be clicked.
MouseAgrees ==
  \A c \in Cells(s) :
    LET r == lineRunes(s.lines, c.line)
        at == Pos(c.line, caretRuneIndex(r, c.dcol))
    IN  /\ Locate(s, c.x, c.y) = at
        /\ c.x >= s.gutter => ScreenToBuffer(s, c.x, c.y).ok
        /\ DisplayCol(r, at.col) = c.dcol => CellOf(s, at) = [x |-> c.x, y |-> c.y]

\* A page down or up (^F, ^B) leaves no row of the text unseen: what is shown
\* before and after overlaps or meets (pageOffset, pageDown, pageUp), also where
\* the top of a page falls into a wrapped line.
FirstRow(v) == RowNo(v, TopRow(v))
LastRow(v) == FirstRow(v) + Len(Painted(v)) - 1
PagesMeet ==
  [][FullPage(1) /\ s.mapRows = windowVal(s) /\ ~freed =>
       FirstRow(s') <= LastRow(s) + 1 /\ FirstRow(s) <= LastRow(s') + 1]_vars
=============================================================================
