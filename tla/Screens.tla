------------------------------- MODULE Screens -------------------------------
(***************************************************************************)
(* Split screens: splitting, closing, backgrounding and resizing them, the  *)
(* dividers a GUI drags, and the layout after the terminal has changed its  *)
(* size (engine/split.go, screencmds.go, gui.go, engine.go, cedit.go).      *)
(*                                                                         *)
(* A screen has a span of rows and one of columns.  Behind the last text    *)
(* row comes its status row, behind the last column a divider, so a screen  *)
(* takes len + 1 of each; the divider of the rightmost screens lies just    *)
(* outside of the terminal.                                                 *)
(***************************************************************************)
EXTENDS Integers, Sequences, FiniteSets, SequencesExt, FiniteSetsExt

CONSTANTS
  Screen,     \* the screens there may be at a time
  None,       \* no screen
  Sizes,      \* the sizes the terminal may take
  MinCols,    \* minScreenCols, 20 in the code
  CclRows,    \* the most rows of a command line window, 6 in the code
  Deltas      \* by how much a screen is resized or a divider dragged

ASSUME ScreensAssumption ==
  /\ None \notin Screen
  /\ Sizes # {} /\ Sizes \subseteq [h : Nat \ {0, 1}, w : Nat \ {0}]
  /\ MinCols \in Nat \ {0} /\ CclRows \in Nat \ {0, 1}
  /\ Deltas \subseteq Int \ {0}

VARIABLES
  screens,    \* the displayed screens, in display order
  bg,         \* the background screens
  scr,        \* the active one
  geo,        \* screen -> its spans
  term,       \* the size of the terminal
  comedit,    \* the command line windows
  cclParent   \* the screen that opened the latest of them

svars == <<screens, bg, scr, geo, term, comedit, cclParent>>

Axis == {"row", "col"}
Other(ax) == IF ax = "row" THEN "col" ELSE "row"
Span == [off : Int, len : Int]
Rect == [Axis -> Span]

Displayed == ToSet(screens)
Live == Displayed \cup ToSet(bg)

\* What a background screen had is not read again.
Nowhere == [ax \in Axis |-> [off |-> 0, len |-> 0]]

STypeOK ==
  /\ screens \in Seq(Screen) /\ bg \in Seq(Screen)
  /\ scr \in Displayed
  /\ geo \in [Screen -> Rect]
  /\ \A s \in Screen \ Displayed : geo[s] = Nowhere
  /\ term \in Sizes
  /\ comedit \subseteq Live
  /\ cclParent \in Screen \cup {None}

-----------------------------------------------------------------------------
(***************************************************************************)
(* Spans and borders.                                                       *)
(***************************************************************************)

\* The row of the status line or the column of the divider.
Border(g, ax) == g[ax].off + g[ax].len
After(g, ax) == Border(g, ax) + 1

Overlap(g, g2, ax) == g[ax].off < After(g2, ax) /\ g2[ax].off < After(g, ax)

\* Does g2 begin where g ends, over the whole of their common border?
Adjoins(g, g2, ax) == g[Other(ax)] = g2[Other(ax)] /\ After(g, ax) = g2[ax].off

Preceding(s, ax) == {t \in Displayed \ {s} : Adjoins(geo[t], geo[s], ax)}
Following(s, ax) == {t \in Displayed \ {s} : Adjoins(geo[s], geo[t], ax)}

\* Of two displayed screens the upper one comes first, of two at the same
\* height the left one.
Before(s, t, g) ==
  \/ g[s]["row"].off < g[t]["row"].off
  \/ /\ g[s]["row"].off = g[t]["row"].off
     /\ g[s]["col"].off < g[t]["col"].off

\* In a sorted list, s goes behind those it does not come before.
Placed(list, s, g) ==
  InsertAt(list, Cardinality({i \in DOMAIN list : ~Before(s, list[i], g)}) + 1, s)

\* The sort of the list, which is stable.
InOrder(seq, g) ==
  LET sorted[i \in 0..Len(seq)] ==
        IF i = 0 THEN <<>> ELSE Placed(sorted[i - 1], seq[i], g)
  IN  sorted[Len(seq)]

\* The border between the screens before and after it moves by d.
MoveBorder(before, after, ax, d) ==
  [s \in Screen |->
     IF s \in before THEN [geo[s] EXCEPT ![ax].len = @ + d]
     ELSE IF s \in after THEN [geo[s] EXCEPT ![ax].off = @ + d, ![ax].len = @ - d]
     ELSE geo[s]]

MinLen(ax) == IF ax = "row" THEN 1 ELSE MinCols

-----------------------------------------------------------------------------
(***************************************************************************)
(* The terminal changes its size.                                           *)
(***************************************************************************)

Height(s) == After(geo[s], "row") - geo[s]["row"].off
Place(list, s) == CHOOSE i \in DOMAIN list : list[i] = s

OldHeight(list) == Max({0} \cup {After(geo[s], "row") : s \in ToSet(list)})
OldWidth(list) == Max({0} \cup {Border(geo[s], "col") : s \in ToSet(list)})

\* Where a border goes, rounded to the nearest.
MapRow(b, list, size) == (b * size.h + OldHeight(list) \div 2) \div OldHeight(list)
MapCol(b, list, size) == (b * size.w + OldWidth(list) \div 2) \div OldWidth(list)

Scaled(g, list, size) ==
  LET top == MapRow(g["row"].off, list, size)
      bottom == MapRow(After(g, "row"), list, size)
      left == IF g["col"].off > 0 THEN MapCol(g["col"].off - 1, list, size) + 1 ELSE 0
      right == IF Border(g, "col") < OldWidth(list)
                 THEN MapCol(Border(g, "col"), list, size) ELSE size.w
  IN [ax \in Axis |-> IF ax = "row" THEN [off |-> top, len |-> bottom - top - 1]
                                    ELSE [off |-> left, len |-> right - left]]

Scalable(list, size) ==
  /\ OldHeight(list) > 0 /\ OldWidth(list) > 0
  /\ \A s \in ToSet(list), ax \in Axis : Scaled(geo[s], list, size)[ax].len >= 1

\* The rows of all screens, the divisor of their shares.
TotalHeight(list) ==
  LET sum[i \in 0..Len(list)] == IF i = 0 THEN 0 ELSE sum[i - 1] + Height(list[i])
  IN  Max({1, sum[Len(list)]})

\* The fallback puts the screens on top of each other, as high in proportion
\* as they were, and at least two rows: the i-th ends at StackEnd(list, size)[i].
StackEnd(list, size) ==
  LET n == Len(list)
      End[i \in 0..n] ==
        IF i = 0 THEN 0
        ELSE LET share == IF i = n THEN size.h - End[n - 1]
                          ELSE (Height(list[i]) * size.h) \div TotalHeight(list)
             IN End[i - 1] + Max({share, 2})
  IN End

relayoutStack(list, size) ==
  LET End == StackEnd(list, size)
      Top(s) == End[Place(list, s) - 1]
      Bottom(s) == End[Place(list, s)]
  IN [s \in ToSet(list) |->
        [ax \in Axis |->
           IF ax = "row" THEN [off |-> Top(s), len |-> Bottom(s) - Top(s) - 1]
                         ELSE [off |-> 0, len |-> size.w]]]

relayout(list, size) ==
  IF Scalable(list, size)
    THEN [s \in ToSet(list) |-> Scaled(geo[s], list, size)]
    ELSE relayoutStack(list, size)

\* The layout where every screen not in it is nowhere.
Layout(rects) ==
  [s \in Screen |-> IF s \in DOMAIN rects THEN rects[s] ELSE Nowhere]

Whole(size) ==
  [ax \in Axis |-> [off |-> 0, len |-> IF ax = "row" THEN size.h - 1 ELSE size.w]]

Resize(size) ==
  /\ term' = size
  /\ geo' = IF Len(screens) = 1 THEN [geo EXCEPT ![scr] = Whole(size)]
            ELSE Layout(relayout(screens, size))
  /\ UNCHANGED <<screens, bg, scr, comedit, cclParent>>

SInit ==
  \E s \in Screen, size \in Sizes :
    /\ screens = <<s>> /\ bg = <<>> /\ scr = s
    /\ geo = [t \in Screen |-> IF t = s THEN Whole(size) ELSE Nowhere]
    /\ term = size
    /\ comedit = {} /\ cclParent = None

-----------------------------------------------------------------------------
(***************************************************************************)
(* Splitting.                                                               *)
(***************************************************************************)

\* The active screen keeps one part of its span, the new one gets the other.
Divide(ns, ax, kept, given) ==
  /\ geo' = [geo EXCEPT ![scr][ax] = kept,
                        ![ns] = [geo[scr] EXCEPT ![ax] = given]]
  /\ screens' = InOrder(Append(screens, ns), geo')
  /\ scr' = ns

\* The new screen takes the top if the cursor is in the lower half, the
\* bottom otherwise; a command line window always takes the bottom.
vsSplit(ns, up, ccl) ==
  LET old == geo[scr]["row"]
      rows == old.len + 1
      half == IF ccl THEN Min({rows \div 2, CclRows}) ELSE rows \div 2
      upper == [off |-> old.off, len |-> rows - half - 1]
      lower == [off |-> old.off + rows - half, len |-> half - 1]
  IN /\ rows >= 4
     /\ IF up THEN Divide(ns, "row", lower, upper) ELSE Divide(ns, "row", upper, lower)

vsplitVert(ns) ==
  LET old == geo[scr]["col"]
      half == old.len \div 2
  IN /\ half > MinCols
     /\ Divide(ns, "col", [off |-> old.off, len |-> half],
               [off |-> old.off + half + 1, len |-> old.len - half - 1])

\* :E, :N, :P and :Vi with the splitting of rows, :vsplit with that of columns.
editNewScreen(ns, ax, up) ==
  /\ ns \notin Live
  /\ IF ax = "row" THEN vsSplit(ns, up, FALSE) ELSE vsplitVert(ns)
  /\ UNCHANGED <<bg, term, comedit, cclParent>>

ceditOpen(ns) ==
  /\ ns \notin Live
  /\ vsSplit(ns, FALSE, TRUE)
  /\ comedit' = comedit \cup {ns}
  /\ cclParent' = scr
  /\ UNCHANGED <<bg, term>>

-----------------------------------------------------------------------------
(***************************************************************************)
(* Closing and backgrounding.                                               *)
(***************************************************************************)

\* Who takes the space of s: the screen on the left, on the right, above or
\* below, the first there is.
Heirs(s) ==
  IF Preceding(s, "col") # {} THEN Preceding(s, "col")
  ELSE IF Following(s, "col") # {} THEN Following(s, "col")
  ELSE IF Preceding(s, "row") # {} THEN Preceding(s, "row")
  ELSE Following(s, "row")

\* Faulty variant: the status row of the closed screen is forgotten.
JoinedShort(sp, sp2) ==
  IF sp = sp2 THEN sp
  ELSE [off |-> Min({sp.off, sp2.off}), len |-> sp.len + sp2.len]

\* Two spans with a border between them become one.
Joined(sp, sp2) ==
  IF sp = sp2 THEN sp
  ELSE [off |-> Min({sp.off, sp2.off}), len |-> sp.len + sp2.len + 1]

\* An heir takes the space and is active from now on.  Without one the others
\* are laid out anew, and the screen that follows in the list is active.
discardCurrentScreen(preferred) ==
  LET rest == RemoveAt(screens, Place(screens, scr))
      Focus(t) == IF preferred \in ToSet(rest) THEN preferred ELSE t
  IN
  /\ Len(screens) > 1
  /\ screens' = rest
  /\ IF Heirs(scr) # {}
       THEN \E t \in Heirs(scr) :
              /\ geo' = [geo EXCEPT ![scr] = Nowhere,
                           ![t] = [ax \in Axis |-> Joined(geo[t][ax], geo[scr][ax])]]
              /\ scr' = Focus(t)
       ELSE /\ geo' = Layout(relayout(rest, term))
            /\ scr' = Focus(rest[Min({Place(screens, scr), Len(rest)})])

\* What was closed is found nowhere any more.
Forget(s) ==
  /\ comedit' = comedit \ {s}
  /\ cclParent' = IF cclParent = s THEN None ELSE cclParent

\* :q and the like; of the last screen, it ends the editor.
finishQuit ==
  /\ scr \notin comedit
  /\ discardCurrentScreen(None)
  /\ Forget(scr)
  /\ UNCHANGED <<bg, term>>

\* <CR> and :q in a command line window.
ceditClose ==
  /\ scr \in comedit
  /\ cclParent' = None
  /\ \/ /\ discardCurrentScreen(cclParent)
        /\ comedit' = comedit \ {scr}
     \/ /\ Len(screens) = 1
        /\ UNCHANGED <<screens, scr, geo, comedit>>
  /\ UNCHANGED <<bg, term>>

exBg ==
  /\ discardCurrentScreen(None)
  /\ bg' = Append(bg, scr)
  /\ UNCHANGED <<term, comedit, cclParent>>

\* Faulty variant: the screen stays in the queue.
takeBgKeeps(i) == bg

takeBg(i) == RemoveAt(bg, i)

\* Faulty variant: the focus stays where it was.
exFgUnfocused(i) ==
  LET nsp == bg[i]
      swapped == [geo EXCEPT ![scr] = Nowhere, ![nsp] = geo[scr]]
  IN
  /\ bg' = Append(takeBg(i), scr)
  /\ geo' = swapped
  /\ screens' = InOrder(ReplaceAll(screens, scr, nsp), swapped)
  /\ UNCHANGED <<scr, term, comedit, cclParent>>

\* :fg: the background screen, found by its name or the first one, takes the
\* place of the active screen.
exFg(i) ==
  LET nsp == bg[i]
      swapped == [geo EXCEPT ![scr] = Nowhere, ![nsp] = geo[scr]]
  IN
  /\ bg' = Append(takeBg(i), scr)
  /\ geo' = swapped
  /\ screens' = InOrder(ReplaceAll(screens, scr, nsp), swapped)
  /\ scr' = nsp
  /\ UNCHANGED <<term, comedit, cclParent>>

\* Faulty variant: it is not put back if there is no room.
fgNewScreenDrops(i, up) ==
  LET nsp == bg[i] IN
  \/ /\ bg' = takeBg(i)
     /\ vsSplit(nsp, up, FALSE)
     /\ UNCHANGED <<term, comedit, cclParent>>
  \/ /\ geo[scr]["row"].len + 1 < 4
     /\ bg' = takeBg(i)
     /\ UNCHANGED <<screens, scr, geo, term, comedit, cclParent>>

\* :Fg: it gets a screen of its own.  If there is no room it goes to the end
\* of the queue.
fgNewScreen(i, up) ==
  LET nsp == bg[i] IN
  \/ /\ bg' = takeBg(i)
     /\ vsSplit(nsp, up, FALSE)
     /\ UNCHANGED <<term, comedit, cclParent>>
  \/ /\ geo[scr]["row"].len + 1 < 4
     /\ bg' = Append(takeBg(i), nsp)
     /\ UNCHANGED <<screens, scr, geo, term, comedit, cclParent>>

-----------------------------------------------------------------------------
(***************************************************************************)
(* Moving the focus and the borders.                                        *)
(***************************************************************************)

\* ^W, which does not leave a command line window.
switchScreen ==
  /\ scr \notin comedit
  /\ Len(screens) > 1
  /\ scr' = screens[(Place(screens, scr) % Len(screens)) + 1]
  /\ UNCHANGED <<screens, bg, geo, term, comedit, cclParent>>

\* A click.
FocusPane(s) ==
  /\ scr' = s
  /\ UNCHANGED <<screens, bg, geo, term, comedit, cclParent>>

Moved(before, after, ax, d) ==
  /\ geo' = MoveBorder(before, after, ax, d)
  /\ UNCHANGED <<screens, bg, scr, term, comedit, cclParent>>

\* :resize, with a number of rows turned into a difference to it.  A screen
\* grows into the one below if that keeps a row, else into the one above; it
\* shrinks in favour of the one above, else of the one below.
resizeScreen(d) ==
  LET above == Preceding(scr, "row")
      below == Following(scr, "row")
      Gives(t) == geo[t]["row"].len >= 1 + d
  IN \/ /\ d > 0
        /\ \/ \E t \in below : Gives(t) /\ Moved({scr}, {t}, "row", d)
           \/ /\ \A t \in below : ~Gives(t)
              /\ \E t \in above : Gives(t) /\ Moved({t}, {scr}, "row", -d)
     \/ /\ d < 0
        /\ geo[scr]["row"].len >= 1 - d
        /\ \/ \E t \in above : Moved({t}, {scr}, "row", -d)
           \/ above = {} /\ \E t \in below : Moved({scr}, {t}, "row", d)

\* The screens on the divider of s that move with it: those that touch it and
\* are connected to s along it, by the spans of screens on either side.
Segment(s, ax) ==
  LET x == Border(geo[s], ax)
      touching == {t \in Displayed : Border(geo[t], ax) = x \/ geo[t][ax].off = x + 1}
      Closed(S) == \A t \in touching \ S, u \in S : ~Overlap(geo[t], geo[u], Other(ax))
  IN {t \in touching : \A S \in SUBSET touching : s \in S /\ Closed(S) => t \in S}

\* How far a divider moves: every screen that shrinks keeps its minimum.
Clamped(shrinking, ax, d) ==
  LET room == {geo[t][ax].len - MinLen(ax) : t \in shrinking}
  IN IF d > 0 THEN Min(room \cup {d}) ELSE -Min(room \cup {-d})

DragDivider(s, ax, d) ==
  LET x == Border(geo[s], ax)
      before == {t \in Segment(s, ax) : Border(geo[t], ax) = x}
      after == {t \in Segment(s, ax) : geo[t][ax].off = x + 1}
      by == Clamped(IF d > 0 THEN after ELSE before, ax, d)
  IN /\ after # {}
     /\ Moved(before, after, ax, by)

SNext ==
  \/ \E size \in Sizes : Resize(size)
  \/ \E ns \in Screen :
       \/ \E ax \in Axis, up \in BOOLEAN : editNewScreen(ns, ax, up)
       \/ ceditOpen(ns)
  \/ finishQuit \/ ceditClose \/ exBg
  \/ \E i \in DOMAIN bg : exFg(i) \/ \E up \in BOOLEAN : fgNewScreen(i, up)
  \/ switchScreen
  \/ \E s \in Displayed : FocusPane(s) \/ \E ax \in Axis, d \in Deltas : DragDivider(s, ax, d)
  \/ \E d \in Deltas : resizeScreen(d)

SSpec == SInit /\ [][SNext]_svars

-----------------------------------------------------------------------------
(***************************************************************************)
(* Properties.                                                              *)
(***************************************************************************)

Covers(g, r, c) ==
  /\ g["row"].off <= r /\ r < After(g, "row")
  /\ g["col"].off <= c /\ c < After(g, "col")

\* The screens lie within the terminal, each with room for text, no two
\* overlap, and no place is left over, the column of the outermost dividers
\* included.
Tiled ==
  /\ \A s \in Displayed, ax \in Axis :
       /\ geo[s][ax].off >= 0 /\ geo[s][ax].len >= 1
       /\ After(geo[s], ax) <= IF ax = "row" THEN term.h ELSE term.w + 1
  /\ \A s, t \in Displayed :
       s # t => \E ax \in Axis : ~Overlap(geo[s], geo[t], ax)
  /\ \A r \in 0..(term.h - 1), c \in 0..term.w :
       \E s \in Displayed : Covers(geo[s], r, c)

\* The active screen closes and no screen has a whole border in common with it.
Stranded == Len(screens') < Len(screens) /\ Heirs(scr) = {}

\* The screens are stacked and get more rows than there are.
Overflows ==
  /\ term' # term /\ ~Scalable(screens, term')
  /\ StackEnd(screens, term')[Len(screens)] > term'.h

\* A divider dragged towards a screen below its minimum is clamped away from it
\* until the screen has its minimum, at the cost of the screens on the other side.
Cramped ==
  /\ screens' = screens /\ term' = term
  /\ \E s \in Displayed : geo[s]["col"].len < MinCols /\ geo'[s]["col"].len = MinCols

\* No step leaves a gap in the display or lets two screens overlap, or goes
\* outside, however the screens have been split, joined and moved before;
\* three kinds of step excepted, which the README explains (engine.go, relayout:
\* "so borders shared between screens stay shared and the tiling has no gaps or
\* overlaps at the new size").
TilingKept ==
  [][Tiled /\ ~Stranded /\ ~Overflows /\ ~Cramped => Tiled']_svars

\* Every screen is at one place: displayed, or in the background.
PlacedOnce == Len(screens) + Len(bg) = Cardinality(Live)

\* A screen is lost only by closing it, and nothing else changes place then;
\* :bg, :fg and :Fg lose none, also when there is no room.
NoneLost ==
  [][\A s \in Live \ Live' :
       s = scr /\ screens' = RemoveAt(screens, Place(screens, scr)) /\ bg' = bg]_svars
=============================================================================
