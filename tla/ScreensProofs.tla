---------------------------- MODULE ScreensProofs ----------------------------
(***************************************************************************)
(* The split screens, for any number of them and any size of the terminal:  *)
(* every screen is at one place, none is lost, and no step leaves a gap in  *)
(* the display or lets two screens overlap.                                 *)
(***************************************************************************)
EXTENDS Screens, Lists

-----------------------------------------------------------------------------
(* The sort of the display list. *)

\* A screen that is put in its place is in the list once.
LEMMA PlacedResult ==
  ASSUME NEW l \in Seq(Screen), NEW s \in Screen, NEW g
  PROVE  /\ Placed(l, s, g) \in Seq(Screen)
         /\ Len(Placed(l, s, g)) = Len(l) + 1
         /\ ToSet(Placed(l, s, g)) = ToSet(l) \cup {s}
         /\ IsInjective(l) /\ s \notin ToSet(l) => IsInjective(Placed(l, s, g))
<1> DEFINE behind == {i \in DOMAIN l : ~Before(s, l[i], g)}
           k == Cardinality(behind) + 1
<1>1. Len(l) \in Nat /\ DOMAIN l = 1..Len(l)
  OBVIOUS
<1>2. k \in 1..(Len(l) + 1)
  <2>1. behind \in SUBSET (1..Len(l))
    BY <1>1
  <2>2. IsFiniteSet(1..Len(l)) /\ Cardinality(1..Len(l)) = Len(l)
    BY <1>1, FS_Interval
  <2> HIDE DEF behind
  <2>3. IsFiniteSet(behind) /\ Cardinality(behind) <= Len(l)
    BY <2>1, <2>2, FS_Subset
  <2>4. Cardinality(behind) \in Nat
    BY <2>3, FS_CardinalityType
  <2> QED BY <1>1, <2>3, <2>4
<1>3. Placed(l, s, g) = InsertAt(l, k, s)
  BY DEF Placed
<1> HIDE DEF k
<1> QED BY <1>2, <1>3, InsertAtResult, InsertKeeps

\* The sorted list has the same screens as the list.
LEMMA InOrderResult ==
  ASSUME NEW l \in Seq(Screen), NEW g
  PROVE  /\ InOrder(l, g) \in Seq(Screen)
         /\ Len(InOrder(l, g)) = Len(l)
         /\ ToSet(InOrder(l, g)) = ToSet(l)
         /\ IsInjective(l) => IsInjective(InOrder(l, g))
<1> DEFINE n == Len(l)
           F == [i \in 1..n |-> [p \in Seq(Screen) |-> Placed(p, l[i], g)]]
           Sorts(u) == u = [i \in 0..n |-> IF i = 0 THEN <<>> ELSE Placed(u[i - 1], l[i], g)]
           u == CHOOSE v : Sorts(v)
<1>1. n \in Nat /\ DOMAIN l = 1..n /\ \A i \in 1..n : l[i] \in Screen
  OBVIOUS
<1>2. InOrder(l, g) = u[n]
  BY Zenon DEF InOrder
<1>3. F \in Stepper(n, Seq(Screen))
  BY <1>1, PlacedResult DEF Stepper
<1>4. \A p \in Seq(Screen), i \in 1..n : F[i][p] = Placed(p, l[i], g)
  OBVIOUS
<1>5. <<>> \in Seq(Screen)
  OBVIOUS
<1> HIDE DEF F, n
<1>6. PICK t \in [0..n -> Seq(Screen)] : IsCourse(t, n, <<>>, F)
  BY <1>1, <1>3, <1>5, CourseExists
<1>7. Sorts(t)
  <2>1. \A i \in 1..n : t[i - 1] \in Seq(Screen) /\ t[i] = Placed(t[i - 1], l[i], g)
    <3>1. \A i \in 1..n : t[i - 1] \in Seq(Screen)
      BY <1>1, <1>6
    <3>2. \A i \in 1..n : t[i] = F[i][t[i - 1]]
      BY <1>6 DEF IsCourse
    <3> QED BY <1>4, <3>1, <3>2
  <2>2. \A i \in 0..n : i # 0 => i \in 1..n
    BY <1>1
  <2>3. \A i \in 0..n : t[i] = IF i = 0 THEN <<>> ELSE Placed(t[i - 1], l[i], g)
    <3>1. t[0] = <<>>
      BY <1>6 DEF IsCourse
    <3> QED BY <2>1, <2>2, <3>1
  <2>4. t = [i \in 0..n |-> t[i]]
    BY <1>6
  <2> QED BY <2>3, <2>4
<1> HIDE DEF u
<1>8. Sorts(u)
  <2> HIDE DEF Sorts
  <2> QED BY <1>7 DEF u
<1>9. \A i \in 0..n : u[i] = IF i = 0 THEN <<>> ELSE Placed(u[i - 1], l[i], g)
  BY <1>8
<1> HIDE DEF Sorts
<1> DEFINE Good(m) ==
             /\ u[m] \in Seq(Screen)
             /\ Len(u[m]) = m
             /\ ToSet(u[m]) = {l[i] : i \in 1..m}
             /\ IsInjective(l) => IsInjective(u[m])
           T == {m \in 0..n : Good(m)}
<1>10. InductiveUpTo(n, T)
  <2>1. Good(0)
    <3>1. u[0] = <<>>
      BY <1>1, <1>9
    <3>2. Len(<<>>) = 0 /\ DOMAIN <<>> = {}
      OBVIOUS
    <3> QED BY <1>5, <3>1, <3>2 DEF ToSet, IsInjective
  <2>2. ASSUME NEW m \in 1..n, Good(m - 1) PROVE Good(m)
    <3> DEFINE p == u[m - 1]
    <3>1. /\ p \in Seq(Screen) /\ Len(p) = m - 1
          /\ ToSet(p) = {l[i] : i \in 1..(m - 1)}
          /\ IsInjective(l) => IsInjective(p)
      BY <2>2
    <3>2. u[m] = Placed(p, l[m], g) /\ l[m] \in Screen
      BY <1>1, <1>9
    <3> HIDE DEF p
    <3>3. /\ u[m] \in Seq(Screen) /\ Len(u[m]) = m - 1 + 1
          /\ ToSet(u[m]) = ToSet(p) \cup {l[m]}
          /\ IsInjective(p) /\ l[m] \notin ToSet(p) => IsInjective(u[m])
      BY <3>1, <3>2, PlacedResult
    <3>4. {l[i] : i \in 1..(m - 1)} \cup {l[m]} = {l[i] : i \in 1..m}
      BY <1>1
    <3>5. IsInjective(l) => l[m] \notin ToSet(p)
      <4>1. \A i \in 1..(m - 1) : i \in 1..n /\ i # m
        BY <1>1
      <4>2. IsInjective(l) => \A i \in 1..(m - 1) : l[i] # l[m]
        BY <1>1, <4>1 DEF IsInjective
      <4> QED BY <3>1, <4>2
    <3>6. m - 1 + 1 = m
      BY <1>1
    <3> QED BY <3>1, <3>3, <3>4, <3>5, <3>6
  <2> HIDE DEF Good
  <2> QED BY <1>1, <2>1, <2>2 DEF InductiveUpTo
<1>11. Good(n)
  <2>1. n \in T
    <3> HIDE DEF T
    <3> QED BY <1>1, <1>10, IntervalInduction
  <2> QED BY <2>1
<1>12. ToSet(l) = {l[i] : i \in 1..n}
  BY <1>1 DEF ToSet
<1> QED BY <1>2, <1>11, <1>12 DEF n

-----------------------------------------------------------------------------
(* Spans. *)

\* The borders of a rectangle are integers.
LEMMA SpanTyped ==
  ASSUME NEW g \in Rect, NEW ax \in Axis
  PROVE  /\ g[ax] \in Span /\ g[ax].off \in Int /\ g[ax].len \in Int
         /\ Border(g, ax) = g[ax].off + g[ax].len /\ Border(g, ax) \in Int
         /\ After(g, ax) = g[ax].off + g[ax].len + 1 /\ After(g, ax) \in Int
<1>1. g[ax] \in Span
  BY DEF Rect
<1>2. g[ax].off \in Int /\ g[ax].len \in Int
  BY <1>1 DEF Span
<1> QED BY <1>1, <1>2 DEF Border, After

\* The size of what is displayed bounds every screen in it.
LEMMA OldSize ==
  ASSUME NEW l \in Seq(Screen), geo \in [Screen -> Rect]
  PROVE  /\ OldHeight(l) \in Nat /\ OldWidth(l) \in Nat
         /\ \A s \in ToSet(l) : /\ After(geo[s], "row") <= OldHeight(l)
                                /\ Border(geo[s], "col") <= OldWidth(l)
         /\ \/ OldHeight(l) = 0
            \/ \E s \in ToSet(l) : OldHeight(l) = After(geo[s], "row")
         /\ \/ OldWidth(l) = 0
            \/ \E s \in ToSet(l) : OldWidth(l) = Border(geo[s], "col")
<1> DEFINE S == ToSet(l)
           f == [s \in S |-> After(geo[s], "row")]
           h == [s \in S |-> Border(geo[s], "col")]
           T == {0} \cup {After(geo[s], "row") : s \in S}
           U == {0} \cup {Border(geo[s], "col") : s \in S}
<1>0. 0 \in Int
  OBVIOUS
<1>1. IsFiniteSet(S)
  BY ListSize
<1>2. S \subseteq Screen
  BY DEF ToSet
<1>3. f \in [S -> Int]
  BY <1>2, SpanTyped DEF Axis
<1>4. h \in [S -> Int]
  BY <1>2, SpanTyped DEF Axis
<1>10. T = WithValues(0, f)
  BY DEF WithValues
<1>11. U = WithValues(0, h)
  BY DEF WithValues
<1>5. OldHeight(l) = Max(T) /\ OldWidth(l) = Max(U)
  BY DEF OldHeight, OldWidth
<1>6. /\ 0 \in T /\ \A s \in S : After(geo[s], "row") \in T
      /\ 0 \in U /\ \A s \in S : Border(geo[s], "col") \in U
      /\ \A y \in T : y = 0 \/ \E s \in S : y = After(geo[s], "row")
      /\ \A y \in U : y = 0 \/ \E s \in S : y = Border(geo[s], "col")
  OBVIOUS
<1> HIDE DEF S, T, U, f, h
<1>7. Max(T) \in T /\ T \in SUBSET Int /\ \A y \in T : y <= Max(T)
  BY <1>0, <1>1, <1>3, <1>10, ExtremesOf
<1>8. Max(U) \in U /\ U \in SUBSET Int /\ \A y \in U : y <= Max(U)
  BY <1>0, <1>1, <1>4, <1>11, ExtremesOf
<1>9. Max(T) \in Nat /\ Max(U) \in Nat
  <2>1. Max(T) \in Int /\ 0 <= Max(T)
    BY <1>6, <1>7
  <2>2. Max(U) \in Int /\ 0 <= Max(U)
    BY <1>6, <1>8
  <2> QED BY <2>1, <2>2
<1> QED BY <1>5, <1>6, <1>7, <1>8, <1>9 DEF S

\* A rectangle of two spans.
LEMMA RectOf ==
  ASSUME NEW a \in Int, NEW b \in Int, NEW c \in Int, NEW d \in Int
  PROVE  [ax \in Axis |-> IF ax = "row" THEN [off |-> a, len |-> b]
                                        ELSE [off |-> c, len |-> d]] \in Rect
BY DEF Rect, Span, Axis

\* The height and the width of a size.
LEMMA SizeTyped ==
  ASSUME NEW size \in Sizes
  PROVE  /\ size.h \in Nat /\ size.h >= 2
         /\ size.w \in Nat /\ size.w >= 1
<1>1. size \in [h : Nat \ {0, 1}, w : Nat \ {0}]
  BY ScreensAssumption
<1> QED BY <1>1

\* Borders go to integers.
LEMMA MapTyped ==
  ASSUME NEW l \in Seq(Screen), geo \in [Screen -> Rect], NEW size \in Sizes,
         NEW b \in Int
  PROVE  /\ OldHeight(l) > 0 => MapRow(b, l, size) \in Int
         /\ OldWidth(l) > 0 => MapCol(b, l, size) \in Int
<1>1. OldHeight(l) \in Nat /\ OldWidth(l) \in Nat
  BY OldSize
<1>2. size.h \in Int /\ size.w \in Int
  BY SizeTyped
<1>3. \A x, y \in Int, z \in Nat : z > 0 => (x * y + z \div 2) \div z \in Int
  OBVIOUS
<1> QED BY <1>1, <1>2, <1>3 DEF MapRow, MapCol

\* The scaled spans of a screen.
LEMMA ScaledTyped ==
  ASSUME NEW l \in Seq(Screen), geo \in [Screen -> Rect], NEW size \in Sizes,
         NEW g \in Rect, OldHeight(l) > 0, OldWidth(l) > 0
  PROVE  Scaled(g, l, size) \in Rect
<1> DEFINE top == MapRow(g["row"].off, l, size)
           bottom == MapRow(After(g, "row"), l, size)
           left == IF g["col"].off > 0 THEN MapCol(g["col"].off - 1, l, size) + 1 ELSE 0
           right == IF Border(g, "col") < OldWidth(l)
                      THEN MapCol(Border(g, "col"), l, size) ELSE size.w
<1>1. /\ g["row"].off \in Int /\ After(g, "row") \in Int
      /\ g["col"].off \in Int /\ Border(g, "col") \in Int
  BY SpanTyped DEF Axis
<1>2. top \in Int /\ bottom \in Int
  BY <1>1, MapTyped
<1>3. left \in Int
  <2>1. g["col"].off - 1 \in Int
    BY <1>1
  <2>2. MapCol(g["col"].off - 1, l, size) \in Int
    BY <2>1, MapTyped
  <2> QED BY <2>2
<1>4. right \in Int
  BY <1>1, MapTyped, SizeTyped
<1>5. Scaled(g, l, size) =
        [ax \in Axis |-> IF ax = "row" THEN [off |-> top, len |-> bottom - top - 1]
                                       ELSE [off |-> left, len |-> right - left]]
  BY DEF Scaled
<1> HIDE DEF top, bottom, left, right
<1>6. bottom - top - 1 \in Int /\ right - left \in Int
  BY <1>2, <1>3, <1>4
<1> QED BY <1>2, <1>3, <1>5, <1>6 DEF Rect, Span, Axis

-----------------------------------------------------------------------------
(* The layouts. *)

\* The heights of the screens of a list are integers.
LEMMA HeightTyped ==
  ASSUME NEW l \in Seq(Screen), geo \in [Screen -> Rect], NEW i \in 1..Len(l)
  PROVE  l[i] \in Screen /\ Height(l[i]) \in Int
<1>1. l[i] \in Screen /\ geo[l[i]] \in Rect
  OBVIOUS
<1> QED BY <1>1, SpanTyped DEF Height, Axis

\* The divisor of their shares is positive.
LEMMA TotalHeightPositive ==
  ASSUME NEW l \in Seq(Screen), geo \in [Screen -> Rect]
  PROVE  TotalHeight(l) \in Nat \ {0}
<1> DEFINE n == Len(l)
           F == [i \in 1..n |-> [x \in Int |-> x + Height(l[i])]]
           Sums(v) == v = [i \in 0..n |-> IF i = 0 THEN 0 ELSE v[i - 1] + Height(l[i])]
           sum == CHOOSE v : Sums(v)
<1>1. n \in Nat /\ \A i \in 1..n : Height(l[i]) \in Int
  BY HeightTyped
<1>2. TotalHeight(l) = Max({1, sum[n]})
  BY Zenon DEF TotalHeight
<1>3. F \in Stepper(n, Int) /\ \A x \in Int, i \in 1..n : F[i][x] = x + Height(l[i])
  BY <1>1 DEF Stepper
<1> HIDE DEF F, n
<1>4. PICK t \in [0..n -> Int] : IsCourse(t, n, 0, F)
  <2>1. 0 \in Int
    OBVIOUS
  <2> QED BY <1>1, <1>3, <2>1, CourseExists
<1>5. Sums(t)
  <2>1. \A i \in 1..n : t[i] = t[i - 1] + Height(l[i])
    <3>1. \A i \in 1..n : t[i - 1] \in Int
      BY <1>1, <1>4
    <3>2. \A i \in 1..n : t[i] = F[i][t[i - 1]]
      BY <1>4 DEF IsCourse
    <3> QED BY <1>3, <3>1, <3>2
  <2>2. \A i \in 0..n : i # 0 => i \in 1..n
    BY <1>1
  <2>3. t[0] = 0
    BY <1>4 DEF IsCourse
  <2>4. t = [i \in 0..n |-> t[i]]
    BY <1>4
  <2> QED BY <2>1, <2>2, <2>3, <2>4
<1> HIDE DEF sum
<1>6. Sums(sum)
  <2> HIDE DEF Sums
  <2> QED BY <1>5 DEF sum
<1>7. \A i \in 0..n : sum[i] = IF i = 0 THEN 0 ELSE sum[i - 1] + Height(l[i])
  BY <1>6
<1> HIDE DEF Sums
<1> DEFINE T == {m \in 0..n : sum[m] \in Int}
<1>8. InductiveUpTo(n, T)
  BY <1>1, <1>7 DEF InductiveUpTo
<1>9. sum[n] \in Int
  <2>1. n \in T
    <3> HIDE DEF T
    <3> QED BY <1>1, <1>8, IntervalInduction
  <2> QED BY <2>1
<1> QED BY <1>2, <1>9, TwoExtremes

\* The stacked screens end one below the other, two rows apart at least, the
\* last one not above the end of the terminal.
LEMMA StackEndResult ==
  ASSUME NEW l \in Seq(Screen), l # <<>>, geo \in [Screen -> Rect], NEW size \in Sizes
  PROVE  /\ StackEnd(l, size) \in [0..Len(l) -> Int]
         /\ StackEnd(l, size)[0] = 0
         /\ \A i \in 1..Len(l) : StackEnd(l, size)[i] >= StackEnd(l, size)[i - 1] + 2
         /\ StackEnd(l, size)[Len(l)] >= size.h
<1> DEFINE n == Len(l)
           Share(i, e) == IF i = n THEN size.h - e
                          ELSE (Height(l[i]) * size.h) \div TotalHeight(l)
           Next(i, e) == e + Max({Share(i, e), 2})
           F == [i \in 1..n |-> [e \in Int |-> Next(i, e)]]
           Ends(v) == v = [i \in 0..n |->
             IF i = 0 THEN 0
             ELSE LET share == IF i = n THEN size.h - v[n - 1]
                               ELSE (Height(l[i]) * size.h) \div TotalHeight(l)
                  IN v[i - 1] + Max({share, 2})]
           End == CHOOSE v : Ends(v)
<1>1. n \in Nat \ {0} /\ \A i \in 1..n : Height(l[i]) \in Int
  BY HeightTyped
<1>2. StackEnd(l, size) = End
  BY Zenon DEF StackEnd
<1>3. size.h \in Nat
  BY SizeTyped
<1>4. ASSUME NEW i \in 1..n, NEW e \in Int
      PROVE  /\ Share(i, e) \in Int
             /\ Next(i, e) \in Int /\ Next(i, e) >= e + 2 /\ Next(i, e) >= e + Share(i, e)
  <2>1. Share(i, e) \in Int
    <3>1. \A x, y \in Int, z \in Nat \ {0} : (x * y) \div z \in Int
      OBVIOUS
    <3> QED BY <1>1, <1>3, <3>1, TotalHeightPositive
  <2> HIDE DEF Share
  <2>2. Max({Share(i, e), 2}) = IF Share(i, e) >= 2 THEN Share(i, e) ELSE 2
    BY <2>1, TwoExtremes
  <2> QED BY <2>1, <2>2
<1> HIDE DEF Next
<1>5. F \in Stepper(n, Int) /\ \A e \in Int, i \in 1..n : F[i][e] = Next(i, e)
  BY <1>1, <1>4 DEF Stepper
<1> HIDE DEF F
<1>6. 0 \in Int
  OBVIOUS
<1>7. PICK t \in [0..n -> Int] : IsCourse(t, n, 0, F)
  <2> HIDE DEF n
  <2> QED BY <1>1, <1>5, <1>6, CourseExists
<1> HIDE DEF n
<1>8. /\ t[0] = 0
      /\ \A i \in 1..n : t[i - 1] \in Int /\ t[i] = Next(i, t[i - 1])
  <2>1. \A i \in 1..n : t[i - 1] \in Int
    BY <1>1, <1>7
  <2>2. t[0] = 0 /\ \A i \in 1..n : t[i] = F[i][t[i - 1]]
    BY <1>7 DEF IsCourse
  <2> QED BY <1>5, <2>1, <2>2
<1>9. Ends(t)
  <2>1. \A i \in 0..n : i # 0 => i \in 1..n
    BY <1>1
  <2>2. t = [i \in 0..n |-> t[i]]
    BY <1>7
  <2>3. ASSUME NEW i \in 0..n
        PROVE  t[i] = IF i = 0 THEN 0
             ELSE LET share == IF i = n THEN size.h - t[n - 1]
                               ELSE (Height(l[i]) * size.h) \div TotalHeight(l)
                  IN t[i - 1] + Max({share, 2})
    BY <1>8, <2>1 DEF Next
  <2> QED BY <2>2, <2>3
<1> HIDE DEF End
<1>10. Ends(End)
  <2> HIDE DEF Ends
  <2> QED BY <1>9 DEF End
<1>11. ASSUME NEW i \in 0..n PROVE End[i] = IF i = 0 THEN 0 ELSE Next(i, End[i - 1])
  <2>1. End[i] = IF i = 0 THEN 0
             ELSE LET share == IF i = n THEN size.h - End[n - 1]
                               ELSE (Height(l[i]) * size.h) \div TotalHeight(l)
                  IN End[i - 1] + Max({share, 2})
    BY <1>10
  <2> QED BY <2>1 DEF Next
<1> HIDE DEF Ends
<1> DEFINE T == {m \in 0..n : End[m] = t[m]}
<1>12. InductiveUpTo(n, T)
  BY <1>1, <1>8, <1>11 DEF InductiveUpTo
<1>13. \A m \in 0..n : End[m] = t[m]
  <2>1. 0..n \subseteq T
    <3> HIDE DEF T
    <3> QED BY <1>1, <1>12, IntervalInduction
  <2> QED BY <2>1
<1>14. DOMAIN End = 0..n /\ End = [i \in 0..n |-> End[i]]
  BY <1>10 DEF Ends
<1>15. End \in [0..n -> Int]
  BY <1>7, <1>13, <1>14
<1>16. ASSUME NEW i \in 1..n
       PROVE  End[i] >= End[i - 1] + 2 /\ End[i] >= End[i - 1] + Share(i, End[i - 1])
  <2>1. i \in 0..n /\ i - 1 \in 0..n /\ i # 0
    BY <1>1
  <2> HIDE DEF Share
  <2> QED BY <1>4, <1>11, <1>15, <2>1
<1>17. End[n] >= size.h
  <2>1. n \in 1..n /\ n - 1 \in 0..n /\ End[n] \in Int /\ End[n - 1] \in Int
    BY <1>1, <1>15
  <2>2. Share(n, End[n - 1]) = size.h - End[n - 1]
    OBVIOUS
  <2> HIDE DEF Share
  <2>3. End[n] >= End[n - 1] + (size.h - End[n - 1])
    BY <1>16, <2>1, <2>2
  <2> QED BY <1>3, <2>1, <2>3
<1>18. End[0] = 0
  BY <1>1, <1>11
<1> QED BY <1>2, <1>15, <1>16, <1>17, <1>18 DEF n

\* Where a screen is in a list.
LEMMA PlaceResult ==
  ASSUME NEW l, NEW s \in ToSet(l)
  PROVE  Place(l, s) \in DOMAIN l /\ l[Place(l, s)] = s
<1>1. \E i \in DOMAIN l : l[i] = s
  BY DEF ToSet
<1> QED BY <1>1 DEF Place

\* A new layout gives every screen of the list a rectangle.
LEMMA RelayoutTyped ==
  ASSUME NEW l \in Seq(Screen), l # <<>>, geo \in [Screen -> Rect], NEW size \in Sizes
  PROVE  relayout(l, size) \in [ToSet(l) -> Rect]
<1>1. ToSet(l) \subseteq Screen /\ DOMAIN l = 1..Len(l) /\ Len(l) \in Nat \ {0}
  BY DEF ToSet
<1>2. CASE Scalable(l, size)
  <2>1. OldHeight(l) > 0 /\ OldWidth(l) > 0
    BY <1>2 DEF Scalable
  <2>2. \A s \in ToSet(l) : Scaled(geo[s], l, size) \in Rect
    BY <1>1, <2>1, ScaledTyped
  <2> QED BY <1>2, <2>2 DEF relayout
<1>3. CASE ~Scalable(l, size)
  <2> DEFINE End == StackEnd(l, size)
             Top(s) == End[Place(l, s) - 1]
             Bottom(s) == End[Place(l, s)]
             R(s) == [ax \in Axis |->
                        IF ax = "row" THEN [off |-> Top(s), len |-> Bottom(s) - Top(s) - 1]
                                      ELSE [off |-> 0, len |-> size.w]]
  <2>1. relayout(l, size) = [s \in ToSet(l) |-> R(s)]
    BY <1>3 DEF relayout, relayoutStack
  <2>2. End \in [0..Len(l) -> Int]
    BY StackEndResult
  <2> HIDE DEF End
  <2>3. ASSUME NEW s \in ToSet(l) PROVE R(s) \in Rect
    <3>1. Place(l, s) \in 1..Len(l)
      BY <1>1, PlaceResult
    <3>2. Top(s) \in Int /\ Bottom(s) \in Int
      BY <1>1, <2>2, <3>1
    <3> HIDE DEF Top, Bottom
    <3>3. Bottom(s) - Top(s) - 1 \in Int /\ 0 \in Int /\ size.w \in Int
      BY <3>2, SizeTyped
    <3> QED BY <3>2, <3>3 DEF Rect, Span, Axis
  <2> HIDE DEF R
  <2> QED BY <2>1, <2>3
<1> QED BY <1>2, <1>3

\* Where a screen is that is not displayed, and the only one there is.
LEMMA RectsTyped ==
  /\ Nowhere \in Rect
  /\ \A size \in Sizes : Whole(size) \in Rect
<1>1. Nowhere \in Rect
  BY DEF Nowhere, Rect, Span, Axis
<1>2. ASSUME NEW size \in Sizes PROVE Whole(size) \in Rect
  <2>1. size.h - 1 \in Int /\ size.w \in Int /\ 0 \in Int
    BY SizeTyped
  <2> QED BY <2>1 DEF Whole, Rect, Span, Axis
<1> QED BY <1>1, <1>2

\* A layout of the displayed screens.
LEMMA LayoutTyped ==
  ASSUME NEW D \in SUBSET Screen, NEW rects \in [D -> Rect]
  PROVE  /\ Layout(rects) \in [Screen -> Rect]
         /\ \A s \in Screen : Layout(rects)[s] = IF s \in D THEN rects[s] ELSE Nowhere
BY RectsTyped DEF Layout

\* Moving a border keeps rectangles.
LEMMA MoveBorderTyped ==
  ASSUME geo \in [Screen -> Rect], NEW before, NEW after, NEW ax \in Axis, NEW d \in Int
  PROVE  /\ MoveBorder(before, after, ax, d) \in [Screen -> Rect]
         /\ \A s \in Screen : s \notin before \cup after =>
              MoveBorder(before, after, ax, d)[s] = geo[s]
<1> DEFINE A(s) == [geo[s] EXCEPT ![ax].len = @ + d]
           B(s) == [geo[s] EXCEPT ![ax].off = @ + d, ![ax].len = @ - d]
<1>1. ASSUME NEW s \in Screen PROVE A(s) \in Rect /\ B(s) \in Rect
  <2>1. geo[s] \in Rect /\ geo[s][ax] \in Span
    BY SpanTyped
  <2>2. geo[s][ax].off + d \in Int /\ geo[s][ax].len + d \in Int /\ geo[s][ax].len - d \in Int
    BY <2>1, SpanTyped
  <2>3. [geo[s][ax] EXCEPT !.len = @ + d] \in Span
    BY <2>1, <2>2 DEF Span
  <2>4. [geo[s][ax] EXCEPT !.off = @ + d, !.len = @ - d] \in Span
    BY <2>1, <2>2 DEF Span
  <2> QED BY <2>1, <2>3, <2>4 DEF Rect
<1> HIDE DEF A, B
<1>2. MoveBorder(before, after, ax, d) =
        [s \in Screen |-> IF s \in before THEN A(s) ELSE IF s \in after THEN B(s) ELSE geo[s]]
  BY Zenon DEF MoveBorder, A, B
<1> QED BY <1>1, <1>2

-----------------------------------------------------------------------------
(* The invariant, and what the parts of the operations keep of it. *)

\* No screen is in a list twice, or in both.
ListsApart == IsInjective(screens) /\ IsInjective(bg) /\ Displayed \cap ToSet(bg) = {}

ScreensInv == STypeOK /\ ListsApart

\* What is displayed are screens, and there is at least the active one.
LEMMA DisplayedFacts ==
  ASSUME ScreensInv
  PROVE  /\ Displayed \subseteq Screen /\ ToSet(bg) \subseteq Screen /\ scr \in Screen
         /\ Len(screens) \in Nat \ {0} /\ DOMAIN screens = 1..Len(screens)
         /\ Len(bg) \in Nat /\ DOMAIN bg = 1..Len(bg)
         /\ screens # <<>> /\ scr \in Displayed
         /\ Place(screens, scr) \in 1..Len(screens) /\ screens[Place(screens, scr)] = scr
<1>1. screens \in Seq(Screen) /\ bg \in Seq(Screen) /\ scr \in ToSet(screens)
  BY DEF ScreensInv, STypeOK, Displayed
<1>2. /\ Len(screens) \in Nat /\ DOMAIN screens = 1..Len(screens)
      /\ Len(bg) \in Nat /\ DOMAIN bg = 1..Len(bg)
  BY <1>1
<1>3. ToSet(screens) \subseteq Screen /\ ToSet(bg) \subseteq Screen
  BY <1>1 DEF ToSet
<1>4. Len(screens) # 0
  BY <1>1, <1>2 DEF ToSet
<1> QED BY <1>1, <1>2, <1>3, <1>4, PlaceResult DEF Displayed

\* A step that leaves the lists and the focus alone.
LEMMA GeometryStep ==
  ASSUME ScreensInv, UNCHANGED <<screens, bg, scr, comedit, cclParent>>,
         geo' \in [Screen -> Rect], \A s \in Screen \ Displayed : geo'[s] = Nowhere,
         term' \in Sizes
  PROVE  ScreensInv' /\ Live' = Live
BY DEF ScreensInv, STypeOK, ListsApart, Displayed, Live

\* A border that is moved between displayed screens.
LEMMA MovedStep ==
  ASSUME ScreensInv, NEW before \in SUBSET Displayed, NEW after \in SUBSET Displayed,
         NEW ax \in Axis, NEW d \in Int, Moved(before, after, ax, d)
  PROVE  ScreensInv' /\ Live' = Live
<1>1. geo \in [Screen -> Rect] /\ \A s \in Screen \ Displayed : geo[s] = Nowhere
  BY DEF ScreensInv, STypeOK
<1>2. geo' = MoveBorder(before, after, ax, d)
  BY DEF Moved
<1>3. geo' \in [Screen -> Rect] /\ \A s \in Screen \ Displayed : geo'[s] = Nowhere
  BY <1>1, <1>2, MoveBorderTyped
<1>4. UNCHANGED <<screens, bg, scr, comedit, cclParent>> /\ term' \in Sizes
  BY DEF Moved, ScreensInv, STypeOK
<1> QED BY <1>3, <1>4, GeometryStep

\* The active screen is divided for one that is not displayed.
LEMMA DivideStep ==
  ASSUME ScreensInv, NEW ns \in Screen \ Displayed, NEW ax \in Axis,
         NEW kept \in Span, NEW given \in Span, Divide(ns, ax, kept, given)
  PROVE  /\ screens' \in Seq(Screen) /\ IsInjective(screens')
         /\ Displayed' = Displayed \cup {ns} /\ scr' = ns
         /\ geo' \in [Screen -> Rect]
         /\ \A s \in Screen \ Displayed' : geo'[s] = Nowhere
<1>1. /\ screens \in Seq(Screen) /\ IsInjective(screens) /\ geo \in [Screen -> Rect]
      /\ \A s \in Screen \ Displayed : geo[s] = Nowhere
  BY DEF ScreensInv, STypeOK, ListsApart
<1>2. scr \in Screen /\ Displayed = ToSet(screens) /\ scr # ns
  BY DisplayedFacts DEF Displayed
<1>3. /\ geo' = [geo EXCEPT ![scr][ax] = kept, ![ns] = [geo[scr] EXCEPT ![ax] = given]]
      /\ screens' = InOrder(Append(screens, ns), geo') /\ scr' = ns
  BY DEF Divide
<1>4. [geo[scr] EXCEPT ![ax] = kept] \in Rect /\ [geo[scr] EXCEPT ![ax] = given] \in Rect
  BY <1>1, <1>2 DEF Rect
<1>5. /\ geo' \in [Screen -> Rect]
      /\ \A s \in Screen \ {scr, ns} : geo'[s] = geo[s]
  BY <1>1, <1>2, <1>3, <1>4
<1>6. /\ Append(screens, ns) \in Seq(Screen)
      /\ ToSet(Append(screens, ns)) = Displayed \cup {ns}
      /\ IsInjective(Append(screens, ns))
  BY <1>1, <1>2, AppendKeeps
<1>7. /\ screens' \in Seq(Screen) /\ IsInjective(screens')
      /\ ToSet(screens') = Displayed \cup {ns}
  BY <1>3, <1>6, InOrderResult
<1>8. Displayed' = Displayed \cup {ns}
  BY <1>7 DEF Displayed
<1> QED BY <1>1, <1>2, <1>3, <1>5, <1>7, <1>8, DisplayedFacts

\* The splits divide the active screen.
LEMMA SplitStep ==
  ASSUME ScreensInv, NEW ns \in Screen \ Displayed, NEW up, NEW ccl,
         vsSplit(ns, up, ccl) \/ vsplitVert(ns)
  PROVE  \E ax \in Axis, kept, given \in Span : Divide(ns, ax, kept, given)
<1>1. geo[scr] \in Rect
  BY DisplayedFacts DEF ScreensInv, STypeOK
<1>2. CASE vsSplit(ns, up, ccl)
  <2> DEFINE old == geo[scr]["row"]
             rows == old.len + 1
             half == IF ccl THEN Min({rows \div 2, CclRows}) ELSE rows \div 2
             upper == [off |-> old.off, len |-> rows - half - 1]
             lower == [off |-> old.off + rows - half, len |-> half - 1]
  <2>1. IF up THEN Divide(ns, "row", lower, upper) ELSE Divide(ns, "row", upper, lower)
    BY <1>2 DEF vsSplit
  <2>2. old.off \in Int /\ rows \in Int
    BY <1>1, SpanTyped DEF Axis
  <2>3. half \in Int
    <3>1. rows \div 2 \in Int /\ CclRows \in Int
      BY <2>2, ScreensAssumption
    <3> HIDE DEF rows
    <3> QED BY <3>1, TwoExtremes
  <2> HIDE DEF half, rows
  <2>4. upper \in Span /\ lower \in Span
    BY <2>2, <2>3 DEF Span
  <2> HIDE DEF upper, lower
  <2> QED BY <2>1, <2>4 DEF Axis
<1>3. CASE vsplitVert(ns)
  <2> DEFINE old == geo[scr]["col"]
             half == old.len \div 2
             left == [off |-> old.off, len |-> half]
             right == [off |-> old.off + half + 1, len |-> old.len - half - 1]
  <2>1. Divide(ns, "col", left, right)
    BY <1>3 DEF vsplitVert
  <2>2. old.off \in Int /\ old.len \in Int
    BY <1>1, SpanTyped DEF Axis
  <2>3. left \in Span /\ right \in Span
    BY <2>2 DEF Span
  <2> HIDE DEF left, right
  <2> QED BY <2>1, <2>3 DEF Axis
<1> QED BY <1>2, <1>3

\* The active screen leaves the display.
LEMMA DiscardStep ==
  ASSUME ScreensInv, NEW preferred, discardCurrentScreen(preferred)
  PROVE  /\ screens' \in Seq(Screen) /\ IsInjective(screens')
         /\ screens' = RemoveAt(screens, Place(screens, scr))
         /\ Displayed' = Displayed \ {scr} /\ scr' \in Displayed'
         /\ geo' \in [Screen -> Rect]
         /\ \A s \in Screen \ Displayed' : geo'[s] = Nowhere
<1> DEFINE k == Place(screens, scr)
           rest == RemoveAt(screens, k)
           Focus(t) == IF preferred \in ToSet(rest) THEN preferred ELSE t
<1>1. /\ screens \in Seq(Screen) /\ IsInjective(screens) /\ geo \in [Screen -> Rect]
      /\ \A s \in Screen \ Displayed : geo[s] = Nowhere
      /\ term \in Sizes
  BY DEF ScreensInv, STypeOK, ListsApart
<1>2. /\ k \in 1..Len(screens) /\ screens[k] = scr /\ Displayed \subseteq Screen
      /\ Displayed = ToSet(screens) /\ scr \in Screen
  BY DisplayedFacts DEF Displayed
<1>3. /\ Len(screens) > 1 /\ screens' = rest
      /\ \/ /\ Heirs(scr) # {}
            /\ \E t \in Heirs(scr) :
                 /\ geo' = [geo EXCEPT ![scr] = Nowhere,
                              ![t] = [ax \in Axis |-> Joined(geo[t][ax], geo[scr][ax])]]
                 /\ scr' = Focus(t)
         \/ /\ geo' = Layout(relayout(rest, term))
            /\ scr' = Focus(rest[Min({k, Len(rest)})])
  BY DEF discardCurrentScreen
<1> HIDE DEF k
<1>4. /\ rest \in Seq(Screen) /\ Len(rest) = Len(screens) - 1 /\ IsInjective(rest)
      /\ ToSet(rest) = Displayed \ {scr}
  BY <1>1, <1>2, RemoveAtResult, RemoveKeeps
<1> HIDE DEF rest
<1>5. \A t \in Heirs(scr) : t \in Displayed \ {scr}
  BY DEF Heirs, Preceding, Following
<1>6. CASE \E t \in Heirs(scr) :
             /\ geo' = [geo EXCEPT ![scr] = Nowhere,
                          ![t] = [ax \in Axis |-> Joined(geo[t][ax], geo[scr][ax])]]
             /\ scr' = Focus(t)
  <2>1. PICK t \in Displayed \ {scr} :
             /\ geo' = [geo EXCEPT ![scr] = Nowhere,
                          ![t] = [ax \in Axis |-> Joined(geo[t][ax], geo[scr][ax])]]
             /\ scr' = Focus(t)
    BY <1>5, <1>6
  <2>2. \A sp, sp2 \in Span : Joined(sp, sp2) \in Span
    <3> SUFFICES ASSUME NEW sp \in Span, NEW sp2 \in Span PROVE Joined(sp, sp2) \in Span
      OBVIOUS
    <3>1. sp.off \in Int /\ sp2.off \in Int /\ sp.len + sp2.len + 1 \in Int
      BY DEF Span
    <3>2. Min({sp.off, sp2.off}) \in Int
      BY <3>1, TwoExtremes
    <3> QED BY <3>1, <3>2 DEF Joined, Span
  <2>3. [ax \in Axis |-> Joined(geo[t][ax], geo[scr][ax])] \in Rect
    <3>1. geo[t] \in Rect /\ geo[scr] \in Rect
      BY <1>1, <1>2
    <3> QED BY <2>2, <3>1 DEF Rect
  <2>4. geo' \in [Screen -> Rect] /\ geo'[scr] = Nowhere
    BY <1>1, <1>2, <2>1, <2>3, RectsTyped
  <2>5. \A s \in Screen \ {scr, t} : geo'[s] = geo[s]
    BY <1>1, <2>1
  <2>6. scr' \in Displayed \ {scr}
    BY <1>4, <2>1
  <2> QED BY <1>1, <1>2, <1>3, <1>4, <2>4, <2>5, <2>6 DEF Displayed, rest, k
<1>7. CASE /\ geo' = Layout(relayout(rest, term))
           /\ scr' = Focus(rest[Min({k, Len(rest)})])
  <2>1. rest # <<>> /\ Len(rest) \in Nat \ {0}
    BY <1>1, <1>3, <1>4
  <2>2. relayout(rest, term) \in [ToSet(rest) -> Rect]
    BY <1>1, <1>4, <2>1, RelayoutTyped
  <2>3. ToSet(rest) \in SUBSET Screen
    BY <1>2, <1>4
  <2>4. geo' \in [Screen -> Rect] /\ \A s \in Screen \ ToSet(rest) : geo'[s] = Nowhere
    <3> DEFINE D == ToSet(rest)
               R == relayout(rest, term)
    <3>1. D \in SUBSET Screen /\ R \in [D -> Rect] /\ geo' = Layout(R)
      BY <1>7, <2>2, <2>3
    <3> HIDE DEF D, R
    <3>2. /\ Layout(R) \in [Screen -> Rect]
          /\ \A s \in Screen \ D : Layout(R)[s] = Nowhere
      BY <3>1, LayoutTyped
    <3> QED BY <3>1, <3>2 DEF D
  <2>5. Min({k, Len(rest)}) \in 1..Len(rest)
    <3> DEFINE m == Len(rest)
    <3>1. k \in Int /\ k >= 1 /\ m \in Int /\ m >= 1
      BY <1>1, <1>2, <2>1
    <3> HIDE DEF m
    <3>2. Min({k, m}) = IF k <= m THEN k ELSE m
      BY <3>1, TwoExtremes
    <3> QED BY <3>1, <3>2 DEF m
  <2>6. rest[Min({k, Len(rest)})] \in ToSet(rest)
    <3> DEFINE i == Min({k, Len(rest)})
    <3> HIDE DEF i
    <3>1. i \in DOMAIN rest
      BY <1>4, <2>5 DEF i
    <3>2. rest[i] \in ToSet(rest)
      BY <3>1 DEF ToSet
    <3> QED BY <3>2 DEF i
  <2>7. scr' \in ToSet(rest)
    BY <1>7, <2>6
  <2> QED BY <1>3, <1>4, <2>4, <2>7 DEF Displayed, rest, k
<1> QED BY <1>3, <1>6, <1>7

-----------------------------------------------------------------------------
(* The operations. *)

\* Closing and splitting, as far as the display goes.
Shrunk ==
  /\ screens' \in Seq(Screen) /\ IsInjective(screens')
  /\ screens' = RemoveAt(screens, Place(screens, scr))
  /\ Displayed' = Displayed \ {scr} /\ scr' \in Displayed'
  /\ geo' \in [Screen -> Rect]
  /\ \A s \in Screen \ Displayed' : geo'[s] = Nowhere

\* What a step may make of the screens: a closed one is gone, no other.
Keeps ==
  \A s \in Live \ Live' :
    s = scr /\ screens' = RemoveAt(screens, Place(screens, scr)) /\ bg' = bg

\* A new screen of its own, from a split or a command line window.
LEMMA NewScreenStep ==
  ASSUME ScreensInv, NEW ns \in Screen,
         \/ \E ax \in Axis, up \in BOOLEAN : editNewScreen(ns, ax, up)
         \/ ceditOpen(ns)
  PROVE  ScreensInv' /\ Keeps
<1>1. /\ ns \notin Live /\ UNCHANGED <<bg, term>>
      /\ \/ \E up : vsSplit(ns, up, FALSE) \/ vsplitVert(ns)
         \/ vsSplit(ns, FALSE, TRUE)
  BY DEF editNewScreen, ceditOpen
<1>2. ns \in Screen \ Displayed /\ ns \notin ToSet(bg)
  BY <1>1 DEF Live
<1>3. PICK ax \in Axis, kept \in Span, given \in Span : Divide(ns, ax, kept, given)
  BY <1>1, <1>2, SplitStep
<1>4. /\ screens' \in Seq(Screen) /\ IsInjective(screens')
      /\ Displayed' = Displayed \cup {ns} /\ scr' = ns
      /\ geo' \in [Screen -> Rect]
      /\ \A s \in Screen \ Displayed' : geo'[s] = Nowhere
  BY <1>2, <1>3, DivideStep
<1>5. Live' = Live \cup {ns}
  BY <1>1, <1>4 DEF Live
<1>6. comedit' \subseteq Live' /\ cclParent' \in Screen \cup {None}
  BY <1>1, <1>5, DisplayedFacts DEF editNewScreen, ceditOpen, ScreensInv, STypeOK
<1>7. STypeOK'
  BY <1>1, <1>4, <1>6 DEF ScreensInv, STypeOK
<1>8. ListsApart'
  BY <1>1, <1>2, <1>4 DEF ScreensInv, ListsApart
<1> QED BY <1>5, <1>7, <1>8 DEF ScreensInv, Keeps

\* The active screen is closed or goes to the background.
LEMMA CloseStep ==
  ASSUME ScreensInv, finishQuit \/ ceditClose \/ exBg
  PROVE  ScreensInv' /\ Keeps
<1>1. CASE finishQuit
  <2>1. /\ discardCurrentScreen(None) /\ Forget(scr) /\ UNCHANGED <<bg, term>>
    BY <1>1 DEF finishQuit
  <2>2. Shrunk
    BY <2>1, DiscardStep DEF Shrunk
  <2>3. Live' = (Displayed \ {scr}) \cup ToSet(bg)
    BY <2>1, <2>2 DEF Shrunk, Live
  <2>4. comedit' \subseteq Live' /\ cclParent' \in Screen \cup {None}
    BY <2>1, <2>3 DEF Forget, ScreensInv, STypeOK, Live
  <2>5. STypeOK' /\ ListsApart'
    BY <2>1, <2>2, <2>4 DEF Shrunk, ScreensInv, STypeOK, ListsApart
  <2> QED BY <2>1, <2>2, <2>3, <2>5 DEF ScreensInv, Keeps, Shrunk, Live
<1>2. CASE ceditClose
  <2>1. cclParent' = None /\ UNCHANGED <<bg, term>>
    BY <1>2 DEF ceditClose
  <2>2. CASE discardCurrentScreen(cclParent) /\ comedit' = comedit \ {scr}
    <3>1. Shrunk
      BY <2>2, DiscardStep DEF Shrunk
    <3>2. Live' = (Displayed \ {scr}) \cup ToSet(bg)
      BY <2>1, <3>1 DEF Shrunk, Live
    <3>3. comedit' \subseteq Live' /\ cclParent' \in Screen \cup {None}
      BY <2>1, <2>2, <3>2 DEF ScreensInv, STypeOK, Live
    <3>4. STypeOK' /\ ListsApart'
      BY <2>1, <3>1, <3>3 DEF Shrunk, ScreensInv, STypeOK, ListsApart
    <3> QED BY <2>1, <3>1, <3>2, <3>4 DEF ScreensInv, Keeps, Shrunk, Live
  <2>3. CASE UNCHANGED <<screens, scr, geo, comedit>>
    BY <2>1, <2>3 DEF ScreensInv, STypeOK, ListsApart, Displayed, Live, Keeps
  <2> QED BY <1>2, <2>2, <2>3 DEF ceditClose
<1>3. CASE exBg
  <2>1. /\ discardCurrentScreen(None) /\ bg' = Append(bg, scr)
        /\ UNCHANGED <<term, comedit, cclParent>>
    BY <1>3 DEF exBg
  <2>2. Shrunk
    BY <2>1, DiscardStep DEF Shrunk
  <2>3. /\ bg \in Seq(Screen) /\ IsInjective(bg) /\ scr \in Displayed /\ scr \in Screen
        /\ scr \notin ToSet(bg)
    BY DisplayedFacts DEF ScreensInv, STypeOK, ListsApart
  <2>4. /\ bg' \in Seq(Screen) /\ IsInjective(bg') /\ ToSet(bg') = ToSet(bg) \cup {scr}
    BY <2>1, <2>3, AppendKeeps
  <2>5. Live' = Live
    BY <2>2, <2>3, <2>4 DEF Shrunk, Live
  <2>6. STypeOK'
    BY <2>1, <2>2, <2>4, <2>5 DEF Shrunk, ScreensInv, STypeOK
  <2>7. ListsApart'
    BY <2>2, <2>3, <2>4 DEF Shrunk, ScreensInv, ListsApart
  <2> QED BY <2>5, <2>6, <2>7 DEF ScreensInv, Keeps
<1> QED BY <1>1, <1>2, <1>3

\* What is left in the background when a screen is taken out.
LEMMA TakeBg ==
  ASSUME ScreensInv, NEW i \in DOMAIN bg
  PROVE  /\ bg[i] \in Screen \ Displayed
         /\ takeBg(i) \in Seq(Screen) /\ IsInjective(takeBg(i))
         /\ ToSet(takeBg(i)) = ToSet(bg) \ {bg[i]} /\ bg[i] \in ToSet(bg)
<1>1. bg \in Seq(Screen) /\ IsInjective(bg) /\ Displayed \cap ToSet(bg) = {}
  BY DEF ScreensInv, STypeOK, ListsApart
<1>2. i \in 1..Len(bg) /\ bg[i] \in ToSet(bg) /\ bg[i] \in Screen
  BY DisplayedFacts, <1>1 DEF ToSet
<1> QED BY <1>1, <1>2, RemoveAtResult, RemoveKeeps DEF takeBg

\* A background screen takes the place of the active one, or a part of it.
LEMMA ForegroundStep ==
  ASSUME ScreensInv, NEW i \in DOMAIN bg,
         exFg(i) \/ \E up \in BOOLEAN : fgNewScreen(i, up)
  PROVE  ScreensInv' /\ Live' = Live
<1> DEFINE nsp == bg[i]
<1>1. /\ nsp \in Screen \ Displayed /\ nsp \in ToSet(bg)
      /\ takeBg(i) \in Seq(Screen) /\ IsInjective(takeBg(i))
      /\ ToSet(takeBg(i)) = ToSet(bg) \ {nsp}
  BY TakeBg
<1>2. /\ screens \in Seq(Screen) /\ IsInjective(screens) /\ geo \in [Screen -> Rect]
      /\ \A s \in Screen \ Displayed : geo[s] = Nowhere
      /\ Displayed \cap ToSet(bg) = {} /\ Displayed = ToSet(screens)
      /\ term \in Sizes /\ comedit \subseteq Live /\ cclParent \in Screen \cup {None}
  BY DEF ScreensInv, STypeOK, ListsApart, Displayed
<1>3. scr \in Displayed /\ scr \in Screen
  BY DisplayedFacts
<1> HIDE DEF nsp
<1>4. CASE exFg(i)
  <2> DEFINE swapped == [geo EXCEPT ![scr] = Nowhere, ![nsp] = geo[scr]]
             replaced == ReplaceAll(screens, scr, nsp)
  <2>1. /\ bg' = Append(takeBg(i), scr) /\ geo' = swapped
        /\ screens' = InOrder(replaced, swapped) /\ scr' = nsp
        /\ UNCHANGED <<term, comedit, cclParent>>
    BY <1>4 DEF exFg, nsp
  <2>2. /\ replaced \in Seq(Screen) /\ IsInjective(replaced)
        /\ ToSet(replaced) = (Displayed \ {scr}) \cup {nsp}
    BY <1>1, <1>2, <1>3, ReplaceKeeps
  <2>3. /\ geo' \in [Screen -> Rect]
        /\ \A s \in Screen : geo'[s] = IF s = nsp THEN geo[scr]
                                       ELSE IF s = scr THEN Nowhere ELSE geo[s]
    BY <1>1, <1>2, <1>3, <2>1, RectsTyped
  <2> HIDE DEF replaced, swapped
  <2>4. /\ screens' \in Seq(Screen) /\ IsInjective(screens')
        /\ Displayed' = (Displayed \ {scr}) \cup {nsp}
    BY <2>1, <2>2, InOrderResult DEF Displayed
  <2>5. /\ bg' \in Seq(Screen) /\ IsInjective(bg')
        /\ ToSet(bg') = (ToSet(bg) \ {nsp}) \cup {scr}
    <3>1. scr \notin ToSet(takeBg(i))
      BY <1>1, <1>2, <1>3
    <3> QED BY <1>1, <1>3, <2>1, <3>1, AppendKeeps
  <2>6. Live' = Live
    BY <1>1, <1>2, <1>3, <2>4, <2>5 DEF Live
  <2>7. STypeOK'
    BY <1>1, <1>2, <2>1, <2>3, <2>4, <2>5, <2>6 DEF STypeOK
  <2>8. ListsApart'
    BY <1>1, <1>2, <1>3, <2>4, <2>5 DEF ListsApart
  <2> QED BY <2>6, <2>7, <2>8 DEF ScreensInv
<1>5. CASE \E up \in BOOLEAN : fgNewScreen(i, up)
  <2>1. PICK up \in BOOLEAN : fgNewScreen(i, up)
    BY <1>5
  <2>2. CASE /\ bg' = takeBg(i) /\ vsSplit(nsp, up, FALSE)
             /\ UNCHANGED <<term, comedit, cclParent>>
    <3>1. PICK ax \in Axis, kept \in Span, given \in Span : Divide(nsp, ax, kept, given)
      BY <1>1, <2>2, SplitStep
    <3>2. /\ screens' \in Seq(Screen) /\ IsInjective(screens')
          /\ Displayed' = Displayed \cup {nsp} /\ scr' = nsp
          /\ geo' \in [Screen -> Rect]
          /\ \A s \in Screen \ Displayed' : geo'[s] = Nowhere
      BY <1>1, <3>1, DivideStep
    <3>3. Live' = Live
      BY <1>1, <2>2, <3>2 DEF Live
    <3>4. STypeOK'
      BY <1>1, <1>2, <2>2, <3>2, <3>3 DEF STypeOK
    <3>5. ListsApart'
      BY <1>1, <1>2, <2>2, <3>2 DEF ListsApart
    <3> QED BY <3>3, <3>4, <3>5 DEF ScreensInv
  <2>3. CASE /\ bg' = Append(takeBg(i), nsp)
             /\ UNCHANGED <<screens, scr, geo, term, comedit, cclParent>>
    <3>1. /\ bg' \in Seq(Screen) /\ IsInjective(bg') /\ ToSet(bg') = ToSet(bg)
      <4> DEFINE q == takeBg(i)
      <4>1. /\ q \in Seq(Screen) /\ IsInjective(q) /\ ToSet(q) = ToSet(bg) \ {nsp}
            /\ nsp \notin ToSet(q) /\ nsp \in Screen /\ nsp \in ToSet(bg)
            /\ bg' = Append(q, nsp)
        BY <1>1, <2>3
      <4> HIDE DEF q
      <4>2. /\ Append(q, nsp) \in Seq(Screen) /\ IsInjective(Append(q, nsp))
            /\ ToSet(Append(q, nsp)) = ToSet(q) \cup {nsp}
        BY <4>1, AppendKeeps
      <4> QED BY <4>1, <4>2
    <3>2. Displayed' = Displayed /\ Live' = Live
      BY <2>3, <3>1 DEF Displayed, Live
    <3> QED BY <1>2, <1>3, <2>3, <3>1, <3>2 DEF ScreensInv, STypeOK, ListsApart
  <2> QED BY <2>1, <2>2, <2>3 DEF fgNewScreen, nsp
<1> QED BY <1>4, <1>5

\* How far a divider goes: the way it was dragged or not at all, not further
\* than it was dragged, and the screens that shrink by it keep their minimum.
LEMMA ClampedResult ==
  ASSUME ScreensInv, NEW shrinking \in SUBSET Displayed, NEW ax \in Axis,
         NEW d \in Int
  PROVE  LET c == Clamped(shrinking, ax, d) IN
         /\ c \in Int
         /\ d > 0 => /\ c <= d
                     /\ \A t \in shrinking : c <= geo[t][ax].len - MinLen(ax)
                     /\ c = d \/ \E t \in shrinking : c = geo[t][ax].len - MinLen(ax)
         /\ ~(d > 0) => /\ -c <= -d
                        /\ \A t \in shrinking : -c <= geo[t][ax].len - MinLen(ax)
                        /\ c = d \/ \E t \in shrinking : -c = geo[t][ax].len - MinLen(ax)
<1> DEFINE f == [t \in shrinking |-> geo[t][ax].len - MinLen(ax)]
           room == {geo[t][ax].len - MinLen(ax) : t \in shrinking}
<1>1. IsFiniteSet(shrinking)
  <2>1. IsFiniteSet(Displayed)
    BY ListSize DEF ScreensInv, STypeOK, Displayed
  <2> QED BY <2>1, FS_Subset
<1>2. f \in [shrinking -> Int]
  <2>1. MinLen(ax) \in Int
    BY ScreensAssumption DEF MinLen
  <2>2. \A t \in shrinking : geo[t][ax].len \in Int
    BY DisplayedFacts, SpanTyped DEF ScreensInv, STypeOK
  <2> QED BY <2>1, <2>2
<1>3. ASSUME NEW e \in Int
      PROVE  LET m == Min(room \cup {e}) IN
             /\ m \in Int /\ m <= e
             /\ \A t \in shrinking : m <= geo[t][ax].len - MinLen(ax)
             /\ m = e \/ \E t \in shrinking : m = geo[t][ax].len - MinLen(ax)
  <2> DEFINE T == room \cup {e}
  <2>1. T = WithValues(e, f) /\ \A y : y \in T <=> y = e \/ \E t \in shrinking : y = f[t]
    BY DEF WithValues
  <2>2. \A t \in shrinking : f[t] = geo[t][ax].len - MinLen(ax)
    OBVIOUS
  <2> HIDE DEF T, f, room
  <2>3. Min(T) \in T /\ T \in SUBSET Int /\ \A y \in T : Min(T) <= y
    BY <1>1, <1>2, <2>1, ExtremesOf
  <2>4. Min(T) \in Int /\ Min(T) <= e
    BY <2>1, <2>3
  <2>5. \A t \in shrinking : Min(T) <= geo[t][ax].len - MinLen(ax)
    BY <2>1, <2>2, <2>3
  <2>6. Min(T) = e \/ \E t \in shrinking : Min(T) = geo[t][ax].len - MinLen(ax)
    BY <2>1, <2>2, <2>3
  <2> QED BY <2>4, <2>5, <2>6 DEF T
<1>4. Clamped(shrinking, ax, d) =
        IF d > 0 THEN Min(room \cup {d}) ELSE -Min(room \cup {-d})
  BY DEF Clamped
<1> DEFINE m(e) == Min(room \cup {e})
<1>5. \A e \in Int : /\ m(e) \in Int /\ m(e) <= e
                     /\ \A t \in shrinking : m(e) <= geo[t][ax].len - MinLen(ax)
                     /\ m(e) = e \/ \E t \in shrinking : m(e) = geo[t][ax].len - MinLen(ax)
  BY <1>3
<1>6. Clamped(shrinking, ax, d) = IF d > 0 THEN m(d) ELSE -m(-d)
  BY <1>4
<1> HIDE DEF m, room, f
<1>7. CASE d > 0
  BY <1>5, <1>6, <1>7
<1>8. CASE ~(d > 0)
  <2> DEFINE c == Clamped(shrinking, ax, d)
  <2>1. -d \in Int /\ c = -m(-d) /\ m(-d) \in Int /\ -c = m(-d)
    BY <1>5, <1>6, <1>8
  <2> HIDE DEF c
  <2>2. /\ c \in Int /\ -c <= -d
        /\ \A t \in shrinking : -c <= geo[t][ax].len - MinLen(ax)
    BY <1>5, <2>1
  <2>3. m(-d) = -d => c = d
    BY <2>1
  <2>4. c = d \/ \E t \in shrinking : -c = geo[t][ax].len - MinLen(ax)
    BY <1>5, <2>1, <2>3
  <2> QED BY <1>8, <2>2, <2>4 DEF c
<1> QED BY <1>7, <1>8

\* The focus, the borders and the size of the terminal.
LEMMA BorderStep ==
  ASSUME ScreensInv,
         \/ \E size \in Sizes : Resize(size)
         \/ switchScreen
         \/ \E s \in Displayed : \/ FocusPane(s)
                                 \/ \E ax \in Axis, d \in Deltas : DragDivider(s, ax, d)
         \/ \E d \in Deltas : resizeScreen(d)
  PROVE  ScreensInv' /\ Live' = Live
<1>1. /\ screens \in Seq(Screen) /\ geo \in [Screen -> Rect]
      /\ \A s \in Screen \ Displayed : geo[s] = Nowhere
      /\ Displayed = ToSet(screens)
  BY DEF ScreensInv, STypeOK, Displayed
<1>2. /\ Displayed \subseteq Screen /\ scr \in Displayed /\ screens # <<>>
      /\ Len(screens) \in Nat \ {0} /\ DOMAIN screens = 1..Len(screens)
      /\ Place(screens, scr) \in 1..Len(screens)
  BY DisplayedFacts
<1>3. CASE \E size \in Sizes : Resize(size)
  <2>1. PICK size \in Sizes : Resize(size)
    BY <1>3
  <2>2. UNCHANGED <<screens, bg, scr, comedit, cclParent>> /\ term' = size
    BY <2>1 DEF Resize
  <2>3. geo' \in [Screen -> Rect] /\ \A s \in Screen \ Displayed : geo'[s] = Nowhere
    <3>1. CASE geo' = [geo EXCEPT ![scr] = Whole(size)]
      BY <1>1, <1>2, <3>1, RectsTyped
    <3>2. CASE geo' = Layout(relayout(screens, size))
      <4> DEFINE R == relayout(screens, size)
      <4>1. R \in [Displayed -> Rect] /\ Displayed \in SUBSET Screen /\ geo' = Layout(R)
        BY <1>1, <1>2, <3>2, RelayoutTyped
      <4> HIDE DEF R
      <4> QED BY <4>1, LayoutTyped
    <3> QED BY <2>1, <3>1, <3>2 DEF Resize
  <2> QED BY <2>2, <2>3, GeometryStep
<1>4. CASE switchScreen
  <2>1. /\ scr' = screens[(Place(screens, scr) % Len(screens)) + 1]
        /\ UNCHANGED <<screens, bg, geo, term, comedit, cclParent>>
    BY <1>4 DEF switchScreen
  <2>2. (Place(screens, scr) % Len(screens)) + 1 \in 1..Len(screens)
    <3> DEFINE n == Len(screens)
               k == Place(screens, scr)
    <3>1. n \in Nat \ {0} /\ k \in 1..n
      BY <1>2
    <3> HIDE DEF n, k
    <3>2. k % n \in 0..(n - 1)
      BY <3>1
    <3>3. (k % n) + 1 \in 1..n
      BY <3>1, <3>2
    <3> QED BY <3>3 DEF n, k
  <2>3. scr' \in Displayed
    <3> DEFINE j == (Place(screens, scr) % Len(screens)) + 1
    <3>1. j \in DOMAIN screens /\ scr' = screens[j]
      BY <1>2, <2>1, <2>2
    <3> HIDE DEF j
    <3> QED BY <3>1 DEF Displayed, ToSet
  <2> QED BY <2>1, <2>3 DEF ScreensInv, STypeOK, ListsApart, Displayed, Live
<1>5. ASSUME NEW s \in Displayed, FocusPane(s)
      PROVE  ScreensInv' /\ Live' = Live
  BY <1>5 DEF FocusPane, ScreensInv, STypeOK, ListsApart, Displayed, Live
<1>6. \A d \in Deltas : d \in Int /\ -d \in Int
  BY ScreensAssumption
<1>7. ASSUME NEW s \in Displayed, NEW ax \in Axis, NEW d \in Deltas, DragDivider(s, ax, d)
      PROVE  ScreensInv' /\ Live' = Live
  <2> DEFINE x == Border(geo[s], ax)
             before == {t \in Segment(s, ax) : Border(geo[t], ax) = x}
             after == {t \in Segment(s, ax) : geo[t][ax].off = x + 1}
             by == Clamped(IF d > 0 THEN after ELSE before, ax, d)
  <2>1. Moved(before, after, ax, by)
    BY <1>7 DEF DragDivider
  <2>2. Segment(s, ax) \subseteq Displayed
    BY DEF Segment
  <2>3. before \in SUBSET Displayed /\ after \in SUBSET Displayed
    BY <2>2
  <2> HIDE DEF before, after
  <2>4. by \in Int
    <3>1. (IF d > 0 THEN after ELSE before) \in SUBSET Displayed
      BY <2>3
    <3> QED BY <1>6, <3>1, ClampedResult
  <2> HIDE DEF by
  <2> QED BY <2>1, <2>3, <2>4, MovedStep
<1>8. ASSUME NEW d \in Deltas, resizeScreen(d)
      PROVE  ScreensInv' /\ Live' = Live
  <2>1. Preceding(scr, "row") \subseteq Displayed /\ Following(scr, "row") \subseteq Displayed
    BY DEF Preceding, Following
  <2>2. \E t \in Displayed : \/ Moved({scr}, {t}, "row", d)
                             \/ Moved({t}, {scr}, "row", -d)
    BY <1>8, <2>1 DEF resizeScreen
  <2>3. PICK t \in Displayed : \/ Moved({scr}, {t}, "row", d)
                               \/ Moved({t}, {scr}, "row", -d)
    BY <2>2
  <2>4. {scr} \in SUBSET Displayed /\ {t} \in SUBSET Displayed
    BY <1>2
  <2> QED BY <1>6, <2>3, <2>4, MovedStep DEF Axis
<1> QED BY <1>3, <1>4, <1>5, <1>7, <1>8

\* Every step keeps the invariant, and every screen that it does not close.
LEMMA StepKeeps ==
  ASSUME ScreensInv, SNext
  PROVE  ScreensInv' /\ Keeps
<1>1. ASSUME Live' = Live PROVE Keeps
  BY <1>1 DEF Keeps
<1>2. CASE \E size \in Sizes : Resize(size)
  BY <1>1, <1>2, BorderStep
<1>3. CASE \E ns \in Screen : \/ \E ax \in Axis, up \in BOOLEAN : editNewScreen(ns, ax, up)
                              \/ ceditOpen(ns)
  BY <1>3, NewScreenStep
<1>4. CASE finishQuit \/ ceditClose \/ exBg
  BY <1>4, CloseStep
<1>5. CASE \E i \in DOMAIN bg : exFg(i) \/ \E up \in BOOLEAN : fgNewScreen(i, up)
  BY <1>1, <1>5, ForegroundStep
<1>6. CASE switchScreen
  BY <1>1, <1>6, BorderStep
<1>7. CASE \E s \in Displayed : \/ FocusPane(s)
                                \/ \E ax \in Axis, d \in Deltas : DragDivider(s, ax, d)
  BY <1>1, <1>7, BorderStep
<1>8. CASE \E d \in Deltas : resizeScreen(d)
  BY <1>1, <1>8, BorderStep
<1> QED BY <1>2, <1>3, <1>4, <1>5, <1>6, <1>7, <1>8 DEF SNext

\* The editor starts with one screen.
LEMMA InitInv ==
  SInit => ScreensInv
<1> SUFFICES ASSUME SInit PROVE ScreensInv
  OBVIOUS
<1>1. PICK s \in Screen, size \in Sizes :
        /\ screens = <<s>> /\ bg = <<>> /\ scr = s
        /\ geo = [t \in Screen |-> IF t = s THEN Whole(size) ELSE Nowhere]
        /\ term = size
        /\ comedit = {} /\ cclParent = None
  BY DEF SInit
<1>2. /\ screens \in Seq(Screen) /\ DOMAIN screens = {1} /\ screens[1] = s
      /\ bg \in Seq(Screen) /\ DOMAIN bg = {}
  BY <1>1
<1>3. Displayed = {s} /\ ToSet(bg) = {}
  BY <1>2 DEF Displayed, ToSet
<1>4. geo \in [Screen -> Rect]
  BY <1>1, RectsTyped
<1>5. STypeOK
  BY <1>1, <1>2, <1>3, <1>4 DEF STypeOK
<1>6. ListsApart
  BY <1>2, <1>3 DEF ListsApart, IsInjective
<1> QED BY <1>5, <1>6 DEF ScreensInv

\* The invariant holds in every reachable state.
LEMMA AlwaysInv ==
  SSpec => []ScreensInv
<1>1. ScreensInv /\ [SNext]_svars => ScreensInv'
  <2> SUFFICES ASSUME ScreensInv, [SNext]_svars PROVE ScreensInv'
    OBVIOUS
  <2>1. CASE SNext
    BY <2>1, StepKeeps
  <2>2. CASE UNCHANGED svars
    BY <2>2 DEF svars, ScreensInv, STypeOK, ListsApart, Displayed, Live
  <2> QED BY <2>1, <2>2
<1> QED BY <1>1, InitInv, PTL DEF SSpec

-----------------------------------------------------------------------------
(***************************************************************************)
(* The tiling, cell by cell: every place of the display belongs to exactly  *)
(* one screen.                                                              *)
(***************************************************************************)

\* The places of the display along an axis, the outermost dividers included.
Lim(ax, size) == IF ax = "row" THEN size.h ELSE size.w + 1

Cells(size) == {p \in [Axis -> Int] : \A ax \in Axis : 0 <= p[ax] /\ p[ax] < Lim(ax, size)}

On(g, ax, x) == g[ax].off <= x /\ x < After(g, ax)
In(g, p) == \A ax \in Axis : On(g, ax, p[ax])

\* A rectangle inside the display, with room for text.
Within(g, size) ==
  \A ax \in Axis : g[ax].off >= 0 /\ g[ax].len >= 1 /\ After(g, ax) <= Lim(ax, size)

Single(S, g, size) ==
  \A p \in Cells(size), s \in S, t \in S : In(g[s], p) /\ In(g[t], p) => s = t

Tiles(D, g, size) ==
  /\ \A s \in D : Within(g[s], size)
  /\ \A p \in Cells(size) : \E s \in D : In(g[s], p)
  /\ Single(D, g, size)

\* Either axis and the other one are all there are.
LEMMA AxesTwo ==
  ASSUME NEW ax \in Axis
  PROVE  Other(ax) \in Axis /\ Other(ax) # ax /\ Axis = {ax, Other(ax)}
BY DEF Axis, Other

LEMMA InAxes ==
  ASSUME NEW g, NEW p, NEW ax \in Axis
  PROVE  In(g, p) <=> On(g, ax, p[ax]) /\ On(g, Other(ax), p[Other(ax)])
BY AxesTwo DEF In

\* The cell at given places.
Cell(x, y) == [ax \in Axis |-> IF ax = "row" THEN x ELSE y]

\* Tiled says the same of borders.
LEMMA TiledIsTiles ==
  ASSUME NEW D \in SUBSET Screen, NEW g \in [Screen -> Rect], NEW size \in Sizes
  PROVE  ( /\ \A s \in D, ax \in Axis :
                /\ g[s][ax].off >= 0 /\ g[s][ax].len >= 1
                /\ After(g[s], ax) <= IF ax = "row" THEN size.h ELSE size.w + 1
           /\ \A s, t \in D : s # t => \E ax \in Axis : ~Overlap(g[s], g[t], ax)
           /\ \A r \in 0..(size.h - 1), c \in 0..size.w : \E s \in D : Covers(g[s], r, c) )
         <=> Tiles(D, g, size)
<1> DEFINE P == \A s \in D, ax \in Axis :
                  /\ g[s][ax].off >= 0 /\ g[s][ax].len >= 1
                  /\ After(g[s], ax) <= IF ax = "row" THEN size.h ELSE size.w + 1
           Q == \A s, t \in D : s # t => \E ax \in Axis : ~Overlap(g[s], g[t], ax)
           R == \A r \in 0..(size.h - 1), c \in 0..size.w : \E s \in D : Covers(g[s], r, c)
<1>1. size.h \in Nat /\ size.w \in Nat
  BY SizeTyped
<1>2. \A s \in D, ax \in Axis :
        g[s][ax].off \in Int /\ g[s][ax].len \in Int /\ After(g[s], ax) \in Int
        /\ After(g[s], ax) = g[s][ax].off + g[s][ax].len + 1
  BY SpanTyped
<1>3. P <=> \A s \in D : Within(g[s], size)
  BY DEF Within, Lim
<1>4. R <=> \A p \in Cells(size) : \E s \in D : In(g[s], p)
  <2>1. ASSUME R, NEW p \in Cells(size) PROVE \E s \in D : In(g[s], p)
    <3>1. p["row"] \in 0..(size.h - 1) /\ p["col"] \in 0..size.w
      BY <1>1 DEF Cells, Lim, Axis
    <3>2. PICK s \in D : Covers(g[s], p["row"], p["col"])
      BY <2>1, <3>1
    <3> QED BY <3>2 DEF Covers, In, On, Axis
  <2>2. ASSUME \A p \in Cells(size) : \E s \in D : In(g[s], p),
               NEW r \in 0..(size.h - 1), NEW c \in 0..size.w
        PROVE  \E s \in D : Covers(g[s], r, c)
    <3> DEFINE p == Cell(r, c)
    <3>1. p \in [Axis -> Int] /\ p["row"] = r /\ p["col"] = c
      BY <1>1 DEF Cell, Axis
    <3> HIDE DEF p
    <3>2. p \in Cells(size)
      BY <1>1, <3>1 DEF Cells, Lim, Axis
    <3>3. PICK s \in D : In(g[s], p)
      BY <2>2, <3>2
    <3> QED BY <3>1, <3>3 DEF Covers, In, On, Axis
  <2> QED BY <2>1, <2>2
<1>5. ASSUME P PROVE Q <=> Single(D, g, size)
  <2>1. ASSUME Q, NEW p \in Cells(size), NEW s \in D, NEW t \in D, In(g[s], p), In(g[t], p)
        PROVE  s = t
    <3>1. \A ax \in Axis : Overlap(g[s], g[t], ax)
      <4> SUFFICES ASSUME NEW ax \in Axis PROVE Overlap(g[s], g[t], ax)
        OBVIOUS
      <4>1. On(g[s], ax, p[ax]) /\ On(g[t], ax, p[ax]) /\ p[ax] \in Int
        BY <2>1 DEF In, Cells
      <4> QED BY <1>2, <4>1 DEF On, Overlap
    <3> QED BY <2>1, <3>1
  <2>2. ASSUME Single(D, g, size), NEW s \in D, NEW t \in D, s # t
        PROVE  \E ax \in Axis : ~Overlap(g[s], g[t], ax)
    <3> SUFFICES ASSUME \A ax \in Axis : Overlap(g[s], g[t], ax) PROVE FALSE
      OBVIOUS
    <3> DEFINE p == [ax \in Axis |-> IF g[s][ax].off <= g[t][ax].off THEN g[t][ax].off
                                                                    ELSE g[s][ax].off]
    <3>1. \A ax \in Axis : /\ p[ax] = g[t][ax].off \/ p[ax] = g[s][ax].off
                           /\ g[s][ax].off <= p[ax] /\ g[t][ax].off <= p[ax]
      BY <1>2
    <3>2. p \in [Axis -> Int]
      BY <1>2
    <3> HIDE DEF p
    <3>3. ASSUME NEW ax \in Axis PROVE On(g[s], ax, p[ax]) /\ On(g[t], ax, p[ax])
      <4>1. /\ g[s][ax].off < After(g[t], ax) /\ g[t][ax].off < After(g[s], ax)
            /\ g[s][ax].off < After(g[s], ax) /\ g[t][ax].off < After(g[t], ax)
        BY <1>2, <1>5 DEF Overlap
      <4> QED BY <1>2, <3>1, <4>1 DEF On
    <3>4. p \in Cells(size)
      <4> SUFFICES ASSUME NEW ax \in Axis PROVE 0 <= p[ax] /\ p[ax] < Lim(ax, size)
        BY <3>2 DEF Cells
      <4>1. 0 <= g[s][ax].off /\ After(g[s], ax) <= Lim(ax, size) /\ Lim(ax, size) \in Int
        BY <1>1, <1>5 DEF Lim
      <4> QED BY <1>2, <3>2, <3>3, <4>1 DEF On
    <3> QED BY <2>2, <3>3, <3>4 DEF Single, In
  <2> QED BY <2>1, <2>2 DEF Single
<1> HIDE DEF P, Q, R
<1>6. P /\ Q /\ R <=> Tiles(D, g, size)
  BY <1>3, <1>4, <1>5 DEF Tiles
<1> QED BY <1>6 DEF P, Q, R

\* Some screens are replaced by others on the same cells.
LEMMA Retile ==
  ASSUME NEW D, NEW g, NEW size, Tiles(D, g, size),
         NEW E, NEW k, NEW Old \in SUBSET D, NEW New \in SUBSET E,
         D \ Old = E \ New, \A s \in D \ Old : k[s] = g[s],
         \A s \in New : Within(k[s], size),
         \A p \in Cells(size) : (\E s \in Old : In(g[s], p)) <=> (\E s \in New : In(k[s], p)),
         Single(New, k, size)
  PROVE  Tiles(E, k, size)
<1>1. \A s \in E : Within(k[s], size)
  BY DEF Tiles
<1>2. ASSUME NEW p \in Cells(size) PROVE \E s \in E : In(k[s], p)
  <2>1. PICK s \in D : In(g[s], p)
    BY DEF Tiles
  <2>2. CASE s \in Old
    BY <2>1, <2>2
  <2>3. CASE s \notin Old
    BY <2>1, <2>3
  <2> QED BY <2>2, <2>3
<1>3. ASSUME NEW p \in Cells(size), NEW s \in E, NEW t \in E, In(k[s], p), In(k[t], p)
      PROVE  s = t
  <2>1. \A a \in D, b \in D : In(g[a], p) /\ In(g[b], p) => a = b
    BY DEF Tiles, Single
  <2>2. CASE s \in New /\ t \in New
    BY <1>3, <2>2 DEF Single
  <2>3. CASE s \notin New /\ t \notin New
    BY <1>3, <2>1, <2>3
  <2>4. CASE s \in New /\ t \notin New
    <3>1. PICK o \in Old : In(g[o], p)
      BY <1>3, <2>4
    <3> QED BY <1>3, <2>1, <2>4, <3>1
  <2>5. CASE s \notin New /\ t \in New
    <3>1. PICK o \in Old : In(g[o], p)
      BY <1>3, <2>5
    <3> QED BY <1>3, <2>1, <2>5, <3>1
  <2> QED BY <2>2, <2>3, <2>4, <2>5
<1> QED BY <1>1, <1>2, <1>3 DEF Tiles, Single

\* Tiled, now and after a step, in cells.
LEMMA TiledNow ==
  ASSUME ScreensInv
  PROVE  Tiled <=> Tiles(Displayed, geo, term)
<1>1. Displayed \in SUBSET Screen /\ geo \in [Screen -> Rect] /\ term \in Sizes
  BY DisplayedFacts DEF ScreensInv, STypeOK
<1> QED BY <1>1, TiledIsTiles DEF Tiled

LEMMA TiledThen ==
  ASSUME NEW D \in SUBSET Screen, Displayed' = D, geo' \in [Screen -> Rect], term' \in Sizes,
         Tiles(D, geo', term')
  PROVE  Tiled'
<1> DEFINE g == geo'
           size == term'
<1>1. g \in [Screen -> Rect] /\ size \in Sizes /\ Tiles(D, g, size)
  OBVIOUS
<1> HIDE DEF g, size
<1>2. /\ \A s \in D, ax \in Axis :
           /\ g[s][ax].off >= 0 /\ g[s][ax].len >= 1
           /\ After(g[s], ax) <= IF ax = "row" THEN size.h ELSE size.w + 1
      /\ \A s, t \in D : s # t => \E ax \in Axis : ~Overlap(g[s], g[t], ax)
      /\ \A r \in 0..(size.h - 1), c \in 0..size.w : \E s \in D : Covers(g[s], r, c)
  BY <1>1, TiledIsTiles
<1> QED BY <1>2 DEF Tiled, g, size

-----------------------------------------------------------------------------
(* Dividing a rectangle, and joining two. *)

\* Two rectangles with a border between them across ax make up g.
Parts(g, a, b, ax) ==
  /\ a[Other(ax)] = g[Other(ax)] /\ b[Other(ax)] = g[Other(ax)]
  /\ a[ax].off = g[ax].off /\ After(a, ax) = b[ax].off /\ After(b, ax) = After(g, ax)
  /\ a[ax].len >= 1 /\ b[ax].len >= 1

LEMMA PartsResult ==
  ASSUME NEW g \in Rect, NEW a \in Rect, NEW b \in Rect, NEW ax \in Axis, Parts(g, a, b, ax),
         NEW size \in Sizes
  PROVE  /\ \A p \in Cells(size) : /\ In(g, p) <=> In(a, p) \/ In(b, p)
                                   /\ ~(In(a, p) /\ In(b, p))
         /\ Within(g, size) <=> Within(a, size) /\ Within(b, size)
<1> DEFINE o == Other(ax)
<1>1. o \in Axis /\ o # ax /\ Axis = {ax, o}
  BY AxesTwo
<1>2. /\ g[ax].off \in Int /\ g[ax].len \in Int /\ After(g, ax) = g[ax].off + g[ax].len + 1
      /\ a[ax].off \in Int /\ a[ax].len \in Int /\ After(a, ax) = a[ax].off + a[ax].len + 1
      /\ b[ax].off \in Int /\ b[ax].len \in Int /\ After(b, ax) = b[ax].off + b[ax].len + 1
  BY SpanTyped
<1>3. /\ a[o] = g[o] /\ b[o] = g[o] /\ After(a, o) = After(g, o) /\ After(b, o) = After(g, o)
  BY DEF Parts, After, Border
<1>4. /\ a[ax].off = g[ax].off /\ After(a, ax) = b[ax].off /\ After(b, ax) = After(g, ax)
      /\ a[ax].len >= 1 /\ b[ax].len >= 1
  BY DEF Parts
<1>5. ASSUME NEW p \in Cells(size)
      PROVE  (In(g, p) <=> In(a, p) \/ In(b, p)) /\ ~(In(a, p) /\ In(b, p))
  <2>1. p[ax] \in Int
    BY DEF Cells
  <2>2. On(g, ax, p[ax]) <=> On(a, ax, p[ax]) \/ On(b, ax, p[ax])
    BY <1>2, <1>4, <2>1 DEF On
  <2>3. ~(On(a, ax, p[ax]) /\ On(b, ax, p[ax]))
    BY <1>2, <1>4, <2>1 DEF On
  <2>4. /\ On(a, o, p[o]) <=> On(g, o, p[o])
        /\ On(b, o, p[o]) <=> On(g, o, p[o])
    BY <1>3 DEF On
  <2> QED BY <2>2, <2>3, <2>4, InAxes
<1>6. Within(g, size) <=> Within(a, size) /\ Within(b, size)
  <2> DEFINE Fits(r, x) == r[x].off >= 0 /\ r[x].len >= 1 /\ After(r, x) <= Lim(x, size)
  <2>1. \A r : Within(r, size) <=> Fits(r, ax) /\ Fits(r, o)
    BY <1>1 DEF Within
  <2>2. Fits(a, o) <=> Fits(g, o)
    BY <1>3
  <2>3. Fits(b, o) <=> Fits(g, o)
    BY <1>3
  <2>4. Fits(g, ax) <=> Fits(a, ax) /\ Fits(b, ax)
    <3>1. Lim(ax, size) \in Int
      BY SizeTyped DEF Lim
    <3> QED BY <1>2, <1>4, <3>1
  <2> HIDE DEF Fits
  <2> QED BY <2>1, <2>2, <2>3, <2>4
<1> QED BY <1>5, <1>6

\* Dividing the active screen keeps the tiling.
LEMMA DivideTiles ==
  ASSUME ScreensInv, Tiled, NEW ns \in Screen \ Displayed, NEW ax \in Axis,
         NEW kept \in Span, NEW given \in Span, Divide(ns, ax, kept, given),
         kept.len >= 1, given.len >= 1, term' = term,
         \/ /\ kept.off = geo[scr][ax].off /\ kept.off + kept.len + 1 = given.off
            /\ given.off + given.len = geo[scr][ax].off + geo[scr][ax].len
         \/ /\ given.off = geo[scr][ax].off /\ given.off + given.len + 1 = kept.off
            /\ kept.off + kept.len = geo[scr][ax].off + geo[scr][ax].len
  PROVE  Tiled'
<1> DEFINE g == geo[scr]
           a == [geo[scr] EXCEPT ![ax] = kept]
           b == [geo[scr] EXCEPT ![ax] = given]
           New == {scr, ns}
           E == Displayed \cup {ns}
<1>1. /\ geo \in [Screen -> Rect] /\ scr \in Displayed /\ scr \in Screen /\ scr # ns
      /\ Displayed \subseteq Screen /\ term \in Sizes
  BY DisplayedFacts DEF ScreensInv, STypeOK
<1>2. /\ geo' \in [Screen -> Rect] /\ Displayed' = E
      /\ geo' = [geo EXCEPT ![scr][ax] = kept, ![ns] = b]
  BY DivideStep DEF Divide
<1>3. /\ geo'[scr] = a /\ geo'[ns] = b
      /\ \A s \in Screen \ {scr, ns} : geo'[s] = geo[s]
  BY <1>1, <1>2
<1>4. /\ g \in Rect /\ a \in Rect /\ b \in Rect
      /\ a[ax] = kept /\ b[ax] = given
      /\ a[Other(ax)] = g[Other(ax)] /\ b[Other(ax)] = g[Other(ax)]
  <2>1. g \in Rect
    BY <1>1
  <2> QED BY <2>1, AxesTwo DEF Rect
<1>5. Parts(g, a, b, ax) \/ Parts(g, b, a, ax)
  <2>1. g[ax].off \in Int /\ g[ax].len \in Int
    BY <1>4, SpanTyped
  <2>2. kept.off \in Int /\ kept.len \in Int /\ given.off \in Int /\ given.len \in Int
    BY DEF Span
  <2> HIDE DEF a, b, g
  <2>3. /\ After(a, ax) = kept.off + kept.len + 1 /\ After(b, ax) = given.off + given.len + 1
        /\ After(g, ax) = g[ax].off + g[ax].len + 1
    BY <1>4, SpanTyped
  <2>4. CASE /\ kept.off = g[ax].off /\ kept.off + kept.len + 1 = given.off
             /\ given.off + given.len = g[ax].off + g[ax].len
    BY <1>4, <2>1, <2>2, <2>3, <2>4 DEF Parts
  <2>5. CASE /\ given.off = g[ax].off /\ given.off + given.len + 1 = kept.off
             /\ kept.off + kept.len = g[ax].off + g[ax].len
    BY <1>4, <2>1, <2>2, <2>3, <2>5 DEF Parts
  <2> QED BY <2>4, <2>5 DEF g
<1> HIDE DEF g, a, b
<1>6. Tiles(Displayed, geo, term)
  BY TiledNow
<1>7. /\ \A p \in Cells(term) : /\ In(g, p) <=> In(a, p) \/ In(b, p)
                                /\ ~(In(a, p) /\ In(b, p))
      /\ Within(g, term) <=> Within(a, term) /\ Within(b, term)
  BY <1>1, <1>4, <1>5, PartsResult
<1>8. Within(a, term) /\ Within(b, term)
  <2>1. Within(g, term)
    BY <1>1, <1>6 DEF Tiles, g
  <2> QED BY <1>7, <2>1
<1>9. Tiles(E, geo', term)
  <2>1. {scr} \in SUBSET Displayed /\ New \in SUBSET E
    BY <1>1
  <2>2. Displayed \ {scr} = E \ New
    BY <1>1
  <2>3. \A s \in Displayed \ {scr} : geo'[s] = geo[s]
    BY <1>1, <1>3
  <2>4. \A s \in New : Within(geo'[s], term)
    BY <1>3, <1>8
  <2>5. \A p \in Cells(term) : (\E s \in {scr} : In(geo[s], p)) <=> (\E s \in New : In(geo'[s], p))
    BY <1>3, <1>7 DEF g
  <2>6. Single(New, geo', term)
    BY <1>3, <1>7 DEF Single
  <2> HIDE DEF New, E
  <2> QED BY <1>6, <2>1, <2>2, <2>3, <2>4, <2>5, <2>6, Retile
<1>10. E \in SUBSET Screen
  BY <1>1
<1> HIDE DEF E
<1> QED BY <1>1, <1>2, <1>9, <1>10, TiledThen

\* The splits keep it.
LEMMA SplitTiles ==
  ASSUME ScreensInv, Tiled, NEW ns \in Screen \ Displayed, NEW up, NEW ccl,
         vsSplit(ns, up, ccl) \/ vsplitVert(ns), term' = term
  PROVE  Tiled'
<1>1. geo[scr] \in Rect
  BY DisplayedFacts DEF ScreensInv, STypeOK
<1>2. CASE vsSplit(ns, up, ccl)
  <2> DEFINE old == geo[scr]["row"]
             rows == old.len + 1
             half == IF ccl THEN Min({rows \div 2, CclRows}) ELSE rows \div 2
             upper == [off |-> old.off, len |-> rows - half - 1]
             lower == [off |-> old.off + rows - half, len |-> half - 1]
  <2>1. /\ rows >= 4
        /\ IF up THEN Divide(ns, "row", lower, upper) ELSE Divide(ns, "row", upper, lower)
    BY <1>2 DEF vsSplit
  <2>2. old.off \in Int /\ old.len \in Int /\ rows = old.len + 1 /\ rows \in Int
    BY <1>1, SpanTyped DEF Axis
  <2> HIDE DEF rows
  <2>3. half \in Int /\ half >= 2 /\ half <= rows - 2
    <3>1. rows \div 2 \in Int /\ rows \div 2 >= 2 /\ rows \div 2 <= rows - 2
      BY <2>1, <2>2
    <3>2. CclRows \in Int /\ CclRows >= 2
      BY ScreensAssumption
    <3>3. Min({rows \div 2, CclRows}) = IF rows \div 2 <= CclRows THEN rows \div 2 ELSE CclRows
      BY <3>1, <3>2, TwoExtremes
    <3> QED BY <2>2, <3>1, <3>2, <3>3
  <2> HIDE DEF half
  <2>4. /\ upper \in Span /\ lower \in Span
        /\ upper.off = old.off /\ upper.len = rows - half - 1
        /\ lower.off = old.off + rows - half /\ lower.len = half - 1
    BY <2>2, <2>3 DEF Span
  <2> HIDE DEF upper, lower
  <2>5. /\ upper.len >= 1 /\ lower.len >= 1 /\ upper.off = old.off
        /\ upper.off + upper.len + 1 = lower.off
        /\ lower.off + lower.len = old.off + old.len
    BY <2>2, <2>3, <2>4
  <2>6. "row" \in Axis
    BY DEF Axis
  <2>7. CASE Divide(ns, "row", lower, upper)
    BY <2>4, <2>5, <2>6, <2>7, DivideTiles
  <2>8. CASE Divide(ns, "row", upper, lower)
    BY <2>4, <2>5, <2>6, <2>8, DivideTiles
  <2> QED BY <2>1, <2>7, <2>8
<1>3. CASE vsplitVert(ns)
  <2> DEFINE old == geo[scr]["col"]
             half == old.len \div 2
             left == [off |-> old.off, len |-> half]
             right == [off |-> old.off + half + 1, len |-> old.len - half - 1]
  <2>1. Divide(ns, "col", left, right) /\ half > MinCols
    BY <1>3 DEF vsplitVert
  <2>2. old.off \in Int /\ old.len \in Int
    BY <1>1, SpanTyped DEF Axis
  <2>3. half \in Int /\ half >= 2 /\ old.len - half - 1 >= 1
    <3>1. MinCols \in Int /\ MinCols >= 1
      BY ScreensAssumption
    <3> QED BY <2>1, <2>2, <3>1
  <2> HIDE DEF half
  <2>4. /\ left \in Span /\ right \in Span
        /\ left.off = old.off /\ left.len = half
        /\ right.off = old.off + half + 1 /\ right.len = old.len - half - 1
    BY <2>2, <2>3 DEF Span
  <2> HIDE DEF left, right
  <2>5. /\ left.len >= 1 /\ right.len >= 1 /\ left.off = old.off
        /\ left.off + left.len + 1 = right.off
        /\ right.off + right.len = old.off + old.len
    BY <2>2, <2>3, <2>4
  <2>6. "col" \in Axis
    BY DEF Axis
  <2> QED BY <2>1, <2>4, <2>5, <2>6, DivideTiles
<1> QED BY <1>2, <1>3

\* An heir takes the space of the screen that closes.
LEMMA DiscardTiles ==
  ASSUME ScreensInv, Tiled, NEW preferred, discardCurrentScreen(preferred),
         Heirs(scr) # {}, term' = term
  PROVE  Tiled'
<1>1. /\ geo \in [Screen -> Rect] /\ scr \in Displayed /\ scr \in Screen
      /\ Displayed \subseteq Screen /\ term \in Sizes
  BY DisplayedFacts DEF ScreensInv, STypeOK
<1>2. geo' \in [Screen -> Rect] /\ Displayed' = Displayed \ {scr}
  BY DiscardStep
<1>3. PICK t \in Heirs(scr) :
        geo' = [geo EXCEPT ![scr] = Nowhere,
                  ![t] = [ax \in Axis |-> Joined(geo[t][ax], geo[scr][ax])]]
  BY DEF discardCurrentScreen
<1>4. /\ t \in Displayed \ {scr}
      /\ \E ax \in Axis : Adjoins(geo[t], geo[scr], ax) \/ Adjoins(geo[scr], geo[t], ax)
  BY DEF Heirs, Preceding, Following, Axis
<1>5. PICK ax \in Axis : Adjoins(geo[t], geo[scr], ax) \/ Adjoins(geo[scr], geo[t], ax)
  BY <1>4
<1> DEFINE a == geo[scr]
           b == geo[t]
           g == [x \in Axis |-> Joined(b[x], a[x])]
           E == Displayed \ {scr}
<1>6. /\ a \in Rect /\ b \in Rect /\ t \in Screen /\ t # scr
      /\ geo'[t] = g /\ \A s \in Screen \ {scr, t} : geo'[s] = geo[s]
  BY <1>1, <1>3, <1>4
<1>7. g \in Rect
  BY <1>2, <1>6
<1>8. Tiles(Displayed, geo, term)
  BY TiledNow
<1>9. Within(a, term) /\ Within(b, term)
  BY <1>1, <1>4, <1>8 DEF Tiles
<1>10. Parts(g, a, b, ax) \/ Parts(g, b, a, ax)
  <2> DEFINE o == Other(ax)
  <2>1. o \in Axis
    BY AxesTwo
  <2>2. /\ a[ax].off \in Int /\ a[ax].len \in Int /\ After(a, ax) = a[ax].off + a[ax].len + 1
        /\ b[ax].off \in Int /\ b[ax].len \in Int /\ After(b, ax) = b[ax].off + b[ax].len + 1
        /\ g[ax].off \in Int /\ g[ax].len \in Int /\ After(g, ax) = g[ax].off + g[ax].len + 1
    BY <1>6, <1>7, SpanTyped
  <2>3. a[ax].len >= 1 /\ b[ax].len >= 1
    BY <1>9 DEF Within
  <2>4. g[o] = Joined(b[o], a[o]) /\ g[ax] = Joined(b[ax], a[ax])
    BY <2>1
  <2>5. a[o] = b[o] /\ (After(b, ax) = a[ax].off \/ After(a, ax) = b[ax].off)
    BY <1>5 DEF Adjoins
  <2> HIDE DEF a, b, g, o
  <2>6. g[o] = a[o] /\ g[o] = b[o]
    BY <2>4, <2>5 DEF Joined
  <2>7. a[ax] # b[ax]
    BY <2>2, <2>3, <2>5
  <2>8. /\ g[ax].off = Min({b[ax].off, a[ax].off})
        /\ g[ax].len = b[ax].len + a[ax].len + 1
    BY <2>4, <2>7 DEF Joined
  <2>9. g[ax].off = IF b[ax].off <= a[ax].off THEN b[ax].off ELSE a[ax].off
    BY <2>2, <2>8, TwoExtremes
  <2>10. CASE After(b, ax) = a[ax].off
    <3>1. b[ax].off = g[ax].off /\ After(a, ax) = After(g, ax)
      BY <2>2, <2>3, <2>8, <2>9, <2>10
    <3> QED BY <2>3, <2>6, <2>10, <3>1 DEF Parts, o
  <2>11. CASE After(a, ax) = b[ax].off
    <3>1. a[ax].off = g[ax].off /\ After(b, ax) = After(g, ax)
      BY <2>2, <2>3, <2>8, <2>9, <2>11
    <3> QED BY <2>3, <2>6, <2>11, <3>1 DEF Parts, o
  <2> QED BY <2>5, <2>10, <2>11
<1> HIDE DEF g, a, b
<1>11. /\ \A p \in Cells(term) : In(g, p) <=> In(a, p) \/ In(b, p)
       /\ Within(g, term) <=> Within(a, term) /\ Within(b, term)
  BY <1>1, <1>6, <1>7, <1>10, PartsResult
<1>12. Tiles(E, geo', term)
  <2>1. {scr, t} \in SUBSET Displayed /\ {t} \in SUBSET E
    BY <1>1, <1>4
  <2>2. Displayed \ {scr, t} = E \ {t}
    BY <1>1
  <2>3. \A s \in Displayed \ {scr, t} : geo'[s] = geo[s]
    BY <1>1, <1>6
  <2>4. \A s \in {t} : Within(geo'[s], term)
    BY <1>6, <1>9, <1>11
  <2>5. \A p \in Cells(term) : (\E s \in {scr, t} : In(geo[s], p)) <=> (\E s \in {t} : In(geo'[s], p))
    BY <1>6, <1>11 DEF a, b
  <2>6. Single({t}, geo', term)
    BY DEF Single
  <2> HIDE DEF E
  <2> QED BY <1>8, <2>1, <2>2, <2>3, <2>4, <2>5, <2>6, Retile
<1>13. E \in SUBSET Screen /\ Displayed' = E
  BY <1>1, <1>2
<1> HIDE DEF E
<1> QED BY <1>1, <1>2, <1>12, <1>13, TiledThen

\* A background screen that takes the place of the active one.
LEMMA SwapTiles ==
  ASSUME ScreensInv, Tiled, NEW i \in DOMAIN bg, exFg(i)
  PROVE  Tiled'
<1> DEFINE nsp == bg[i]
           swapped == [geo EXCEPT ![scr] = Nowhere, ![nsp] = geo[scr]]
           replaced == ReplaceAll(screens, scr, nsp)
           E == (Displayed \ {scr}) \cup {nsp}
<1>1. /\ geo \in [Screen -> Rect] /\ scr \in Displayed /\ scr \in Screen
      /\ Displayed \subseteq Screen /\ Displayed = ToSet(screens) /\ term \in Sizes
      /\ screens \in Seq(Screen)
  BY DisplayedFacts DEF ScreensInv, STypeOK, Displayed
<1>2. /\ geo' = swapped /\ term' = term /\ screens' = InOrder(replaced, swapped)
  BY DEF exFg
<1>3. nsp \in Screen \ Displayed
  BY TakeBg
<1> HIDE DEF nsp
<1>4. /\ replaced \in Seq(Screen) /\ ToSet(replaced) = E
  BY <1>1, <1>3, ReplaceKeeps
<1>5. geo' \in [Screen -> Rect] /\ geo'[nsp] = geo[scr]
      /\ \A s \in Screen \ {scr, nsp} : geo'[s] = geo[s]
  BY <1>1, <1>2, <1>3, RectsTyped
<1> HIDE DEF replaced, swapped
<1>6. Displayed' = E
  BY <1>2, <1>4, InOrderResult DEF Displayed
<1>7. Tiles(Displayed, geo, term)
  BY TiledNow
<1>8. Tiles(E, geo', term)
  <2>1. {scr} \in SUBSET Displayed /\ {nsp} \in SUBSET E
    BY <1>1
  <2>2. Displayed \ {scr} = E \ {nsp}
    BY <1>3
  <2>3. \A s \in Displayed \ {scr} : geo'[s] = geo[s]
    BY <1>1, <1>3, <1>5
  <2>4. \A s \in {nsp} : Within(geo'[s], term)
    BY <1>1, <1>5, <1>7 DEF Tiles
  <2>5. \A p \in Cells(term) : (\E s \in {scr} : In(geo[s], p)) <=> (\E s \in {nsp} : In(geo'[s], p))
    BY <1>5
  <2>6. Single({nsp}, geo', term)
    BY DEF Single
  <2> HIDE DEF E
  <2> QED BY <1>7, <2>1, <2>2, <2>3, <2>4, <2>5, <2>6, Retile
<1>9. E \in SUBSET Screen
  BY <1>1, <1>3
<1> HIDE DEF E
<1> QED BY <1>1, <1>2, <1>5, <1>6, <1>8, <1>9, TiledThen

-----------------------------------------------------------------------------
(* Moving a border. *)

\* What moving the border by d makes of the rectangles g.
Shifted(g, k, before, after, ax, d) ==
  /\ \A s \in before : /\ k[s][Other(ax)] = g[s][Other(ax)]
                       /\ k[s][ax].off = g[s][ax].off /\ k[s][ax].len = g[s][ax].len + d
  /\ \A s \in after : /\ k[s][Other(ax)] = g[s][Other(ax)]
                      /\ k[s][ax].off = g[s][ax].off + d /\ k[s][ax].len = g[s][ax].len - d

\* The screens before and after a border at x, the same places along it.
AtBorder(g, before, after, ax, x) ==
  /\ \A s \in before : g[s][ax].len >= 1 /\ Border(g[s], ax) = x
  /\ \A s \in after : g[s][ax].len >= 1 /\ g[s][ax].off = x + 1

\* The screens on either side have the same places along the border.
SameAlong(g, before, after, ax, size) ==
  \A p \in Cells(size) :
    (\E s \in before : On(g[s], Other(ax), p[Other(ax)]))
      <=> (\E s \in after : On(g[s], Other(ax), p[Other(ax)]))

LEMMA ShiftCovers ==
  ASSUME NEW before \in SUBSET Screen, NEW after \in SUBSET Screen, NEW ax \in Axis,
         NEW x \in Int, NEW d \in Int, NEW size \in Sizes,
         NEW g \in [Screen -> Rect], NEW k \in [Screen -> Rect],
         Shifted(g, k, before, after, ax, d),
         AtBorder(g, before, after, ax, x), AtBorder(k, before, after, ax, x + d),
         SameAlong(g, before, after, ax, size),
         NEW p \in Cells(size), NEW s \in before \cup after, In(g[s], p)
  PROVE  \E t \in before \cup after : In(k[t], p)
<1> DEFINE o == Other(ax)
<1>1. o \in Axis /\ p[ax] \in Int /\ p[o] \in Int
  BY AxesTwo DEF Cells
<1>2. \A t \in before \cup after :
        /\ g[t][ax].off \in Int /\ g[t][ax].len \in Int /\ k[t][ax].off \in Int /\ k[t][ax].len \in Int
        /\ After(g[t], ax) = g[t][ax].off + g[t][ax].len + 1
        /\ After(k[t], ax) = k[t][ax].off + k[t][ax].len + 1
        /\ Border(g[t], ax) = g[t][ax].off + g[t][ax].len
        /\ Border(k[t], ax) = k[t][ax].off + k[t][ax].len
  BY SpanTyped
<1>3. \A t \in before \cup after : On(k[t], o, p[o]) <=> On(g[t], o, p[o])
  <2>1. \A t \in before \cup after : k[t][o] = g[t][o]
    BY DEF Shifted
  <2> QED BY <2>1 DEF On, After, Border
<1>4. On(g[s], ax, p[ax]) /\ On(g[s], o, p[o])
  BY InAxes
<1>5. \A t \in before \cup after : On(k[t], ax, p[ax]) /\ On(k[t], o, p[o]) => In(k[t], p)
  BY InAxes
<1>6. (\E t \in before : On(g[t], o, p[o])) /\ (\E t \in after : On(g[t], o, p[o]))
  BY <1>4 DEF SameAlong
<1>7. /\ \A t \in before : k[t][ax].off = g[t][ax].off /\ Border(k[t], ax) = x + d
                           /\ Border(g[t], ax) = x /\ g[t][ax].len >= 1
      /\ \A t \in after : k[t][ax].off = x + d + 1 /\ After(k[t], ax) = After(g[t], ax)
                           /\ g[t][ax].off = x + 1 /\ g[t][ax].len >= 1
  <2>1. \A t \in before : k[t][ax].off = g[t][ax].off /\ Border(k[t], ax) = x + d
                           /\ Border(g[t], ax) = x /\ g[t][ax].len >= 1
    BY DEF Shifted, AtBorder
  <2>2. \A t \in after : k[t][ax].off = x + d + 1 /\ g[t][ax].off = x + 1 /\ g[t][ax].len >= 1
                         /\ k[t][ax].len = g[t][ax].len - d
    BY DEF Shifted, AtBorder
  <2>3. ASSUME NEW t \in after PROVE After(k[t], ax) = After(g[t], ax)
    <3>1. /\ g[t][ax].len \in Int
          /\ After(g[t], ax) = g[t][ax].off + g[t][ax].len + 1
          /\ After(k[t], ax) = k[t][ax].off + k[t][ax].len + 1
      BY <1>2
    <3> QED BY <2>2, <3>1
  <2> QED BY <2>1, <2>2, <2>3
<1>8. CASE s \in before
  <2>1. g[s][ax].off <= p[ax] /\ p[ax] <= x
    BY <1>1, <1>2, <1>4, <1>7, <1>8 DEF On
  <2>2. CASE p[ax] <= x + d
    <3>1. On(k[s], ax, p[ax])
      BY <1>1, <1>2, <1>7, <1>8, <2>1, <2>2 DEF On
    <3> QED BY <1>3, <1>4, <1>5, <3>1
  <2>3. CASE p[ax] > x + d
    <3>1. PICK t \in after : On(g[t], o, p[o])
      BY <1>6
    <3>2. On(k[t], ax, p[ax])
      BY <1>1, <1>2, <1>7, <2>1, <2>3 DEF On
    <3> QED BY <1>3, <1>5, <3>1, <3>2
  <2> QED BY <1>1, <2>2, <2>3
<1>9. CASE s \in after
  <2>1. x + 1 <= p[ax] /\ p[ax] < After(g[s], ax)
    BY <1>1, <1>2, <1>4, <1>7, <1>9 DEF On
  <2>2. CASE p[ax] > x + d
    <3>1. On(k[s], ax, p[ax])
      BY <1>1, <1>2, <1>7, <1>9, <2>1, <2>2 DEF On
    <3> QED BY <1>3, <1>4, <1>5, <3>1
  <2>3. CASE p[ax] <= x + d
    <3>1. PICK t \in before : On(g[t], o, p[o])
      BY <1>6
    <3>2. On(k[t], ax, p[ax])
      BY <1>1, <1>2, <1>7, <2>1, <2>3, <3>1 DEF On
    <3> QED BY <1>3, <1>5, <3>1, <3>2
  <2> QED BY <1>1, <2>2, <2>3
<1> QED BY <1>8, <1>9

\* Moving the border keeps the tiling.
LEMMA ShiftTiles ==
  ASSUME NEW D \in SUBSET Screen, NEW before \in SUBSET D, NEW after \in SUBSET D,
         before # {}, after # {}, NEW ax \in Axis,
         NEW x \in Int, NEW d \in Int, NEW size \in Sizes,
         NEW g \in [Screen -> Rect], NEW k \in [Screen -> Rect], Tiles(D, g, size),
         Shifted(g, k, before, after, ax, d),
         \A s \in D \ (before \cup after) : k[s] = g[s],
         AtBorder(g, before, after, ax, x), AtBorder(k, before, after, ax, x + d),
         SameAlong(g, before, after, ax, size)
  PROVE  Tiles(D, k, size)
<1> DEFINE o == Other(ax)
           B == before \cup after
<1>1. o \in Axis /\ o # ax /\ Axis = {ax, o} /\ Lim(ax, size) \in Int
  BY AxesTwo, SizeTyped DEF Lim
<1>2. B \subseteq Screen
  OBVIOUS
<1>3. \A t \in B :
        /\ g[t][ax].off \in Int /\ g[t][ax].len \in Int /\ k[t][ax].off \in Int /\ k[t][ax].len \in Int
        /\ After(g[t], ax) = g[t][ax].off + g[t][ax].len + 1
        /\ After(k[t], ax) = k[t][ax].off + k[t][ax].len + 1
        /\ Border(g[t], ax) = g[t][ax].off + g[t][ax].len
        /\ Border(k[t], ax) = k[t][ax].off + k[t][ax].len
  BY <1>2, SpanTyped
<1>4. \A t \in B : k[t][o] = g[t][o]
  BY DEF Shifted
<1>5. /\ \A t \in before : /\ k[t][ax].off = g[t][ax].off /\ k[t][ax].len = g[t][ax].len + d
                           /\ k[t][ax].len >= 1 /\ g[t][ax].len >= 1 /\ Border(g[t], ax) = x
      /\ \A t \in after : /\ k[t][ax].off = x + 1 + d /\ k[t][ax].len = g[t][ax].len - d
                          /\ k[t][ax].len >= 1 /\ g[t][ax].len >= 1 /\ g[t][ax].off = x + 1
  BY DEF Shifted, AtBorder
<1>6. \A t \in B : g[t][ax].off >= 0 /\ After(g[t], ax) <= Lim(ax, size)
  BY DEF Tiles, Within
<1>7. PICK b \in before, a \in after : TRUE
  OBVIOUS
<1>8. /\ x + d >= 1 /\ x + d + 1 < Lim(ax, size)
      /\ x >= 1 /\ x + 1 < Lim(ax, size)
  <2>1. x + d >= 1 /\ x >= 1
    BY <1>3, <1>5, <1>6, <1>7
  <2>2. x + d + 1 < Lim(ax, size) /\ x + 1 < Lim(ax, size)
    BY <1>1, <1>3, <1>5, <1>6, <1>7
  <2> QED BY <2>1, <2>2
<1>9. ASSUME NEW s \in B PROVE Within(k[s], size)
  <2> DEFINE Fits(r, y) == r[y].off >= 0 /\ r[y].len >= 1 /\ After(r, y) <= Lim(y, size)
  <2>1. \A r : Within(r, size) <=> Fits(r, ax) /\ Fits(r, o)
    BY <1>1 DEF Within
  <2>2. Fits(k[s], o) <=> Fits(g[s], o)
    BY <1>4 DEF After, Border
  <2>3. Fits(k[s], ax)
    <3>1. CASE s \in before
      BY <1>1, <1>3, <1>5, <1>6, <1>8, <3>1
    <3>2. CASE s \in after
      BY <1>1, <1>3, <1>5, <1>6, <1>8, <3>2
    <3> QED BY <3>1, <3>2
  <2>4. Within(g[s], size)
    BY DEF Tiles
  <2> HIDE DEF Fits
  <2> QED BY <2>1, <2>2, <2>3, <2>4
<1>10. SameAlong(k, before, after, ax, size) /\ Shifted(k, g, before, after, ax, -d)
  <2>1. \A t \in B : \A y : On(k[t], o, y) <=> On(g[t], o, y)
    BY <1>4 DEF On, After, Border
  <2>2. SameAlong(k, before, after, ax, size)
    BY <2>1 DEF SameAlong
  <2>3. \A t \in before : g[t][ax].off = k[t][ax].off /\ g[t][ax].len = k[t][ax].len + (-d)
    BY <1>3, <1>5
  <2>4. \A t \in after : g[t][ax].off = k[t][ax].off + (-d) /\ g[t][ax].len = k[t][ax].len - (-d)
    BY <1>3, <1>5
  <2>5. Shifted(k, g, before, after, ax, -d)
    BY <1>4, <2>3, <2>4 DEF Shifted
  <2> QED BY <2>2, <2>5
<1>11. ASSUME NEW p \in Cells(size)
       PROVE  (\E s \in B : In(g[s], p)) <=> (\E s \in B : In(k[s], p))
  <2>1. -d \in Int /\ x + d \in Int /\ (x + d) + (-d) = x
    OBVIOUS
  <2>2. AtBorder(g, before, after, ax, (x + d) + (-d))
    BY <2>1
  <2>3. before \in SUBSET Screen /\ after \in SUBSET Screen
    OBVIOUS
  <2>4. ASSUME NEW s \in B, In(g[s], p) PROVE \E t \in B : In(k[t], p)
    BY <2>3, <2>4, ShiftCovers
  <2>5. ASSUME NEW s \in B, In(k[s], p) PROVE \E t \in B : In(g[t], p)
    <3> DEFINE e == -d
               y == x + d
    <3>1. e \in Int /\ y \in Int /\ AtBorder(g, before, after, ax, y + e)
          /\ AtBorder(k, before, after, ax, y) /\ Shifted(k, g, before, after, ax, e)
      BY <1>10, <2>1, <2>2
    <3> HIDE DEF e, y
    <3> QED BY <1>10, <2>3, <2>5, <3>1, ShiftCovers
  <2> QED BY <2>4, <2>5
<1>12. Single(B, k, size)
  <2> SUFFICES ASSUME NEW p \in Cells(size), NEW s \in B, NEW t \in B, In(k[s], p), In(k[t], p)
               PROVE  s = t
    BY DEF Single
  <2>1. /\ On(k[s], ax, p[ax]) /\ On(k[t], ax, p[ax]) /\ On(g[s], o, p[o]) /\ On(g[t], o, p[o])
        /\ p[ax] \in Int /\ p \in [Axis -> Int]
    <3>1. On(k[s], ax, p[ax]) /\ On(k[t], ax, p[ax]) /\ On(k[s], o, p[o]) /\ On(k[t], o, p[o])
      BY InAxes
    <3> QED BY <1>4, <3>1 DEF On, After, Border, Cells
  <2>2. ASSUME NEW y \in Int, 0 <= y, y < Lim(ax, size), On(g[s], ax, y), On(g[t], ax, y)
        PROVE  s = t
    <3> DEFINE q == [p EXCEPT ![ax] = y]
    <3>1. q \in [Axis -> Int] /\ q[ax] = y /\ q[o] = p[o]
      BY <1>1, <2>1
    <3> HIDE DEF q
    <3>2. q \in Cells(size)
      BY <1>1, <2>2, <3>1 DEF Cells
    <3>3. In(g[s], q) /\ In(g[t], q)
      BY <2>1, <2>2, <3>1, InAxes
    <3> QED BY <3>2, <3>3 DEF Tiles, Single
  <2>3. CASE s \in before /\ t \in before
    <3>1. On(g[s], ax, x) /\ On(g[t], ax, x)
      BY <1>3, <1>5, <2>3 DEF On
    <3> QED BY <1>1, <1>8, <2>2, <3>1
  <2>4. CASE s \in after /\ t \in after
    <3>1. On(g[s], ax, x + 1) /\ On(g[t], ax, x + 1)
      BY <1>3, <1>5, <2>4 DEF On
    <3> QED BY <1>1, <1>8, <2>2, <3>1
  <2>5. \A u \in before : On(k[u], ax, p[ax]) => p[ax] <= x + d
    BY <1>3, <1>5, <2>1 DEF On
  <2>6. \A u \in after : On(k[u], ax, p[ax]) => p[ax] >= x + 1 + d
    BY <1>3, <1>5, <2>1 DEF On
  <2> QED BY <2>1, <2>3, <2>4, <2>5, <2>6
<1>13. B \in SUBSET D /\ \A s \in D \ B : k[s] = g[s]
  OBVIOUS
<1>14. /\ \A s \in B : Within(k[s], size)
       /\ \A p \in Cells(size) : (\E s \in B : In(g[s], p)) <=> (\E s \in B : In(k[s], p))
  BY <1>9, <1>11
<1> HIDE DEF B
<1> DEFINE E == D
<1>15. B \in SUBSET E /\ D \ B = E \ B
  BY <1>13
<1> HIDE DEF E
<1>16. Tiles(E, k, size)
  BY <1>12, <1>13, <1>14, <1>15, Retile
<1> QED BY <1>16 DEF E

\* A step that moves a border between displayed screens.
LEMMA MovedTiles ==
  ASSUME ScreensInv, Tiled, NEW before \in SUBSET Displayed, NEW after \in SUBSET Displayed,
         before # {}, after # {}, NEW ax \in Axis, NEW x \in Int, NEW d \in Int,
         \A t \in before : Border(geo[t], ax) = x /\ geo[t][ax].len + d >= 1,
         \A t \in after : geo[t][ax].off = x + 1 /\ geo[t][ax].len - d >= 1,
         SameAlong(geo, before, after, ax, term),
         Moved(before, after, ax, d)
  PROVE  Tiled'
<1> DEFINE k == geo'
<1>1. /\ geo \in [Screen -> Rect] /\ Displayed \subseteq Screen /\ term \in Sizes
      /\ Tiles(Displayed, geo, term)
  BY DisplayedFacts, TiledNow DEF ScreensInv, STypeOK
<1>2. /\ geo' = MoveBorder(before, after, ax, d)
      /\ UNCHANGED <<screens, term>>
  BY DEF Moved
<1>3. /\ k \in [Screen -> Rect]
      /\ \A s \in Displayed \ (before \cup after) : k[s] = geo[s]
  BY <1>1, <1>2, MoveBorderTyped
<1>4. \A t \in before \cup after :
        /\ geo[t] \in Rect /\ t \in Screen
        /\ geo[t][ax].off \in Int /\ geo[t][ax].len \in Int
        /\ Border(geo[t], ax) = geo[t][ax].off + geo[t][ax].len
        /\ geo[t][ax].len >= 1
  <2>1. \A t \in before \cup after : geo[t] \in Rect /\ t \in Screen
    BY <1>1
  <2>2. \A t \in before \cup after : geo[t][ax].len >= 1
    BY <1>1 DEF Tiles, Within
  <2> QED BY <2>1, <2>2, SpanTyped
<1>5. before \cap after = {}
  BY <1>4
<1>6. ASSUME NEW s \in before
      PROVE  /\ k[s][Other(ax)] = geo[s][Other(ax)]
             /\ k[s][ax].off = geo[s][ax].off /\ k[s][ax].len = geo[s][ax].len + d
  <2>1. geo[s] \in Rect /\ s \in Screen /\ geo[s][ax] \in Span
    BY <1>4, SpanTyped
  <2>2. k[s] = [geo[s] EXCEPT ![ax].len = @ + d]
    BY <1>2, <2>1 DEF MoveBorder
  <2> HIDE DEF k
  <2>3. k[s][Other(ax)] = geo[s][Other(ax)]
    BY <2>1, <2>2, AxesTwo DEF Rect
  <2>4. k[s][ax] = [geo[s][ax] EXCEPT !.len = @ + d]
    BY <2>1, <2>2 DEF Rect
  <2> QED BY <2>1, <2>3, <2>4 DEF Span
<1>7. ASSUME NEW s \in after
      PROVE  /\ k[s][Other(ax)] = geo[s][Other(ax)]
             /\ k[s][ax].off = geo[s][ax].off + d /\ k[s][ax].len = geo[s][ax].len - d
  <2>1. geo[s] \in Rect /\ s \in Screen /\ geo[s][ax] \in Span /\ s \notin before
    BY <1>4, <1>5, SpanTyped
  <2>2. k[s] = [geo[s] EXCEPT ![ax].off = @ + d, ![ax].len = @ - d]
    BY <1>2, <2>1 DEF MoveBorder
  <2> HIDE DEF k
  <2>3. k[s][Other(ax)] = geo[s][Other(ax)]
    BY <2>1, <2>2, AxesTwo DEF Rect
  <2>4. k[s][ax] = [geo[s][ax] EXCEPT !.off = @ + d, !.len = @ - d]
    BY <2>1, <2>2 DEF Rect
  <2> QED BY <2>1, <2>3, <2>4 DEF Span
<1>8. Shifted(geo, k, before, after, ax, d)
  <2> HIDE DEF k
  <2> QED BY <1>6, <1>7 DEF Shifted
<1> HIDE DEF k
<1>9. AtBorder(geo, before, after, ax, x)
  BY <1>4 DEF AtBorder
<1>10. AtBorder(k, before, after, ax, x + d)
  <2>1. \A t \in before : k[t][ax].len >= 1 /\ Border(k[t], ax) = x + d
    BY <1>4, <1>6 DEF Border
  <2>2. \A t \in after : k[t][ax].len >= 1 /\ k[t][ax].off = x + d + 1
    BY <1>4, <1>7
  <2> QED BY <2>1, <2>2 DEF AtBorder
<1>11. Tiles(Displayed, k, term)
  BY <1>1, <1>3, <1>8, <1>9, <1>10, ShiftTiles
<1>12. Displayed' = Displayed
  BY <1>2 DEF Displayed
<1> QED BY <1>1, <1>2, <1>3, <1>11, <1>12, TiledThen DEF k

\* The resizing moves the border to a neighbour.
LEMMA ResizeScreenTiles ==
  ASSUME ScreensInv, Tiled, NEW d \in Deltas, resizeScreen(d)
  PROVE  Tiled'
<1>1. /\ geo \in [Screen -> Rect] /\ Displayed \subseteq Screen /\ scr \in Displayed
      /\ Tiles(Displayed, geo, term)
  BY DisplayedFacts, TiledNow DEF ScreensInv, STypeOK
<1>2. \A t \in Displayed :
        /\ geo[t]["row"].off \in Int /\ geo[t]["row"].len \in Int /\ geo[t]["row"].len >= 1
        /\ Border(geo[t], "row") \in Int /\ After(geo[t], "row") = Border(geo[t], "row") + 1
  <2>1. "row" \in Axis
    BY DEF Axis
  <2>2. \A t \in Displayed : geo[t]["row"].len >= 1
    BY <1>1, <2>1 DEF Tiles, Within
  <2> QED BY <1>1, <2>1, <2>2, SpanTyped DEF After
<1>3. d \in Int /\ -d \in Int
  BY ScreensAssumption
<1>4. ASSUME NEW a \in Displayed, NEW b \in Displayed, NEW e \in Int,
             Adjoins(geo[a], geo[b], "row"), Moved({a}, {b}, "row", e),
             geo[a]["row"].len + e >= 1, geo[b]["row"].len - e >= 1
      PROVE  Tiled'
  <2> DEFINE x == Border(geo[a], "row")
  <2>1. /\ {a} \in SUBSET Displayed /\ {b} \in SUBSET Displayed /\ {a} # {} /\ {b} # {}
        /\ "row" \in Axis /\ x \in Int
    BY <1>2 DEF Axis
  <2>2. geo[b]["row"].off = x + 1 /\ geo[a][Other("row")] = geo[b][Other("row")]
    BY <1>2, <1>4 DEF Adjoins
  <2>3. SameAlong(geo, {a}, {b}, "row", term)
    BY <2>2 DEF SameAlong, On, After, Border
  <2>4. \A t \in {a} : Border(geo[t], "row") = x /\ geo[t]["row"].len + e >= 1
    BY <1>4
  <2>5. \A t \in {b} : geo[t]["row"].off = x + 1 /\ geo[t]["row"].len - e >= 1
    BY <1>4, <2>2
  <2> HIDE DEF x
  <2> QED BY <1>4, <2>1, <2>3, <2>4, <2>5, MovedTiles
<1>5. CASE d > 0 /\ \E t \in Following(scr, "row") :
             geo[t]["row"].len >= 1 + d /\ Moved({scr}, {t}, "row", d)
  <2>1. PICK t \in Displayed : /\ Adjoins(geo[scr], geo[t], "row")
                               /\ geo[t]["row"].len >= 1 + d /\ Moved({scr}, {t}, "row", d)
    BY <1>5 DEF Following
  <2>2. geo[scr]["row"].len + d >= 1 /\ geo[t]["row"].len - d >= 1
    BY <1>1, <1>2, <1>3, <1>5, <2>1
  <2> QED BY <1>1, <1>3, <1>4, <2>1, <2>2
<1>6. CASE d > 0 /\ \E t \in Preceding(scr, "row") :
             geo[t]["row"].len >= 1 + d /\ Moved({t}, {scr}, "row", -d)
  <2>1. PICK t \in Displayed : /\ Adjoins(geo[t], geo[scr], "row")
                               /\ geo[t]["row"].len >= 1 + d /\ Moved({t}, {scr}, "row", -d)
    BY <1>6 DEF Preceding
  <2>2. geo[t]["row"].len + (-d) >= 1 /\ geo[scr]["row"].len - (-d) >= 1
    BY <1>1, <1>2, <1>3, <1>6, <2>1
  <2> QED BY <1>1, <1>3, <1>4, <2>1, <2>2
<1>7. CASE d < 0 /\ geo[scr]["row"].len >= 1 - d
             /\ \E t \in Preceding(scr, "row") : Moved({t}, {scr}, "row", -d)
  <2>1. PICK t \in Displayed : Adjoins(geo[t], geo[scr], "row") /\ Moved({t}, {scr}, "row", -d)
    BY <1>7 DEF Preceding
  <2>2. geo[t]["row"].len + (-d) >= 1 /\ geo[scr]["row"].len - (-d) >= 1
    BY <1>1, <1>2, <1>3, <1>7, <2>1
  <2> QED BY <1>1, <1>3, <1>4, <2>1, <2>2
<1>8. CASE d < 0 /\ geo[scr]["row"].len >= 1 - d
             /\ \E t \in Following(scr, "row") : Moved({scr}, {t}, "row", d)
  <2>1. PICK t \in Displayed : Adjoins(geo[scr], geo[t], "row") /\ Moved({scr}, {t}, "row", d)
    BY <1>8 DEF Following
  <2>2. geo[scr]["row"].len + d >= 1 /\ geo[t]["row"].len - d >= 1
    BY <1>1, <1>2, <1>3, <1>8, <2>1
  <2> QED BY <1>1, <1>3, <1>4, <2>1, <2>2
<1> QED BY <1>5, <1>6, <1>7, <1>8 DEF resizeScreen

\* The screens of a segment are all at its divider, and none that touches it
\* shares a place along it with one of them without being one.
LEMMA SegmentClosed ==
  ASSUME NEW s \in Displayed, NEW ax \in Axis
  PROVE  /\ s \in Segment(s, ax) /\ Segment(s, ax) \subseteq Displayed
         /\ \A t \in Segment(s, ax) :
              \/ Border(geo[t], ax) = Border(geo[s], ax)
              \/ geo[t][ax].off = Border(geo[s], ax) + 1
         /\ \A t \in Displayed, u \in Segment(s, ax) :
              /\ Border(geo[t], ax) = Border(geo[s], ax) \/ geo[t][ax].off = Border(geo[s], ax) + 1
              /\ Overlap(geo[t], geo[u], Other(ax))
              => t \in Segment(s, ax)
<1> DEFINE x == Border(geo[s], ax)
           touching == {t \in Displayed : Border(geo[t], ax) = x \/ geo[t][ax].off = x + 1}
           Closed(S) == \A t \in touching \ S, u \in S : ~Overlap(geo[t], geo[u], Other(ax))
<1>1. Segment(s, ax) =
        {t \in touching : \A S \in SUBSET touching : s \in S /\ Closed(S) => t \in S}
  BY DEF Segment
<1>2. s \in touching /\ touching \subseteq Displayed
  OBVIOUS
<1>3. s \in Segment(s, ax) /\ Segment(s, ax) \subseteq touching
  BY <1>1, <1>2
<1>4. ASSUME NEW t \in touching, NEW u \in Segment(s, ax), Overlap(geo[t], geo[u], Other(ax))
      PROVE  t \in Segment(s, ax)
  <2> SUFFICES ASSUME NEW S \in SUBSET touching, s \in S, Closed(S) PROVE t \in S
    BY <1>1
  <2>1. u \in S
    BY <1>1
  <2> QED BY <1>4, <2>1
<1> QED BY <1>3, <1>4

\* Both sides of a segment have the same places along its divider: what is
\* across it from one of its screens is in it, too.
LEMMA SegmentAlong ==
  ASSUME ScreensInv, Tiled, NEW s \in Displayed, NEW ax \in Axis,
         NEW before, before = {t \in Segment(s, ax) : Border(geo[t], ax) = Border(geo[s], ax)},
         NEW after, after = {t \in Segment(s, ax) : geo[t][ax].off = Border(geo[s], ax) + 1},
         after # {}
  PROVE  SameAlong(geo, before, after, ax, term)
<1> DEFINE x == Border(geo[s], ax)
           o == Other(ax)
<1>1. /\ geo \in [Screen -> Rect] /\ Displayed \subseteq Screen /\ term \in Sizes
      /\ Tiles(Displayed, geo, term)
  BY DisplayedFacts, TiledNow DEF ScreensInv, STypeOK
<1>2. o \in Axis /\ o # ax /\ Axis = {ax, o} /\ Lim(ax, term) \in Int
  BY <1>1, AxesTwo, SizeTyped DEF Lim
<1>3. \A t \in Displayed, y \in Axis :
        /\ geo[t][y].off \in Int /\ geo[t][y].len \in Int
        /\ Border(geo[t], y) = geo[t][y].off + geo[t][y].len
        /\ After(geo[t], y) = geo[t][y].off + geo[t][y].len + 1
        /\ geo[t][y].off >= 0 /\ geo[t][y].len >= 1 /\ After(geo[t], y) <= Lim(y, term)
  <2>1. \A t \in Displayed : geo[t] \in Rect /\ Within(geo[t], term)
    BY <1>1 DEF Tiles
  <2> QED BY <2>1, SpanTyped DEF Within
<1>4. before \subseteq Displayed /\ after \subseteq Displayed
  BY SegmentClosed
<1>5. x \in Int /\ x >= 0 /\ x + 1 < Lim(ax, term)
  <2>1. PICK a \in after : TRUE
    OBVIOUS
  <2>2. a \in Displayed /\ geo[a][ax].off = x + 1
    BY <1>4, <2>1
  <2> HIDE DEF x
  <2>3. x + 1 < Lim(ax, term)
    <3>1. x \in Int
      BY <1>3 DEF x
    <3> QED BY <1>2, <1>3, <2>2, <3>1
  <2>4. x \in Int /\ x >= 0
    BY <1>3 DEF x
  <2> QED BY <2>3, <2>4
<1>6. /\ \A t \in before : t \in Segment(s, ax) /\ Border(geo[t], ax) = x
      /\ \A t \in after : t \in Segment(s, ax) /\ geo[t][ax].off = x + 1
      /\ \A t \in Segment(s, ax) : /\ Border(geo[t], ax) = x => t \in before
                                   /\ geo[t][ax].off = x + 1 => t \in after
  OBVIOUS
<1> HIDE DEF x
<1>7. ASSUME NEW p \in Cells(term), NEW y \in {x, x + 1}
      PROVE  \E u \in Displayed : On(geo[u], ax, y) /\ On(geo[u], o, p[o])
  <2> DEFINE q == [p EXCEPT ![ax] = y]
  <2>1. q \in [Axis -> Int] /\ q[ax] = y /\ q[o] = p[o]
    BY <1>2, <1>5 DEF Cells
  <2> HIDE DEF q
  <2>2. q \in Cells(term)
    BY <1>2, <1>5, <2>1 DEF Cells
  <2>3. PICK u \in Displayed : In(geo[u], q)
    BY <1>1, <2>2 DEF Tiles
  <2> QED BY <2>1, <2>3, InAxes
<1>8. ASSUME NEW p \in Cells(term), NEW y \in {x, x + 1}, NEW t \in Displayed, NEW u \in Displayed,
             On(geo[t], ax, y), On(geo[t], o, p[o]), On(geo[u], ax, y), On(geo[u], o, p[o])
      PROVE  t = u
  <2> DEFINE q == [p EXCEPT ![ax] = y]
  <2>1. q \in [Axis -> Int] /\ q[ax] = y /\ q[o] = p[o]
    BY <1>2, <1>5 DEF Cells
  <2> HIDE DEF q
  <2>2. q \in Cells(term)
    BY <1>2, <1>5, <2>1 DEF Cells
  <2>3. In(geo[t], q) /\ In(geo[u], q)
    BY <1>8, <2>1, InAxes
  <2> QED BY <1>1, <2>2, <2>3 DEF Tiles, Single
<1>9. ASSUME NEW p \in Cells(term), NEW t \in Displayed, NEW u \in Displayed,
             On(geo[t], o, p[o]), On(geo[u], o, p[o])
      PROVE  Overlap(geo[t], geo[u], o)
  <2>1. p[o] \in Int
    BY <1>2 DEF Cells
  <2> QED BY <1>2, <1>3, <1>9, <2>1 DEF On, Overlap
<1>10. ASSUME NEW p \in Cells(term), NEW t \in before, On(geo[t], o, p[o])
       PROVE  \E u \in after : On(geo[u], o, p[o])
  <2>1. PICK u \in Displayed : On(geo[u], ax, x + 1) /\ On(geo[u], o, p[o])
    BY <1>7
  <2>2. t \in Displayed /\ Border(geo[t], ax) = x
    BY <1>4, <1>6
  <2>3. On(geo[t], ax, x) /\ ~On(geo[t], ax, x + 1)
    BY <1>3, <1>5, <2>2 DEF On
  <2>4. geo[u][ax].off = x + 1
    <3>1. CASE geo[u][ax].off <= x
      <4>1. On(geo[u], ax, x)
        BY <1>3, <1>5, <2>1, <3>1 DEF On
      <4>2. t = u
        BY <1>8, <1>10, <2>1, <2>2, <2>3, <4>1
      <4> QED BY <2>1, <2>3, <4>2
    <3>2. CASE geo[u][ax].off > x
      BY <1>3, <1>5, <2>1, <3>2 DEF On
    <3> QED BY <1>3, <1>5, <3>1, <3>2
  <2>5. Overlap(geo[u], geo[t], o)
    BY <1>9, <1>10, <2>1, <2>2
  <2>6. u \in Segment(s, ax)
    BY <1>6, <2>4, <2>5, SegmentClosed DEF x
  <2> QED BY <1>6, <2>1, <2>4, <2>6
<1>11. ASSUME NEW p \in Cells(term), NEW t \in after, On(geo[t], o, p[o])
       PROVE  \E u \in before : On(geo[u], o, p[o])
  <2>1. PICK u \in Displayed : On(geo[u], ax, x) /\ On(geo[u], o, p[o])
    BY <1>7
  <2>2. t \in Displayed /\ geo[t][ax].off = x + 1
    BY <1>4, <1>6
  <2>3. On(geo[t], ax, x + 1) /\ ~On(geo[t], ax, x)
    BY <1>3, <1>5, <2>2 DEF On
  <2>4. Border(geo[u], ax) = x
    <3>1. CASE Border(geo[u], ax) > x
      <4>1. On(geo[u], ax, x + 1)
        BY <1>3, <1>5, <2>1, <3>1 DEF On
      <4>2. t = u
        BY <1>8, <1>11, <2>1, <2>2, <2>3, <4>1
      <4> QED BY <2>1, <2>3, <4>2
    <3>2. CASE Border(geo[u], ax) <= x
      BY <1>3, <1>5, <2>1, <3>2 DEF On
    <3> QED BY <1>3, <1>5, <3>1, <3>2
  <2>5. Overlap(geo[u], geo[t], o)
    BY <1>9, <1>11, <2>1, <2>2
  <2>6. u \in Segment(s, ax)
    BY <1>6, <2>4, <2>5, SegmentClosed DEF x
  <2> QED BY <1>6, <2>1, <2>4, <2>6
<1> QED BY <1>10, <1>11 DEF SameAlong, o

\* A dragged divider moves with its whole segment.
LEMMA DragTiles ==
  ASSUME ScreensInv, Tiled, NEW s \in Displayed, NEW ax \in Axis, NEW d \in Deltas,
         DragDivider(s, ax, d), ~Cramped
  PROVE  Tiled'
<1> DEFINE x == Border(geo[s], ax)
           before == {t \in Segment(s, ax) : Border(geo[t], ax) = x}
           after == {t \in Segment(s, ax) : geo[t][ax].off = x + 1}
           shrinking == IF d > 0 THEN after ELSE before
           c == Clamped(shrinking, ax, d)
<1>1. after # {} /\ Moved(before, after, ax, c)
  BY DEF DragDivider
<1>2. SameAlong(geo, before, after, ax, term)
  BY <1>1, SegmentAlong
<1>3. before \in SUBSET Displayed /\ after \in SUBSET Displayed /\ before # {}
  BY SegmentClosed
<1>4. /\ \A t \in before : Border(geo[t], ax) = x
      /\ \A t \in after : geo[t][ax].off = x + 1
  OBVIOUS
<1>5. \A t \in Displayed : geo[t][ax].len \in Int /\ geo[t][ax].len >= 1 /\ Border(geo[t], ax) \in Int
  <2>1. \A t \in Displayed : geo[t] \in Rect /\ Within(geo[t], term)
    BY DisplayedFacts, TiledNow DEF ScreensInv, STypeOK, Tiles
  <2> QED BY <2>1, SpanTyped DEF Within
<1>6. x \in Int
  BY <1>5
<1>7. d \in Int /\ d # 0
  BY ScreensAssumption
<1>8. shrinking \in SUBSET Displayed
  BY <1>3
<1> HIDE DEF before, after, x
<1>9. /\ c \in Int
      /\ d > 0 => /\ c <= d
                  /\ \A t \in shrinking : c <= geo[t][ax].len - MinLen(ax)
                  /\ c = d \/ \E t \in shrinking : c = geo[t][ax].len - MinLen(ax)
      /\ ~(d > 0) => /\ -c <= -d
                     /\ \A t \in shrinking : -c <= geo[t][ax].len - MinLen(ax)
                     /\ c = d \/ \E t \in shrinking : -c = geo[t][ax].len - MinLen(ax)
  <2> HIDE DEF shrinking
  <2> QED BY <1>7, <1>8, ClampedResult
<1> HIDE DEF c
<1>10. MinLen(ax) \in Int /\ MinLen(ax) >= 1
  BY ScreensAssumption DEF MinLen
<1>11. /\ geo \in [Screen -> Rect] /\ Displayed \subseteq Screen
       /\ geo' = MoveBorder(before, after, ax, c) /\ screens' = screens /\ term' = term
  BY <1>1, DisplayedFacts DEF ScreensInv, STypeOK, Moved
<1>12. before \cap after = {}
  BY <1>3, <1>4, <1>5, SpanTyped, <1>11 DEF Border
<1>13. /\ \A t \in before : geo'[t][ax].len = geo[t][ax].len + c
       /\ \A t \in after : geo'[t][ax].len = geo[t][ax].len - c
  <2>1. ASSUME NEW t \in before PROVE geo'[t][ax].len = geo[t][ax].len + c
    <3>1. geo[t] \in Rect /\ t \in Screen
      BY <1>3, <1>11
    <3>2. geo'[t] = [geo[t] EXCEPT ![ax].len = @ + c]
      BY <1>11, <3>1 DEF MoveBorder
    <3>3. geo'[t][ax] = [geo[t][ax] EXCEPT !.len = @ + c]
      BY <3>1, <3>2 DEF Rect
    <3> QED BY <3>1, <3>3, SpanTyped DEF Span
  <2>2. ASSUME NEW t \in after PROVE geo'[t][ax].len = geo[t][ax].len - c
    <3>1. geo[t] \in Rect /\ t \in Screen /\ t \notin before
      BY <1>3, <1>11, <1>12
    <3>2. geo'[t] = [geo[t] EXCEPT ![ax].off = @ + c, ![ax].len = @ - c]
      BY <1>11, <3>1 DEF MoveBorder
    <3>3. geo'[t][ax] = [geo[t][ax] EXCEPT !.off = @ + c, !.len = @ - c]
      BY <3>1, <3>2 DEF Rect
    <3> QED BY <3>1, <3>3, SpanTyped DEF Span
  <2> QED BY <2>1, <2>2
\* A screen that ends with its minimum had no less.
<1>14. ASSUME NEW t \in Displayed, geo'[t][ax].len = MinLen(ax)
       PROVE  geo[t][ax].len >= MinLen(ax)
  <2>1. CASE ax = "row"
    BY <1>5, <2>1 DEF MinLen
  <2>2. CASE ax = "col"
    <3>1. MinLen("col") = MinCols /\ MinCols \in Int /\ geo[t]["col"].len \in Int
      BY <1>5, <2>2, ScreensAssumption DEF MinLen
    <3>2. ~(geo[t]["col"].len < MinCols)
      BY <1>11, <1>14, <2>2, <3>1 DEF Cramped
    <3> QED BY <2>2, <3>1, <3>2
  <2> QED BY <2>1, <2>2 DEF Axis
<1>15. CASE d > 0
  <2>1. \A t \in after : c <= geo[t][ax].len - MinLen(ax)
    BY <1>9, <1>15
  <2>2. c >= 0
    <3>1. c = d \/ \E t \in after : c = geo[t][ax].len - MinLen(ax)
      BY <1>9, <1>15
    <3>2. ASSUME NEW t \in after, c = geo[t][ax].len - MinLen(ax) PROVE c >= 0
      <4>1. t \in Displayed /\ geo[t][ax].len \in Int
        BY <1>3, <1>5
      <4>2. geo'[t][ax].len = MinLen(ax)
        BY <1>9, <1>10, <1>13, <3>2, <4>1
      <4> QED BY <1>10, <1>14, <3>2, <4>1, <4>2
    <3> QED BY <1>7, <1>15, <3>1, <3>2
  <2>3. \A t \in before : geo[t][ax].len + c >= 1
    BY <1>3, <1>5, <1>9, <2>2
  <2>4. \A t \in after : geo[t][ax].len - c >= 1
    BY <1>3, <1>5, <1>9, <1>10, <2>1
  <2> QED BY <1>1, <1>2, <1>3, <1>4, <1>6, <1>9, <2>3, <2>4, MovedTiles
<1>16. CASE ~(d > 0)
  <2>1. \A t \in before : -c <= geo[t][ax].len - MinLen(ax)
    BY <1>9, <1>16
  <2>2. -c >= 0
    <3>1. c = d \/ \E t \in before : -c = geo[t][ax].len - MinLen(ax)
      BY <1>9, <1>16
    <3>2. ASSUME NEW t \in before, -c = geo[t][ax].len - MinLen(ax) PROVE -c >= 0
      <4>1. t \in Displayed /\ geo[t][ax].len \in Int
        BY <1>3, <1>5
      <4>2. geo'[t][ax].len = MinLen(ax)
        BY <1>9, <1>10, <1>13, <3>2, <4>1
      <4> QED BY <1>10, <1>14, <3>2, <4>1, <4>2
    <3> QED BY <1>7, <1>9, <1>16, <3>1, <3>2
  <2>3. \A t \in before : geo[t][ax].len + c >= 1
    BY <1>3, <1>5, <1>9, <1>10, <2>1
  <2>4. \A t \in after : geo[t][ax].len - c >= 1
    BY <1>3, <1>5, <1>9, <2>2
  <2> QED BY <1>1, <1>2, <1>3, <1>4, <1>6, <1>9, <2>3, <2>4, MovedTiles
<1> QED BY <1>15, <1>16

-----------------------------------------------------------------------------
(* Rounding to the nearest. *)

\* A place b of n is rounded to one of m: 0 to 0, n to m, and in the same order;
\* for m = n it stays.
Rounded(b, n, m) == (b * m + n \div 2) \div n

LEMMA RoundedResult ==
  ASSUME NEW n \in Nat \ {0}, NEW m \in Nat
  PROVE  /\ \A b \in Int : Rounded(b, n, m) \in Int
         /\ Rounded(0, n, m) = 0
         /\ Rounded(n, n, m) = m
         /\ \A b, c \in Int : b <= c => Rounded(b, n, m) <= Rounded(c, n, m)
         /\ \A b \in Int : Rounded(b, n, n) = b
<1> DEFINE h == n \div 2
<1>1. h \in Int /\ 0 <= h /\ h < n
  <2>1. h \in Int /\ 2 * h <= n /\ n < 2 * h + 2
    BY QuotientIs
  <2> HIDE DEF h
  <2> QED BY <2>1
<1>2. \A a \in Int : a \div n \in Int
  BY QuotientIs
<1>3. \A b, k \in Int : b * k + h \in Int
  BY <1>1
<1> HIDE DEF h
<1>4. \A b, k : Rounded(b, n, k) = (b * k + h) \div n
  BY Zenon DEF Rounded, h
<1>5. \A b \in Int : Rounded(b, n, m) \in Int
  BY <1>2, <1>3, <1>4
<1>6. Rounded(0, n, m) = 0
  <2>1. 0 * m + h = h /\ n * 0 = 0
    BY <1>1
  <2>2. h \div n = 0
    BY <1>1, <2>1, QuotientOf
  <2> QED BY <1>4, <2>1, <2>2
<1>7. \A k \in Int : (n * k + h) \div n = k
  <2> TAKE k \in Int
  <2>1. n * k \in Int
    OBVIOUS
  <2>2. n * k <= n * k + h /\ n * k + h < n * k + n /\ n * k + h \in Int
    BY <1>1, <2>1
  <2> QED BY <2>2, QuotientOf
<1>8. Rounded(n, n, m) = m
  BY <1>4, <1>7
<1>9. \A b \in Int : Rounded(b, n, n) = b
  <2>1. \A b \in Int : b * n = n * b
    OBVIOUS
  <2> QED BY <1>4, <1>7, <2>1
<1>10. ASSUME NEW b \in Int, NEW c \in Int, b <= c
       PROVE  Rounded(b, n, m) <= Rounded(c, n, m)
  <2>1. m * b <= m * c
    BY <1>10, TimesGrows
  <2>2. m * b \in Int /\ m * c \in Int /\ b * m = m * b /\ c * m = m * c
    OBVIOUS
  <2>3. b * m + h <= c * m + h /\ b * m + h \in Int /\ c * m + h \in Int
    BY <1>1, <2>1, <2>2
  <2>4. (b * m + h) \div n <= (c * m + h) \div n
    BY <2>3, QuotientGrows
  <2> QED BY <1>4, <2>4
<1> QED BY <1>5, <1>6, <1>8, <1>9, <1>10

-----------------------------------------------------------------------------
(* The terminal changes its size. *)

\* A place map takes the places 0..n to 0..m, in order and the ends to the ends.
PlaceMap(M, n, m) ==
  /\ \A b \in Int : M[b] \in Int
  /\ M[0] = 0 /\ M[n] = m
  /\ \A b, c \in 0..n : b <= c => M[b] <= M[c]

\* Every new place has an old one: those before it are mapped before it.
LEMMA PlaceBack ==
  ASSUME NEW n \in Nat \ {0}, NEW m \in Int, NEW M, PlaceMap(M, n, m),
         NEW y \in Int, 0 <= y, y < m
  PROVE  \E r \in 0..(n - 1) : \A b \in 0..n : M[b] <= y <=> b <= r
<1> DEFINE T == {j \in 0..n : M[j] > y}
<1>1. n \in T /\ T \in SUBSET Nat
  BY DEF PlaceMap
<1>2. PICK j \in T : \A i \in T : j <= i
  <2> HIDE DEF T
  <2> QED BY <1>1, LeastElement
<1>3. j \in 0..n /\ M[j] > y /\ \A i \in 0..n : M[i] > y => j <= i
  BY <1>2
<1>4. j # 0
  BY <1>3 DEF PlaceMap
<1>5. j - 1 \in 0..(n - 1)
  BY <1>3, <1>4
<1>6. ASSUME NEW b \in 0..n PROVE M[b] <= y <=> b <= j - 1
  <2>1. M[b] \in Int /\ M[j] \in Int /\ (j <= b => M[j] <= M[b])
    BY <1>3 DEF PlaceMap
  <2> QED BY <1>3, <2>1
<1> QED BY <1>5, <1>6

\* A tiling whose places are mapped is a tiling.
LEMMA MapTiles ==
  ASSUME NEW D \in SUBSET Screen, NEW g \in [Screen -> Rect], NEW k \in [Screen -> Rect],
         NEW size \in Sizes, NEW size2 \in Sizes, Tiles(D, g, size),
         NEW M, \A ax \in Axis : PlaceMap(M[ax], Lim(ax, size), Lim(ax, size2)),
         \A s \in D, ax \in Axis : /\ k[s][ax].off = M[ax][g[s][ax].off]
                                   /\ After(k[s], ax) = M[ax][After(g[s], ax)]
                                   /\ k[s][ax].len >= 1
  PROVE  Tiles(D, k, size2)
<1>1. \A ax \in Axis : Lim(ax, size) \in Nat \ {0} /\ Lim(ax, size2) \in Nat \ {0}
  BY SizeTyped DEF Lim
<1>2. \A s \in D, ax \in Axis :
        /\ g[s][ax].off \in Int /\ After(g[s], ax) \in Int
        /\ g[s][ax].off \in 0..Lim(ax, size) /\ After(g[s], ax) \in 0..Lim(ax, size)
        /\ g[s][ax].off < After(g[s], ax)
  <2> TAKE s \in D, ax \in Axis
  <2>1. /\ g[s][ax].off \in Int /\ g[s][ax].len \in Int
        /\ After(g[s], ax) = g[s][ax].off + g[s][ax].len + 1
    BY SpanTyped
  <2>2. g[s][ax].off >= 0 /\ g[s][ax].len >= 1 /\ After(g[s], ax) <= Lim(ax, size)
    BY DEF Tiles, Within
  <2> QED BY <1>1, <2>1, <2>2
<1>3. \A s \in D, ax \in Axis : k[s][ax].off \in Int /\ After(k[s], ax) \in Int
  BY SpanTyped
<1>4. ASSUME NEW s \in D PROVE Within(k[s], size2)
  <2> SUFFICES ASSUME NEW ax \in Axis
               PROVE  k[s][ax].off >= 0 /\ After(k[s], ax) <= Lim(ax, size2)
    BY DEF Within
  <2>1. 0 \in 0..Lim(ax, size) /\ Lim(ax, size) \in 0..Lim(ax, size)
    BY <1>1
  <2>2. /\ M[ax][0] <= M[ax][g[s][ax].off]
        /\ M[ax][After(g[s], ax)] <= M[ax][Lim(ax, size)]
    BY <1>2, <2>1 DEF PlaceMap
  <2> QED BY <2>2 DEF PlaceMap
<1>5. ASSUME NEW p \in Cells(size2)
      PROVE  \E q \in Cells(size) : \A s \in D : In(k[s], p) <=> In(g[s], q)
  <2> DEFINE Back(ax, r) == \A b \in 0..Lim(ax, size) : M[ax][b] <= p[ax] <=> b <= r
             q == [ax \in Axis |-> CHOOSE r \in 0..(Lim(ax, size) - 1) : Back(ax, r)]
  <2>1. \A ax \in Axis : p[ax] \in Int /\ 0 <= p[ax] /\ p[ax] < Lim(ax, size2)
    BY DEF Cells
  <2>2. \A ax \in Axis : \E r \in 0..(Lim(ax, size) - 1) : Back(ax, r)
    <3> TAKE ax \in Axis
    <3> DEFINE f == M[ax]
               y == p[ax]
               n == Lim(ax, size)
               m == Lim(ax, size2)
    <3>1. PlaceMap(f, n, m) /\ y \in Int /\ 0 <= y /\ y < m
      BY <2>1
    <3>2. n \in Nat \ {0} /\ m \in Int
      BY <1>1
    <3> HIDE DEF f, y, n, m
    <3>3. \E r \in 0..(n - 1) : \A b \in 0..n : f[b] <= y <=> b <= r
      BY <3>1, <3>2, PlaceBack
    <3> QED BY <3>3 DEF f, y, n
  <2> HIDE DEF Back
  <2>3. \A ax \in Axis : q[ax] \in 0..(Lim(ax, size) - 1) /\ Back(ax, q[ax])
    BY <2>2
  <2>4. q \in [Axis -> Int]
    BY <1>1, <2>3
  <2> HIDE DEF q
  <2>5. q \in Cells(size)
    BY <1>1, <2>3, <2>4 DEF Cells
  <2>6. ASSUME NEW s \in D, NEW ax \in Axis
        PROVE  On(k[s], ax, p[ax]) <=> On(g[s], ax, q[ax])
    <3>1. /\ M[ax][g[s][ax].off] <= p[ax] <=> g[s][ax].off <= q[ax]
          /\ M[ax][After(g[s], ax)] <= p[ax] <=> After(g[s], ax) <= q[ax]
      BY <1>2, <2>3 DEF Back
    <3>2. k[s][ax].off = M[ax][g[s][ax].off] /\ After(k[s], ax) = M[ax][After(g[s], ax)]
      OBVIOUS
    <3>3. /\ k[s][ax].off <= p[ax] <=> g[s][ax].off <= q[ax]
          /\ After(k[s], ax) <= p[ax] <=> After(g[s], ax) <= q[ax]
      BY <3>1, <3>2
    <3>4. /\ After(k[s], ax) \in Int /\ p[ax] \in Int
          /\ After(g[s], ax) \in Int /\ q[ax] \in Int
      BY <1>2, <1>3, <2>1, <2>4
    <3> QED BY <3>3, <3>4 DEF On
  <2> QED BY <2>5, <2>6 DEF In
<1>6. \A p \in Cells(size2) : \E s \in D : In(k[s], p)
  BY <1>5 DEF Tiles
<1>7. Single(D, k, size2)
  <2> SUFFICES ASSUME NEW p \in Cells(size2), NEW s \in D, NEW t \in D, In(k[s], p), In(k[t], p)
               PROVE  s = t
    BY DEF Single
  <2>1. PICK q \in Cells(size) : \A u \in D : In(k[u], p) <=> In(g[u], q)
    BY <1>5
  <2> QED BY <2>1 DEF Tiles, Single
<1> QED BY <1>4, <1>6, <1>7 DEF Tiles

\* Where scaling moves a place.
NewPlace(ax, b, old, size) ==
  IF ax = "row" THEN Rounded(b, old.h, size.h)
  ELSE IF b > 0 THEN Rounded(b - 1, old.w, size.w) + 1 ELSE 0

LEMMA NewPlaceResult ==
  ASSUME NEW old \in Sizes, NEW size \in Sizes, NEW ax \in Axis
  PROVE  /\ PlaceMap([b \in Int |-> NewPlace(ax, b, old, size)], Lim(ax, old), Lim(ax, size))
         /\ \A b \in Nat : NewPlace(ax, b, old, old) = b
<1> DEFINE M == [b \in Int |-> NewPlace(ax, b, old, size)]
           h == old.h
           w == old.w
           h2 == size.h
           w2 == size.w
<1>1. h \in Nat \ {0} /\ w \in Nat \ {0} /\ h2 \in Nat /\ w2 \in Nat
  BY SizeTyped
<1>2. \A b \in Int : M[b] = NewPlace(ax, b, old, size)
  OBVIOUS
<1>3. /\ \A b : NewPlace("row", b, old, size) = Rounded(b, h, h2)
      /\ \A b : NewPlace("row", b, old, old) = Rounded(b, h, h)
      /\ \A b : NewPlace("col", b, old, size) = IF b > 0 THEN Rounded(b - 1, w, w2) + 1 ELSE 0
      /\ \A b : NewPlace("col", b, old, old) = IF b > 0 THEN Rounded(b - 1, w, w) + 1 ELSE 0
  BY DEF NewPlace
<1>4. /\ Lim("row", old) = h /\ Lim("row", size) = h2
      /\ Lim("col", old) = w + 1 /\ Lim("col", size) = w2 + 1
  BY DEF Lim
<1> HIDE DEF M, h, w, h2, w2
<1>5. CASE ax = "row"
  <2>1. \A b \in Int : M[b] = Rounded(b, h, h2)
    BY <1>2, <1>3, <1>5
  <2>2. /\ \A b \in Int : Rounded(b, h, h2) \in Int
        /\ Rounded(0, h, h2) = 0 /\ Rounded(h, h, h2) = h2
        /\ \A b, c \in Int : b <= c => Rounded(b, h, h2) <= Rounded(c, h, h2)
    BY <1>1, RoundedResult
  <2>3. PlaceMap(M, h, h2)
    <3>1. 0 \in Int /\ h \in Int /\ \A b \in 0..h : b \in Int
      BY <1>1
    <3> QED BY <2>1, <2>2, <3>1 DEF PlaceMap
  <2>4. \A b \in Int : Rounded(b, h, h) = b
    BY <1>1, RoundedResult
  <2>5. \A b \in Nat : NewPlace(ax, b, old, old) = b
    BY <1>3, <1>5, <2>4
  <2> QED BY <1>4, <1>5, <2>3, <2>5 DEF M
<1>6. CASE ax = "col"
  <2>1. \A b \in Int : M[b] = IF b > 0 THEN Rounded(b - 1, w, w2) + 1 ELSE 0
    BY <1>2, <1>3, <1>6
  <2>2. /\ \A b \in Int : Rounded(b, w, w2) \in Int
        /\ Rounded(0, w, w2) = 0 /\ Rounded(w, w, w2) = w2
        /\ \A b, c \in Int : b <= c => Rounded(b, w, w2) <= Rounded(c, w, w2)
    BY <1>1, RoundedResult
  <2>3. \A b \in Int : b > 0 => /\ Rounded(b - 1, w, w2) \in Int
                                /\ 0 <= Rounded(b - 1, w, w2)
    <3> SUFFICES ASSUME NEW b \in Int, b > 0
                 PROVE  Rounded(b - 1, w, w2) \in Int /\ 0 <= Rounded(b - 1, w, w2)
      OBVIOUS
    <3>1. 0 \in Int /\ b - 1 \in Int /\ 0 <= b - 1
      OBVIOUS
    <3>2. Rounded(0, w, w2) <= Rounded(b - 1, w, w2)
      BY <2>2, <3>1
    <3> QED BY <2>2, <3>1, <3>2
  <2>4. \A b \in Int : M[b] \in Int
    BY <2>1, <2>3
  <2>5. M[0] = 0 /\ M[w + 1] = w2 + 1
    <3>1. M[0] = 0
      <4>1. 0 \in Int /\ ~(0 > 0)
        OBVIOUS
      <4> QED BY <2>1, <4>1
    <3>2. M[w + 1] = w2 + 1
      <4> DEFINE v == w + 1
      <4>1. v - 1 = w /\ v > 0 /\ v \in Int
        BY <1>1
      <4> HIDE DEF v
      <4>2. M[v] = Rounded(v - 1, w, w2) + 1
        BY <2>1, <4>1
      <4> QED BY <2>2, <4>1, <4>2 DEF v
    <3> QED BY <3>1, <3>2
  <2>6. ASSUME NEW b \in 0..(w + 1), NEW c \in 0..(w + 1), b <= c
        PROVE  M[b] <= M[c]
    <3>1. b \in Int /\ c \in Int /\ b - 1 \in Int /\ c - 1 \in Int /\ b - 1 <= c - 1
      BY <1>1, <2>6
    <3>2. CASE b > 0
      <4>1. c > 0
        BY <2>6, <3>1, <3>2
      <4>2. M[b] = Rounded(b - 1, w, w2) + 1 /\ M[c] = Rounded(c - 1, w, w2) + 1
        BY <2>1, <3>1, <3>2, <4>1
      <4>3. Rounded(b - 1, w, w2) <= Rounded(c - 1, w, w2)
        BY <2>2, <3>1
      <4>4. Rounded(b - 1, w, w2) \in Int /\ Rounded(c - 1, w, w2) \in Int
        BY <2>2, <3>1
      <4> QED BY <4>2, <4>3, <4>4
    <3>3. CASE ~(b > 0)
      <4>1. M[b] = 0
        BY <2>1, <3>1, <3>3
      <4>2. CASE c > 0
        <5>1. M[c] = Rounded(c - 1, w, w2) + 1
          BY <2>1, <3>1, <4>2
        <5>2. Rounded(c - 1, w, w2) \in Int /\ 0 <= Rounded(c - 1, w, w2)
          BY <2>3, <3>1, <4>2
        <5> QED BY <4>1, <5>1, <5>2
      <4>3. CASE ~(c > 0)
        <5>1. M[c] = 0
          BY <2>1, <3>1, <4>3
        <5> QED BY <4>1, <5>1
      <4> QED BY <4>2, <4>3
    <3> QED BY <3>2, <3>3
  <2>7. PlaceMap(M, w + 1, w2 + 1)
    BY <2>4, <2>5, <2>6 DEF PlaceMap
  <2>8. ASSUME NEW b \in Nat PROVE NewPlace(ax, b, old, old) = b
    <3>1. b - 1 \in Int
      OBVIOUS
    <3>2. Rounded(b - 1, w, w) = b - 1
      BY <1>1, <3>1, RoundedResult
    <3> QED BY <1>3, <1>6, <3>2
  <2> QED BY <1>4, <1>6, <2>7, <2>8 DEF M
<1> QED BY <1>5, <1>6 DEF Axis

\* What is displayed takes the whole terminal.
LEMMA OldSizeTiled ==
  ASSUME ScreensInv, Tiled
  PROVE  OldHeight(screens) = term.h /\ OldWidth(screens) = term.w
<1>1. /\ geo \in [Screen -> Rect] /\ Displayed \subseteq Screen /\ term \in Sizes
      /\ screens \in Seq(Screen) /\ Displayed = ToSet(screens)
      /\ Tiles(Displayed, geo, term)
  BY DisplayedFacts, TiledNow DEF ScreensInv, STypeOK, Displayed
<1>2. term.h \in Nat /\ term.h >= 2 /\ term.w \in Nat /\ term.w >= 1
  BY <1>1, SizeTyped
<1>3. /\ OldHeight(screens) \in Nat /\ OldWidth(screens) \in Nat
      /\ \A s \in Displayed : /\ After(geo[s], "row") <= OldHeight(screens)
                              /\ Border(geo[s], "col") <= OldWidth(screens)
      /\ \/ OldHeight(screens) = 0
         \/ \E s \in Displayed : OldHeight(screens) = After(geo[s], "row")
      /\ \/ OldWidth(screens) = 0
         \/ \E s \in Displayed : OldWidth(screens) = Border(geo[s], "col")
  BY <1>1, OldSize
<1>4. \A s \in Displayed :
        /\ After(geo[s], "row") \in Int /\ After(geo[s], "row") <= term.h
        /\ After(geo[s], "col") \in Int /\ After(geo[s], "col") <= term.w + 1
        /\ Border(geo[s], "col") \in Int /\ After(geo[s], "col") = Border(geo[s], "col") + 1
  <2>1. "row" \in Axis /\ "col" \in Axis
    BY DEF Axis
  <2>2. \A s \in Displayed : geo[s] \in Rect
    BY <1>1
  <2>3. \A s \in Displayed : After(geo[s], "row") <= term.h /\ After(geo[s], "col") <= term.w + 1
    BY <1>1, <2>1 DEF Tiles, Within, Lim
  <2> QED BY <2>1, <2>2, <2>3, SpanTyped DEF After
<1>5. \E s \in Displayed : term.h - 1 < After(geo[s], "row") /\ term.w < After(geo[s], "col")
  <2> DEFINE p == Cell(term.h - 1, term.w)
  <2>1. p \in [Axis -> Int] /\ p["row"] = term.h - 1 /\ p["col"] = term.w
    BY <1>2 DEF Cell, Axis
  <2> HIDE DEF p
  <2>2. p \in Cells(term)
    BY <1>2, <2>1 DEF Cells, Lim, Axis
  <2>3. PICK s \in Displayed : In(geo[s], p)
    BY <1>1, <2>2 DEF Tiles
  <2> QED BY <2>1, <2>3 DEF In, On, Axis
<1>6. OldHeight(screens) >= term.h /\ OldWidth(screens) >= term.w
  BY <1>2, <1>3, <1>4, <1>5
<1>7. OldHeight(screens) <= term.h /\ OldWidth(screens) <= term.w
  BY <1>2, <1>3, <1>4
<1> QED BY <1>2, <1>3, <1>6, <1>7

\* The scaled spans are those of the mapped places.
LEMMA ScaledPlaces ==
  ASSUME ScreensInv, Tiled, NEW size \in Sizes, NEW s \in Displayed, NEW ax \in Axis
  PROVE  /\ Scaled(geo[s], screens, size) \in Rect
         /\ Scaled(geo[s], screens, size)[ax].off = NewPlace(ax, geo[s][ax].off, term, size)
         /\ After(Scaled(geo[s], screens, size), ax) = NewPlace(ax, After(geo[s], ax), term, size)
<1> DEFINE g == geo[s]
           top == MapRow(g["row"].off, screens, size)
           bottom == MapRow(After(g, "row"), screens, size)
           left == IF g["col"].off > 0 THEN MapCol(g["col"].off - 1, screens, size) + 1 ELSE 0
           right == IF Border(g, "col") < OldWidth(screens)
                      THEN MapCol(Border(g, "col"), screens, size) ELSE size.w
           R == Scaled(g, screens, size)
<1>1. /\ geo \in [Screen -> Rect] /\ Displayed \subseteq Screen /\ term \in Sizes
      /\ screens \in Seq(Screen) /\ Tiles(Displayed, geo, term)
  BY DisplayedFacts, TiledNow DEF ScreensInv, STypeOK
<1>2. OldHeight(screens) = term.h /\ OldWidth(screens) = term.w
  BY OldSizeTiled
<1>3. /\ term.h \in Nat \ {0} /\ term.w \in Nat \ {0} /\ size.h \in Nat /\ size.w \in Nat
  BY <1>1, SizeTyped
<1>4. g \in Rect /\ Within(g, term)
  BY <1>1 DEF Tiles
<1>5. R \in Rect
  <2>1. OldHeight(screens) > 0 /\ OldWidth(screens) > 0
    BY <1>2, <1>3
  <2> HIDE DEF g
  <2> QED BY <1>1, <1>4, <2>1, ScaledTyped
<1>6. R = [x \in Axis |-> IF x = "row" THEN [off |-> top, len |-> bottom - top - 1]
                                      ELSE [off |-> left, len |-> right - left]]
  BY DEF Scaled
<1> HIDE DEF g
<1>7. \A b : /\ MapRow(b, screens, size) = Rounded(b, term.h, size.h)
             /\ MapCol(b, screens, size) = Rounded(b, term.w, size.w)
  BY <1>2 DEF MapRow, MapCol, Rounded
<1>8. \A b \in Int : Rounded(b, term.h, size.h) \in Int /\ Rounded(b, term.w, size.w) \in Int
  BY <1>3, RoundedResult
<1> HIDE DEF R
<1>9. CASE ax = "row"
  <2>1. g["row"].off \in Int /\ After(g, "row") \in Int
    BY <1>4, SpanTyped DEF Axis
  <2>2. top = NewPlace("row", g["row"].off, term, size) /\ top \in Int
    BY <1>7, <1>8, <2>1 DEF NewPlace
  <2>3. bottom = NewPlace("row", After(g, "row"), term, size) /\ bottom \in Int
    BY <1>7, <1>8, <2>1 DEF NewPlace
  <2> HIDE DEF top, bottom, left, right
  <2>4. R["row"] = [off |-> top, len |-> bottom - top - 1]
    BY <1>6 DEF Axis
  <2>5. R["row"].off = top /\ After(R, "row") = bottom
    BY <2>2, <2>3, <2>4 DEF After, Border
  <2> QED BY <1>5, <1>9, <2>2, <2>3, <2>5 DEF R, g
<1>10. CASE ax = "col"
  <2>1. /\ g["col"].off \in Int /\ Border(g, "col") \in Int
        /\ After(g, "col") = Border(g, "col") + 1
        /\ g["col"].off >= 0 /\ Border(g, "col") >= 1 /\ Border(g, "col") <= term.w
    <3>1. "col" \in Axis
      BY DEF Axis
    <3>2. g["col"].off >= 0 /\ g["col"].len >= 1 /\ After(g, "col") <= term.w + 1
      BY <1>4, <3>1 DEF Within, Lim
    <3>3. /\ g["col"].off \in Int /\ g["col"].len \in Int
          /\ Border(g, "col") = g["col"].off + g["col"].len
          /\ After(g, "col") = g["col"].off + g["col"].len + 1
      BY <1>4, <3>1, SpanTyped
    <3> QED BY <1>3, <3>2, <3>3
  <2>2. left = NewPlace("col", g["col"].off, term, size) /\ left \in Int
    <3>1. g["col"].off - 1 \in Int
      BY <2>1
    <3> QED BY <1>7, <1>8, <3>1 DEF NewPlace
  <2>3. right + 1 = NewPlace("col", After(g, "col"), term, size) /\ right \in Int
    <3>1. After(g, "col") > 0 /\ After(g, "col") - 1 = Border(g, "col")
      BY <2>1
    <3>2. NewPlace("col", After(g, "col"), term, size) = Rounded(Border(g, "col"), term.w, size.w) + 1
      BY <3>1 DEF NewPlace
    <3>3. right = Rounded(Border(g, "col"), term.w, size.w)
      <4>1. CASE Border(g, "col") < term.w
        BY <1>2, <1>7, <4>1
      <4>2. CASE Border(g, "col") = term.w
        <5>1. right = size.w
          BY <1>2, <1>3, <4>2
        <5> QED BY <1>3, <4>2, <5>1, RoundedResult
      <4> QED BY <1>3, <2>1, <4>1, <4>2
    <3> QED BY <1>8, <2>1, <3>2, <3>3
  <2> HIDE DEF top, bottom, left, right
  <2>4. R["col"] = [off |-> left, len |-> right - left]
    BY <1>6 DEF Axis
  <2>5. R["col"].off = left /\ After(R, "col") = right + 1
    BY <2>2, <2>3, <2>4 DEF After, Border
  <2> QED BY <1>5, <1>10, <2>2, <2>3, <2>5 DEF R, g
<1> QED BY <1>9, <1>10 DEF Axis

\* Scaling the layout keeps the tiling.
LEMMA ScaledTiles ==
  ASSUME ScreensInv, Tiled, NEW size \in Sizes, Scalable(screens, size),
         NEW k \in [Screen -> Rect], \A s \in Displayed : k[s] = Scaled(geo[s], screens, size)
  PROVE  Tiles(Displayed, k, size)
<1> DEFINE M == [ax \in Axis |-> [b \in Int |-> NewPlace(ax, b, term, size)]]
<1>1. /\ geo \in [Screen -> Rect] /\ Displayed \subseteq Screen /\ term \in Sizes
      /\ Displayed = ToSet(screens) /\ Tiles(Displayed, geo, term)
  BY DisplayedFacts, TiledNow DEF ScreensInv, STypeOK, Displayed
<1>2. \A ax \in Axis : PlaceMap(M[ax], Lim(ax, term), Lim(ax, size))
  <2> TAKE ax \in Axis
  <2>1. M[ax] = [b \in Int |-> NewPlace(ax, b, term, size)]
    OBVIOUS
  <2> HIDE DEF M
  <2> QED BY <1>1, <2>1, NewPlaceResult
<1>3. ASSUME NEW s \in Displayed, NEW ax \in Axis
      PROVE  /\ k[s][ax].off = M[ax][geo[s][ax].off]
             /\ After(k[s], ax) = M[ax][After(geo[s], ax)]
             /\ k[s][ax].len >= 1
  <2>1. geo[s][ax].off \in Int /\ After(geo[s], ax) \in Int
    BY <1>1, SpanTyped
  <2>2. /\ M[ax][geo[s][ax].off] = NewPlace(ax, geo[s][ax].off, term, size)
        /\ M[ax][After(geo[s], ax)] = NewPlace(ax, After(geo[s], ax), term, size)
    BY <2>1
  <2>3. k[s] = Scaled(geo[s], screens, size)
    OBVIOUS
  <2> HIDE DEF M
  <2>4. k[s][ax].len >= 1
    BY <1>1, <2>3 DEF Scalable
  <2> QED BY <2>2, <2>3, <2>4, ScaledPlaces
<1> HIDE DEF M
<1> QED BY <1>1, <1>2, <1>3, MapTiles

\* If the terminal keeps its size, the layout can be scaled: it stays.
LEMMA SameSizeScales ==
  ASSUME ScreensInv, Tiled
  PROVE  Scalable(screens, term)
<1>1. /\ geo \in [Screen -> Rect] /\ Displayed \subseteq Screen /\ term \in Sizes
      /\ Displayed = ToSet(screens) /\ Tiles(Displayed, geo, term)
  BY DisplayedFacts, TiledNow DEF ScreensInv, STypeOK, Displayed
<1>2. OldHeight(screens) > 0 /\ OldWidth(screens) > 0
  BY <1>1, OldSizeTiled, SizeTyped
<1>3. ASSUME NEW s \in Displayed, NEW ax \in Axis
      PROVE  Scaled(geo[s], screens, term)[ax].len >= 1
  <2> DEFINE R == Scaled(geo[s], screens, term)
  <2>1. /\ geo[s][ax].off \in Int /\ geo[s][ax].len \in Int
        /\ After(geo[s], ax) = geo[s][ax].off + geo[s][ax].len + 1
        /\ geo[s][ax].off >= 0 /\ geo[s][ax].len >= 1
    <3>1. geo[s] \in Rect /\ Within(geo[s], term)
      BY <1>1 DEF Tiles
    <3> QED BY <3>1, SpanTyped DEF Within
  <2>2. geo[s][ax].off \in Nat /\ After(geo[s], ax) \in Nat
    BY <2>1
  <2>3. /\ R \in Rect
        /\ R[ax].off = NewPlace(ax, geo[s][ax].off, term, term)
        /\ After(R, ax) = NewPlace(ax, After(geo[s], ax), term, term)
    BY <1>1, ScaledPlaces
  <2> HIDE DEF R
  <2>4. R[ax].off = geo[s][ax].off /\ After(R, ax) = After(geo[s], ax)
    BY <1>1, <2>2, <2>3, NewPlaceResult
  <2>5. R[ax].len \in Int /\ After(R, ax) = R[ax].off + R[ax].len + 1
    BY <2>3, SpanTyped
  <2> QED BY <2>1, <2>4, <2>5 DEF R
<1> QED BY <1>1, <1>2, <1>3 DEF Scalable

\* The ends of the stacked screens are in order.
LEMMA EndsGrow ==
  ASSUME NEW n \in Nat, NEW End \in [0..n -> Int],
         \A i \in 1..n : End[i] >= End[i - 1] + 2
  PROVE  \A i, j \in 0..n : i <= j => End[i] <= End[j]
<1> SUFFICES ASSUME NEW i \in 0..n PROVE \A j \in 0..n : i <= j => End[i] <= End[j]
  OBVIOUS
<1> DEFINE T == {m \in 0..n : i <= m => End[i] <= End[m]}
<1>1. InductiveUpTo(n, T)
  <2>1. 0 \in T
    OBVIOUS
  <2>2. ASSUME NEW m \in 1..n, m - 1 \in T PROVE m \in T
    <3>1. m \in 0..n /\ m - 1 \in 0..n /\ End[m] \in Int /\ End[m - 1] \in Int /\ End[i] \in Int
      OBVIOUS
    <3>2. CASE i = m
      BY <3>1, <3>2
    <3>3. CASE i <= m - 1
      BY <2>2, <3>1, <3>3
    <3>4. CASE i > m
      BY <3>1, <3>4
    <3> QED BY <3>2, <3>3, <3>4
  <2> HIDE DEF T
  <2> QED BY <2>1, <2>2 DEF InductiveUpTo
<1>2. 0..n \subseteq T
  <2> HIDE DEF T
  <2> QED BY <1>1, IntervalInduction
<1> QED BY <1>2

\* The stacked screens tile the terminal if it has rows enough for them.
LEMMA StackTiles ==
  ASSUME ScreensInv, NEW size \in Sizes,
         ~(StackEnd(screens, size)[Len(screens)] > size.h),
         NEW k \in [Screen -> Rect],
         \A s \in Displayed : k[s] = relayoutStack(screens, size)[s]
  PROVE  Tiles(Displayed, k, size)
<1> DEFINE End == StackEnd(screens, size)
           n == Len(screens)
           Nth == [s \in Displayed |-> Place(screens, s)]
<1>1. /\ geo \in [Screen -> Rect] /\ Displayed \subseteq Screen
      /\ screens \in Seq(Screen) /\ Displayed = ToSet(screens) /\ screens # <<>>
      /\ IsInjective(screens) /\ n \in Nat \ {0} /\ DOMAIN screens = 1..n
  BY DisplayedFacts DEF ScreensInv, STypeOK, ListsApart, Displayed
<1>2. size.h \in Nat /\ size.w \in Nat /\ size.w >= 1
  BY SizeTyped
<1>3. /\ End \in [0..n -> Int] /\ End[0] = 0
      /\ \A i \in 1..n : End[i] >= End[i - 1] + 2
      /\ End[n] >= size.h /\ ~(End[n] > size.h)
  BY <1>1, StackEndResult
<1>4. \A s \in Displayed : Nth[s] \in 1..n /\ screens[Nth[s]] = s
  BY <1>1, PlaceResult
<1>5. \A s \in Displayed :
         k[s] = [ax \in Axis |->
           IF ax = "row" THEN [off |-> End[Nth[s] - 1], len |-> End[Nth[s]] - End[Nth[s] - 1] - 1]
                         ELSE [off |-> 0, len |-> size.w]]
  BY <1>1 DEF relayoutStack
<1> HIDE DEF End
<1>6. \A i, j \in 0..n : i <= j => End[i] <= End[j]
  <2>1. n \in Nat
    BY <1>1
  <2> HIDE DEF n
  <2> QED BY <1>3, <2>1, EndsGrow
<1>7. End[n] = size.h
  <2>1. End[n] \in Int
    BY <1>1, <1>3
  <2> QED BY <1>2, <1>3, <2>1
<1> HIDE DEF Nth, n
<1>8. ASSUME NEW s \in Displayed
      PROVE  /\ k[s]["row"].off = End[Nth[s] - 1] /\ After(k[s], "row") = End[Nth[s]]
             /\ k[s]["col"].off = 0 /\ After(k[s], "col") = size.w + 1
             /\ k[s]["row"].len = End[Nth[s]] - End[Nth[s] - 1] - 1 /\ k[s]["col"].len = size.w
             /\ End[Nth[s]] \in Int /\ End[Nth[s] - 1] \in Int
  <2>1. Nth[s] \in 0..n /\ Nth[s] - 1 \in 0..n
    BY <1>1, <1>4
  <2>2. End[Nth[s]] \in Int /\ End[Nth[s] - 1] \in Int
    BY <1>3, <2>1
  <2>3. /\ k[s]["row"] = [off |-> End[Nth[s] - 1], len |-> End[Nth[s]] - End[Nth[s] - 1] - 1]
        /\ k[s]["col"] = [off |-> 0, len |-> size.w]
    <3> DEFINE z == k[s]
               row == [off |-> End[Nth[s] - 1], len |-> End[Nth[s]] - End[Nth[s] - 1] - 1]
               col == [off |-> 0, len |-> size.w]
    <3>1. z = [ax \in Axis |-> IF ax = "row" THEN row ELSE col]
      BY <1>5
    <3> HIDE DEF z, row, col
    <3>2. z["row"] = row /\ z["col"] = col
      BY <3>1 DEF Axis
    <3> QED BY <3>2 DEF z, row, col
  <2> DEFINE a == End[Nth[s] - 1]
             b == End[Nth[s]]
             r == k[s]["row"]
             c == k[s]["col"]
  <2>4. a \in Int /\ b \in Int /\ r = [off |-> a, len |-> b - a - 1] /\ c = [off |-> 0, len |-> size.w]
    BY <2>2, <2>3
  <2>5. After(k[s], "row") = r.off + r.len + 1 /\ After(k[s], "col") = c.off + c.len + 1
    BY DEF After, Border
  <2> HIDE DEF a, b, r, c
  <2>6. r.off = a /\ r.len = b - a - 1 /\ c.off = 0 /\ c.len = size.w
    BY <2>4
  <2>7. After(k[s], "row") = b /\ After(k[s], "col") = size.w + 1
    BY <1>2, <2>4, <2>5, <2>6
  <2> QED BY <2>2, <2>6, <2>7 DEF a, b, r, c
<1>9. ASSUME NEW s \in Displayed PROVE Within(k[s], size)
  <2>1. Nth[s] \in 1..n /\ Nth[s] \in 0..n /\ Nth[s] - 1 \in 0..n /\ 0 \in 0..n /\ n \in 0..n
    BY <1>1, <1>4
  <2>2. 0 <= End[Nth[s] - 1] /\ End[Nth[s]] <= size.h /\ End[Nth[s]] >= End[Nth[s] - 1] + 2
    <3>1. 0 <= Nth[s] - 1 /\ Nth[s] <= n
      BY <2>1
    <3> QED BY <1>3, <1>6, <1>7, <2>1, <3>1
  <2> QED BY <1>2, <1>8, <2>2 DEF Within, Lim, Axis
<1>10. ASSUME NEW p \in Cells(size)
      PROVE  \E s \in Displayed : In(k[s], p)
  <2>1. /\ p["row"] \in Int /\ 0 <= p["row"] /\ p["row"] < size.h
        /\ p["col"] \in Int /\ 0 <= p["col"] /\ p["col"] < size.w + 1
    BY DEF Cells, Lim, Axis
  <2> DEFINE T == {j \in 1..n : End[j] > p["row"]}
  <2>2. n \in T /\ T \in SUBSET Nat
    BY <1>1, <1>7, <2>1
  <2>3. PICK j \in T : \A i \in T : j <= i
    <3> HIDE DEF T
    <3> QED BY <2>2, LeastElement
  <2>4. j \in 1..n /\ p["row"] < End[j]
    BY <2>3
  <2>5. End[j - 1] <= p["row"]
    <3>1. CASE j = 1
      BY <1>3, <2>1, <3>1
    <3>2. CASE j # 1
      <4>1. j - 1 \in 1..n /\ j - 1 \in 0..n /\ ~(j <= j - 1)
        BY <1>1, <2>4, <3>2
      <4>2. ~(End[j - 1] > p["row"])
        BY <2>3, <4>1
      <4>3. End[j - 1] \in Int
        BY <1>3, <4>1
      <4> QED BY <2>1, <4>2, <4>3
    <3> QED BY <3>1, <3>2
  <2> DEFINE s == screens[j]
  <2>6. s \in Displayed
    BY <1>1, <2>4 DEF ToSet
  <2>7. Nth[s] = j
    BY <1>1, <1>4, <2>4, <2>6 DEF IsInjective
  <2> HIDE DEF s
  <2>8. On(k[s], "row", p["row"]) /\ On(k[s], "col", p["col"])
    BY <1>8, <2>1, <2>4, <2>5, <2>6, <2>7 DEF On
  <2> QED BY <2>6, <2>8 DEF In, Axis
<1>11. ASSUME NEW p \in Cells(size), NEW s \in Displayed, NEW t \in Displayed,
              In(k[s], p), In(k[t], p), Nth[s] < Nth[t]
       PROVE  FALSE
  <2>1. Nth[s] \in 0..n /\ Nth[t] - 1 \in 0..n /\ Nth[s] <= Nth[t] - 1
    BY <1>1, <1>4, <1>11
  <2>2. End[Nth[s]] <= End[Nth[t] - 1]
    BY <1>6, <2>1
  <2>3. On(k[s], "row", p["row"]) /\ On(k[t], "row", p["row"]) /\ p["row"] \in Int
    BY <1>11 DEF In, Axis, Cells
  <2>4. p["row"] < End[Nth[s]] /\ End[Nth[t] - 1] <= p["row"]
    BY <1>8, <2>3 DEF On
  <2> QED BY <1>8, <2>2, <2>3, <2>4
<1>12. Single(Displayed, k, size)
  <2> SUFFICES ASSUME NEW p \in Cells(size), NEW s \in Displayed, NEW t \in Displayed,
                      In(k[s], p), In(k[t], p)
               PROVE  s = t
    BY DEF Single
  <2>1. Nth[s] \in Int /\ Nth[t] \in Int /\ screens[Nth[s]] = s /\ screens[Nth[t]] = t
    BY <1>1, <1>4
  <2>2. ~(Nth[s] < Nth[t]) /\ ~(Nth[t] < Nth[s])
    BY <1>11
  <2>3. Nth[s] = Nth[t]
    BY <2>1, <2>2
  <2> QED BY <2>1, <2>3
<1> QED BY <1>9, <1>10, <1>12 DEF Tiles

\* A single screen takes the whole terminal.
LEMMA WholeTiles ==
  ASSUME NEW s \in Screen, NEW size \in Sizes, NEW k \in [Screen -> Rect], k[s] = Whole(size)
  PROVE  Tiles({s}, k, size)
<1>1. size.h \in Nat /\ size.h >= 2 /\ size.w \in Nat /\ size.w >= 1
  BY SizeTyped
<1>2. /\ k[s]["row"].off = 0 /\ k[s]["row"].len = size.h - 1 /\ After(k[s], "row") = size.h
      /\ k[s]["col"].off = 0 /\ k[s]["col"].len = size.w /\ After(k[s], "col") = size.w + 1
  <2>1. /\ k[s]["row"] = [off |-> 0, len |-> size.h - 1]
        /\ k[s]["col"] = [off |-> 0, len |-> size.w]
    BY DEF Whole, Axis
  <2> QED BY <1>1, <2>1 DEF After, Border
<1>3. Within(k[s], size)
  BY <1>1, <1>2 DEF Within, Lim, Axis
<1>4. \A p \in Cells(size) : In(k[s], p)
  BY <1>1, <1>2 DEF Cells, Lim, In, On, Axis
<1> QED BY <1>3, <1>4 DEF Tiles, Single

\* The display is tiled at the start.
LEMMA InitTiles ==
  SInit => Tiled
<1> SUFFICES ASSUME SInit PROVE Tiled
  OBVIOUS
<1>1. PICK s \in Screen, size \in Sizes :
        /\ screens = <<s>> /\ term = size
        /\ geo = [t \in Screen |-> IF t = s THEN Whole(size) ELSE Nowhere]
  BY DEF SInit
<1>2. ScreensInv /\ Displayed = {s}
  <2>1. DOMAIN screens = {1} /\ screens[1] = s
    BY <1>1
  <2> QED BY <2>1, InitInv DEF Displayed, ToSet
<1>3. geo \in [Screen -> Rect] /\ geo[s] = Whole(size)
  BY <1>1, <1>2 DEF ScreensInv, STypeOK
<1> QED BY <1>1, <1>2, <1>3, WholeTiles, TiledNow

\* A new size of the terminal.
LEMMA ResizeTiles ==
  ASSUME ScreensInv, Tiled, NEW size \in Sizes, Resize(size), ~Overflows
  PROVE  Tiled'
<1> DEFINE k == geo'
           R == relayout(screens, size)
<1>1. /\ Displayed \subseteq Screen /\ Displayed = ToSet(screens) /\ scr \in Displayed
      /\ geo \in [Screen -> Rect] /\ screens \in Seq(Screen) /\ screens # <<>>
      /\ DOMAIN screens = 1..Len(screens)
  BY DisplayedFacts DEF ScreensInv, STypeOK, Displayed
<1>2. /\ term' = size /\ screens' = screens
      /\ k = IF Len(screens) = 1 THEN [geo EXCEPT ![scr] = Whole(size)] ELSE Layout(R)
  BY DEF Resize
<1>3. k \in [Screen -> Rect]
  <2>1. ScreensInv'
    BY BorderStep
  <2> QED BY <2>1 DEF ScreensInv, STypeOK
<1>4. Tiles(Displayed, k, size)
  <2>1. CASE Len(screens) = 1
    <3>1. Displayed = {scr}
      BY <1>1, <2>1 DEF ToSet
    <3>2. k[scr] = Whole(size)
      BY <1>1, <1>2, <2>1
    <3> HIDE DEF k
    <3> QED BY <1>1, <1>3, <3>1, <3>2, WholeTiles
  <2>2. CASE Len(screens) # 1
    <3>1. \A s \in Displayed : k[s] = R[s]
      <4>1. R \in [Displayed -> Rect] /\ Displayed \in SUBSET Screen
        BY <1>1, RelayoutTyped
      <4>2. k = Layout(R)
        BY <1>2, <2>2
      <4> HIDE DEF k, R
      <4> QED BY <4>1, <4>2, LayoutTyped
    <3>2. CASE Scalable(screens, size)
      <4>1. \A s \in Displayed : R[s] = Scaled(geo[s], screens, size)
        BY <1>1, <3>2 DEF relayout
      <4> HIDE DEF k, R
      <4>2. \A s \in Displayed : k[s] = Scaled(geo[s], screens, size)
        BY <3>1, <4>1
      <4> QED BY <1>3, <3>2, <4>2, ScaledTiles
    <3>3. CASE ~Scalable(screens, size)
      <4>1. size # term
        BY <3>3, SameSizeScales
      <4>2. ~(StackEnd(screens, size)[Len(screens)] > size.h)
        BY <1>2, <3>3, <4>1 DEF Overflows
      <4>3. R = relayoutStack(screens, size)
        BY <3>3 DEF relayout
      <4> HIDE DEF k, R
      <4>4. \A s \in Displayed : k[s] = relayoutStack(screens, size)[s]
        BY <3>1, <4>3
      <4> QED BY <1>3, <4>2, <4>4, StackTiles
    <3> QED BY <3>2, <3>3
  <2> QED BY <2>1, <2>2
<1>5. Displayed' = Displayed
  BY <1>2 DEF Displayed
<1> QED BY <1>1, <1>2, <1>3, <1>4, <1>5, TiledThen

\* Steps that leave the layout alone.
LEMMA SameTiles ==
  ASSUME Tiled, UNCHANGED <<screens, geo, term>>
  PROVE  Tiled'
BY DEF Tiled, Displayed

\* Every step keeps the tiling, those excepted that TilingKept excepts.
LEMMA StepTiles ==
  ASSUME ScreensInv, SNext, Tiled, ~Stranded, ~Overflows, ~Cramped
  PROVE  Tiled'
<1>1. CASE \E size \in Sizes : Resize(size)
  BY <1>1, ResizeTiles
<1>2. CASE \E ns \in Screen : \/ \E ax \in Axis, up \in BOOLEAN : editNewScreen(ns, ax, up)
                              \/ ceditOpen(ns)
  <2>1. PICK ns \in Screen : \/ \E ax \in Axis, up \in BOOLEAN : editNewScreen(ns, ax, up)
                             \/ ceditOpen(ns)
    BY <1>2
  <2>2. /\ ns \notin Live /\ term' = term
        /\ \/ \E up : vsSplit(ns, up, FALSE) \/ vsplitVert(ns)
           \/ vsSplit(ns, FALSE, TRUE)
    BY <2>1 DEF editNewScreen, ceditOpen
  <2>3. ns \in Screen \ Displayed
    BY <2>2 DEF Live
  <2> QED BY <2>2, <2>3, SplitTiles
<1>3. ASSUME NEW preferred, discardCurrentScreen(preferred), term' = term PROVE Tiled'
  <2>1. Len(screens') < Len(screens)
    <3>1. screens' = RemoveAt(screens, Place(screens, scr))
      BY <1>3 DEF discardCurrentScreen
    <3>2. /\ screens \in Seq(Screen) /\ Len(screens) \in Nat
          /\ Place(screens, scr) \in 1..Len(screens)
      BY DisplayedFacts DEF ScreensInv, STypeOK
    <3>3. Len(screens') = Len(screens) - 1
      BY <3>1, <3>2, RemoveAtResult
    <3> QED BY <3>2, <3>3
  <2>2. Heirs(scr) # {}
    BY <2>1 DEF Stranded
  <2> QED BY <1>3, <2>2, DiscardTiles
<1>4. CASE finishQuit \/ ceditClose \/ exBg
  <2>1. CASE \E preferred : discardCurrentScreen(preferred) /\ term' = term
    BY <1>3, <2>1
  <2>2. CASE UNCHANGED <<screens, geo, term>>
    BY <2>2, SameTiles
  <2> QED BY <1>4, <2>1, <2>2 DEF finishQuit, ceditClose, exBg
<1>5. CASE \E i \in DOMAIN bg : exFg(i) \/ \E up \in BOOLEAN : fgNewScreen(i, up)
  <2>1. PICK i \in DOMAIN bg : exFg(i) \/ \E up \in BOOLEAN : fgNewScreen(i, up)
    BY <1>5
  <2>2. CASE exFg(i)
    BY <2>2, SwapTiles
  <2>3. CASE \E up \in BOOLEAN : fgNewScreen(i, up)
    <3>1. bg[i] \in Screen \ Displayed
      BY TakeBg
    <3>2. \/ (\E up : vsSplit(bg[i], up, FALSE)) /\ term' = term
          \/ UNCHANGED <<screens, geo, term>>
      BY <2>3 DEF fgNewScreen
    <3> QED BY <3>1, <3>2, SplitTiles, SameTiles
  <2> QED BY <2>1, <2>2, <2>3
<1>6. CASE switchScreen \/ \E s \in Displayed : FocusPane(s)
  BY <1>6, SameTiles DEF switchScreen, FocusPane
<1>7. CASE \E s \in Displayed, ax \in Axis, d \in Deltas : DragDivider(s, ax, d)
  BY <1>7, DragTiles
<1>8. CASE \E d \in Deltas : resizeScreen(d)
  BY <1>8, ResizeScreenTiles
<1> QED BY <1>1, <1>2, <1>4, <1>5, <1>6, <1>7, <1>8 DEF SNext

-----------------------------------------------------------------------------
(* The theorems. *)

\* The state of the screens is well formed, whatever the operations: the active
\* screen is displayed, a screen that is not has no place, and a command line
\* window is displayed or in the background (split.go, screencmds.go, cedit.go).
THEOREM ScreensTyped ==
  SSpec => []STypeOK
BY AlwaysInv, PTL DEF ScreensInv

\* Every screen is at one place, displayed or in the background, for any number
\* of screens (screencmds.go, exBg, exFg, fgNewScreen).
THEOREM OnePlaceEach ==
  SSpec => []PlacedOnce
<1>1. ScreensInv => PlacedOnce
  <2> SUFFICES ASSUME ScreensInv PROVE PlacedOnce
    OBVIOUS
  <2>1. /\ screens \in Seq(Screen) /\ bg \in Seq(Screen)
        /\ IsInjective(screens) /\ IsInjective(bg) /\ Displayed \cap ToSet(bg) = {}
        /\ Displayed = ToSet(screens)
    BY DEF ScreensInv, STypeOK, ListsApart, Displayed
  <2>2. /\ IsFiniteSet(Displayed) /\ Cardinality(Displayed) = Len(screens)
        /\ IsFiniteSet(ToSet(bg)) /\ Cardinality(ToSet(bg)) = Len(bg)
    BY <2>1, ListSize
  <2>3. Cardinality(Live) =
          Cardinality(Displayed) + Cardinality(ToSet(bg)) - Cardinality({})
    BY <2>1, <2>2, FS_Union DEF Live
  <2>4. Cardinality({}) = 0 /\ Len(screens) \in Nat /\ Len(bg) \in Nat
    BY FS_EmptySet, DisplayedFacts
  <2> QED BY <2>2, <2>3, <2>4 DEF PlacedOnce
<1> QED BY <1>1, AlwaysInv, PTL

\* A screen goes only when it is closed; :bg, :fg and :Fg lose none, however
\* many there are and whether or not there is room (screencmds.go, split.go).
THEOREM NoScreenLost ==
  SSpec => NoneLost
<1> DEFINE Step == \A s \in Live \ Live' :
             s = scr /\ screens' = RemoveAt(screens, Place(screens, scr)) /\ bg' = bg
<1>1. ScreensInv /\ [SNext]_svars => [Step]_svars
  BY StepKeeps DEF Keeps
<1>2. SSpec => [][Step]_svars
  <2> HIDE DEF Step
  <2> QED BY <1>1, AlwaysInv, PTL DEF SSpec
<1> QED BY <1>2 DEF NoneLost

\* However the screens have been split, joined, swapped, moved and scaled, for
\* any number of them and any size of the terminal, no step leaves a gap or
\* lets two screens overlap, the excepted ones aside (engine.go, relayout;
\* split.go, vsSplit, vsplitVert, discardCurrentScreen; gui.go, DragDivider).
THEOREM DisplayStaysTiled ==
  SSpec => TilingKept
<1> DEFINE Step == Tiled /\ ~Stranded /\ ~Overflows /\ ~Cramped => Tiled'
<1>1. ScreensInv /\ [SNext]_svars => [Step]_svars
  BY StepTiles
<1>2. SSpec => [][Step]_svars
  <2> HIDE DEF Step
  <2> QED BY <1>1, AlwaysInv, PTL DEF SSpec
<1> QED BY <1>2 DEF TilingKept
=============================================================================
