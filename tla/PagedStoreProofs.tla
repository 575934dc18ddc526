-------------------------- MODULE PagedStoreProofs --------------------------
(***************************************************************************)
(* Proofs about the paged store: for files of any length, any stride, block *)
(* and budget, any edits and any numbers drawn, the tree counts its lines   *)
(* rightly and holds each once, the cursor and the checkpoints of the       *)
(* reader stay where their lines start, the cache is consistent, and the    *)
(* store is the plain sequence of lines it promises to be.                  *)
(*                                                                          *)
(* The loops and the recursions of the code are recursive functions in the  *)
(* model.  For each there is a lemma that the function exists (by induction *)
(* on the size of the tree, or over the rounds), one that it is what its    *)
(* definition says, and one on its result: SplitResult, LocateResult and    *)
(* MergeResult for the tree, SkipResult, ContentResult and ReadLineResult   *)
(* for the file, EvictResult and PutKept for the cache.  PagedInv puts the  *)
(* three parts together.                                                    *)
(***************************************************************************)
EXTENDS PagedStore, Lists

-----------------------------------------------------------------------------
(***************************************************************************)
(* Trees of spans.                                                          *)
(***************************************************************************)

Number == Prio \cup {0}

Span == [fromAdd : BOOLEAN, start : Nat, count : Nat \ {0}]

\* A node over two trees, with the count update gives it.
Node(sp, prio, l, r) ==
  [sp |-> sp, prio |-> prio, left |-> l, right |-> r, lcount |-> sp.count + lc(l) + lc(r)]

\* The trees of S are sound: their spans hold lines, and they count them.
Closed(S) ==
  /\ NoNode \in S
  /\ \A x \in S : x # NoNode =>
       /\ x.sp \in Span /\ x.prio \in Number /\ x.left \in S /\ x.right \in S
       /\ x = Node(x.sp, x.prio, x.left, x.right)
       /\ x.lcount \in Nat

IsTree(t) == \E S : Closed(S) /\ t \in S

\* What the parts of a node have to do with it.
LEMMA NodeFacts ==
  ASSUME NEW S, Closed(S), NEW x \in S
  PROVE  /\ lc(x) \in Nat
         /\ x = NoNode => lc(x) = 0
         /\ x # NoNode =>
              /\ x.sp \in Span /\ x.prio \in Number
              /\ x.sp.count \in Nat \ {0} /\ x.sp.start \in Nat /\ x.sp.fromAdd \in BOOLEAN
              /\ x.left \in S /\ x.right \in S
              /\ lc(x.left) \in Nat /\ lc(x.right) \in Nat
              /\ lc(x) = x.sp.count + lc(x.left) + lc(x.right)
              /\ lc(x.left) < lc(x) /\ lc(x.right) < lc(x)
<1>1. \A y \in S : lc(y) \in Nat
  BY DEF Closed, lc
<1>2. x = NoNode => lc(x) = 0
  BY DEF lc
<1>3. ASSUME x # NoNode
      PROVE  /\ x.sp \in Span /\ x.prio \in Number
             /\ x.sp.count \in Nat \ {0} /\ x.sp.start \in Nat /\ x.sp.fromAdd \in BOOLEAN
             /\ x.left \in S /\ x.right \in S
             /\ lc(x.left) \in Nat /\ lc(x.right) \in Nat
             /\ lc(x) = x.sp.count + lc(x.left) + lc(x.right)
  <2>1. /\ x.sp \in Span /\ x.prio \in Number /\ x.left \in S /\ x.right \in S
        /\ x = Node(x.sp, x.prio, x.left, x.right)
    BY <1>3 DEF Closed
  <2>2. x.lcount = x.sp.count + lc(x.left) + lc(x.right)
    <3>1. Node(x.sp, x.prio, x.left, x.right).lcount = x.sp.count + lc(x.left) + lc(x.right)
      BY DEF Node
    <3> QED BY <2>1, <3>1
  <2>3. lc(x) = x.lcount
    BY <1>3 DEF lc
  <2>4. x.sp.count \in Nat \ {0} /\ x.sp.start \in Nat /\ x.sp.fromAdd \in BOOLEAN
    BY <2>1 DEF Span
  <2> QED BY <1>1, <2>1, <2>2, <2>3, <2>4
<1>4. ASSUME x # NoNode PROVE lc(x.left) < lc(x) /\ lc(x.right) < lc(x)
  BY <1>3, <1>4
<1> QED BY <1>1, <1>2, <1>3, <1>4

\* A node is not the empty tree, and counts its lines.
LEMMA NodeIs ==
  ASSUME NEW sp, NEW n, NEW l, NEW r
  PROVE  /\ Node(sp, n, l, r) # NoNode
         /\ Node(sp, n, l, r).sp = sp /\ Node(sp, n, l, r).prio = n
         /\ Node(sp, n, l, r).left = l /\ Node(sp, n, l, r).right = r
         /\ Node(sp, n, l, r).lcount = sp.count + lc(l) + lc(r)
         /\ lc(Node(sp, n, l, r)) = sp.count + lc(l) + lc(r)
<1> DEFINE x == [sp |-> sp, prio |-> n, left |-> l, right |-> r,
                 lcount |-> sp.count + lc(l) + lc(r)]
<1>1. x # NoNode
  <2>1. "sp" \in DOMAIN x
    OBVIOUS
  <2>2. DOMAIN <<>> = {}
    OBVIOUS
  <2> QED BY <2>1, <2>2 DEF NoNode
<1>2. lc(x) = x.lcount
  BY <1>1 DEF lc
<1> QED BY <1>1, <1>2 DEF Node

\* The sound trees of two sets are sound together, and so is a node over them.
LEMMA ClosedGrows ==
  ASSUME NEW S, NEW T, Closed(S), Closed(T)
  PROVE  /\ Closed(S \cup T)
         /\ \A sp \in Span, n \in Number, l, r \in S \cup T :
              Closed(S \cup T \cup {Node(sp, n, l, r)})
<1>1. Closed(S \cup T)
  BY DEF Closed
<1>2. ASSUME NEW sp \in Span, NEW n \in Number, NEW l \in S \cup T, NEW r \in S \cup T
      PROVE  Closed(S \cup T \cup {Node(sp, n, l, r)})
  <2> DEFINE x == Node(sp, n, l, r)
  <2>1. /\ x.sp = sp /\ x.prio = n /\ x.left = l /\ x.right = r
        /\ x.lcount = sp.count + lc(l) + lc(r)
    BY NodeIs
  <2>2. x.lcount \in Nat
    <3>1. lc(l) \in Nat /\ lc(r) \in Nat
      BY <1>1, NodeFacts
    <3>2. sp.count \in Nat
      BY DEF Span
    <3> QED BY <2>1, <3>1, <3>2
  <2>3. x = Node(x.sp, x.prio, x.left, x.right)
    BY <2>1
  <2> HIDE DEF x
  <2> QED BY <1>1, <2>1, <2>2, <2>3 DEF Closed
<1> QED BY <1>1, <1>2

\* A node over two trees is a tree.
LEMMA NodeTree ==
  ASSUME NEW sp \in Span, NEW n \in Number, NEW l, NEW r, IsTree(l), IsTree(r)
  PROVE  IsTree(Node(sp, n, l, r))
<1>1. PICK S : Closed(S) /\ l \in S
  BY DEF IsTree
<1>2. PICK T : Closed(T) /\ r \in T
  BY DEF IsTree
<1>3. Closed(S \cup T \cup {Node(sp, n, l, r)})
  BY <1>1, <1>2, ClosedGrows
<1> QED BY <1>3 DEF IsTree

\* The empty tree.
LEMMA EmptyTree ==
  IsTree(NoNode) /\ lc(NoNode) = 0
<1>1. Closed({NoNode})
  BY DEF Closed
<1> QED BY <1>1 DEF IsTree, lc

\* What is said of a node holds of every tree.
LEMMA TreeFacts ==
  ASSUME NEW x, IsTree(x)
  PROVE  /\ lc(x) \in Nat
         /\ x = NoNode => lc(x) = 0
         /\ x # NoNode =>
              /\ x.sp \in Span /\ x.prio \in Number
              /\ x.sp.count \in Nat \ {0} /\ x.sp.start \in Nat /\ x.sp.fromAdd \in BOOLEAN
              /\ IsTree(x.left) /\ IsTree(x.right)
              /\ lc(x.left) \in Nat /\ lc(x.right) \in Nat
              /\ lc(x) = x.sp.count + lc(x.left) + lc(x.right)
              /\ lc(x.left) < lc(x) /\ lc(x.right) < lc(x)
              /\ x = Node(x.sp, x.prio, x.left, x.right)
<1>1. PICK S : Closed(S) /\ x \in S
  BY DEF IsTree
<1>2. x # NoNode => x = Node(x.sp, x.prio, x.left, x.right) /\ x.left \in S /\ x.right \in S
  BY <1>1 DEF Closed
<1>3. x # NoNode => IsTree(x.left) /\ IsTree(x.right)
  BY <1>1, <1>2 DEF IsTree
<1> QED BY <1>1, <1>2, <1>3, NodeFacts

-----------------------------------------------------------------------------
\* What is below a tree: the tree, the empty one, and with a node its parts.
LEMMA BelowFacts ==
  ASSUME NEW S, Closed(S), NEW t \in S
  PROVE  /\ Below(t) \subseteq S
         /\ t \in Below(t)
         /\ Closed(Below(t))
         /\ \A x \in Below(t) : lc(x) <= lc(t)
<1> DEFINE N == lc(t)
           Parts(U) == U \cup {x.left : x \in U \ {NoNode}} \cup {x.right : x \in U \ {NoNode}}
           F == [i \in 1..N |-> [U \in SUBSET S |-> Parts(U)]]
           Upto(u) == u = [n \in 0..N |->
                             LET above == IF n = 0 THEN {} ELSE u[n - 1]
                             IN  IF n = 0 THEN {t, NoNode}
                                 ELSE above \cup {x.left : x \in above \ {NoNode}}
                                            \cup {x.right : x \in above \ {NoNode}}]
           u == CHOOSE v : Upto(v)
<1>1. N \in Nat /\ NoNode \in S
  BY NodeFacts DEF Closed
<1>2. Below(t) = u[N]
  BY Zenon DEF Below
<1>3. \A U \in SUBSET S : Parts(U) \in SUBSET S
  BY DEF Closed
<1>4. F \in Stepper(N, SUBSET S)
  <2> HIDE DEF Parts
  <2> QED BY <1>3 DEF Stepper
<1>5. \A i \in 1..N, U \in SUBSET S : F[i][U] = Parts(U)
  OBVIOUS
<1>6. {t, NoNode} \in SUBSET S
  BY <1>1
<1> HIDE DEF F
<1>7. PICK w \in [0..N -> SUBSET S] : IsCourse(w, N, {t, NoNode}, F)
  <2> HIDE DEF N
  <2> QED BY <1>1, <1>4, <1>6, CourseExists
<1> HIDE DEF N
<1>8. Upto(w)
  <2>1. \A n \in 1..N : n - 1 \in 0..N /\ w[n - 1] \in SUBSET S
    BY <1>1
  <2>2. \A n \in 1..N : w[n] = Parts(w[n - 1])
    BY <1>5, <1>7, <2>1 DEF IsCourse
  <2>3. w[0] = {t, NoNode}
    BY <1>7 DEF IsCourse
  <2>4. \A n \in 0..N : n # 0 => n \in 1..N
    BY <1>1
  <2>5. \A n \in 0..N : w[n] = LET above == IF n = 0 THEN {} ELSE w[n - 1]
                                IN  IF n = 0 THEN {t, NoNode}
                                    ELSE above \cup {x.left : x \in above \ {NoNode}}
                                               \cup {x.right : x \in above \ {NoNode}}
    BY <2>2, <2>3, <2>4
  <2>6. w = [n \in 0..N |-> w[n]]
    BY <1>7
  <2> QED BY <2>5, <2>6
<1> HIDE DEF u
<1>9. Upto(u)
  <2> HIDE DEF Upto
  <2> QED BY <1>8 DEF u
<1>10. u[0] = {t, NoNode} /\ \A n \in 1..N : u[n] = Parts(u[n - 1])
  <2>1. 0 \in 0..N /\ \A n \in 1..N : n \in 0..N /\ n # 0
    BY <1>1
  <2> QED BY <1>9, <2>1
<1> HIDE DEF Upto
<1> DEFINE Good(n) ==
             /\ u[n] \in SUBSET S /\ t \in u[n] /\ NoNode \in u[n]
             /\ \A x \in u[n] : lc(x) <= N
             /\ \A x \in u[n] : x # NoNode =>
                  \/ x.left \in u[n] /\ x.right \in u[n]
                  \/ lc(x) + n <= N
           T == {n \in 0..N : Good(n)}
<1>11. \A x \in S : /\ lc(x) \in Nat
                    /\ x # NoNode => /\ x.left \in S /\ x.right \in S
                                     /\ lc(x.left) < lc(x) /\ lc(x.right) < lc(x)
  BY NodeFacts
<1>12. lc(NoNode) = 0 /\ N = lc(t)
  BY EmptyTree DEF N
<1>13. Good(0)
  BY <1>1, <1>6, <1>10, <1>12
<1>14. ASSUME NEW n \in 1..N, Good(n - 1) PROVE Good(n)
  <2> DEFINE U == u[n - 1]
  <2>1. u[n] = Parts(U)
    BY <1>10
  <2>2. /\ U \in SUBSET S /\ t \in U /\ NoNode \in U
        /\ \A x \in U : lc(x) <= N
        /\ \A x \in U : x # NoNode =>
             \/ x.left \in U /\ x.right \in U
             \/ lc(x) + (n - 1) <= N
    BY <1>14
  <2> HIDE DEF U
  <2>3. Parts(U) \in SUBSET S /\ t \in Parts(U) /\ NoNode \in Parts(U)
    BY <1>3, <2>2
  <2>4. ASSUME NEW x \in Parts(U)
        PROVE  /\ lc(x) <= N
               /\ x # NoNode => \/ x.left \in Parts(U) /\ x.right \in Parts(U)
                                \/ lc(x) + n <= N
    <3>1. CASE x \in U
      BY <2>2, <3>1
    <3>2. CASE x \notin U
      <4>1. PICK y \in U \ {NoNode} : x = y.left \/ x = y.right
        BY <3>2
      <4>2. lc(y) + (n - 1) <= N
        BY <2>2, <3>2, <4>1
      <4>3. lc(x) < lc(y) /\ lc(y) \in Nat /\ lc(x) \in Nat
        BY <1>11, <2>2, <2>3, <4>1
      <4> QED BY <1>1, <4>2, <4>3
    <3> QED BY <3>1, <3>2
  <2> HIDE DEF Parts
  <2> QED BY <2>1, <2>3, <2>4
<1>15. InductiveUpTo(N, T)
  <2> HIDE DEF Good
  <2> QED BY <1>1, <1>13, <1>14 DEF InductiveUpTo
<1>16. Good(N)
  <2>1. N \in T
    <3> HIDE DEF T
    <3> QED BY <1>1, <1>15, IntervalInduction
  <2> QED BY <2>1
<1>17. \A x \in u[N] : x # NoNode => x.left \in u[N] /\ x.right \in u[N]
  <2> TAKE x \in u[N]
  <2> HAVE x # NoNode
  <2>1. ~ (lc(x) + N <= N)
    <3>1. lc(x) \in Nat /\ lc(x.left) \in Nat /\ lc(x.left) < lc(x)
      BY <1>11, <1>16
    <3> QED BY <1>1, <3>1
  <2> QED BY <1>16, <2>1
<1>18. Closed(u[N])
  BY <1>16, <1>17 DEF Closed
<1> QED BY <1>2, <1>12, <1>16, <1>18

\* The same of the trees below a tree.
LEMMA TreeBelow ==
  ASSUME NEW t, IsTree(t)
  PROVE  /\ t \in Below(t) /\ NoNode \in Below(t)
         /\ Closed(Below(t))
         /\ \A x \in Below(t) : IsTree(x) /\ lc(x) <= lc(t)
<1>1. PICK S : Closed(S) /\ t \in S
  BY DEF IsTree
<1>2. Closed(Below(t)) /\ t \in Below(t) /\ \A x \in Below(t) : lc(x) <= lc(t)
  BY <1>1, BelowFacts
<1> QED BY <1>2 DEF IsTree, Closed

-----------------------------------------------------------------------------
(***************************************************************************)
(* The lines of a tree in their order.                                      *)
(***************************************************************************)

OrderAt(f, x) == IF x = NoNode THEN <<>> ELSE f[x.left] \o Refs(x.sp) \o f[x.right]

OrdersOver(S, f) == f = [x \in S |-> OrderAt(f, x)]

OrderFun(t) == CHOOSE f : OrdersOver(Below(t), f)

\* The recursion of Order is one: it goes down to fewer lines.
LEMMA OrderExists ==
  ASSUME NEW S, Closed(S), NEW N \in Nat, \A x \in S : lc(x) <= N
  PROVE  \E f : OrdersOver(S, f)
<1> DEFINE Low(n) == {x \in S : lc(x) <= n}
           T == {n \in 0..N : \E f : OrdersOver(Low(n), f)}
<1>1. \A x \in S : /\ lc(x) \in Nat
                   /\ x # NoNode => /\ x.left \in S /\ x.right \in S
                                    /\ lc(x.left) < lc(x) /\ lc(x.right) < lc(x)
  BY NodeFacts
<1>2. \E f : OrdersOver(Low(0), f)
  <2> DEFINE f == [x \in Low(0) |-> <<>>]
  <2>1. \A x \in Low(0) : x = NoNode
    BY <1>1
  <2>2. \A x \in Low(0) : OrderAt(f, x) = <<>>
    BY <2>1 DEF OrderAt
  <2>3. OrdersOver(Low(0), f)
    BY <2>2 DEF OrdersOver
  <2> HIDE DEF f
  <2> QED BY <2>3
<1>3. ASSUME NEW n \in 1..N, \E f : OrdersOver(Low(n - 1), f)
      PROVE  \E f : OrdersOver(Low(n), f)
  <2>1. PICK f : OrdersOver(Low(n - 1), f)
    BY <1>3
  <2> DEFINE g == [x \in Low(n) |-> OrderAt(f, x)]
  <2>2. \A x \in Low(n - 1) : x \in Low(n)
    BY <1>1
  <2>3. \A x \in Low(n - 1) : f[x] = OrderAt(f, x)
    BY <2>1 DEF OrdersOver
  <2>4. \A x \in Low(n - 1) : g[x] = f[x]
    BY <2>2, <2>3
  <2>5. \A x \in Low(n) : x # NoNode => x.left \in Low(n - 1) /\ x.right \in Low(n - 1)
    BY <1>1
  <2>6. \A x \in Low(n) : OrderAt(g, x) = OrderAt(f, x)
    <3> HIDE DEF g, Low
    <3> QED BY <2>4, <2>5 DEF OrderAt
  <2>7. OrdersOver(Low(n), g)
    <3>1. g = [x \in Low(n) |-> OrderAt(g, x)]
      BY <2>6
    <3> QED BY <3>1 DEF OrdersOver
  <2> HIDE DEF g
  <2> QED BY <2>7
<1>4. N \in T
  <2>1. InductiveUpTo(N, T)
    <3> HIDE DEF Low
    <3> QED BY <1>2, <1>3 DEF InductiveUpTo
  <2> HIDE DEF T
  <2> QED BY <2>1, IntervalInduction
<1>5. Low(N) = S
  OBVIOUS
<1> QED BY <1>4, <1>5

\* The order of a tree is what its definition says, at every node.
LEMMA OrderFunIs ==
  ASSUME NEW t, IsTree(t)
  PROVE  /\ Order(t) = OrderFun(t)[t]
         /\ \A x \in Below(t) : OrderFun(t)[x] = OrderAt(OrderFun(t), x)
<1>1. Order(t) = OrderFun(t)[t]
  BY Zenon DEF Order, OrderFun, OrdersOver, OrderAt
<1>2. \E f : OrdersOver(Below(t), f)
  BY TreeFacts, TreeBelow, OrderExists
<1>3. OrdersOver(Below(t), OrderFun(t))
  BY <1>2 DEF OrderFun
<1> QED BY <1>1, <1>3 DEF OrdersOver

\* Where both are defined, the recursion does not tell from which tree it began.
LEMMA OrderUnique ==
  ASSUME NEW S, Closed(S), NEW f, \A x \in S : f[x] = OrderAt(f, x),
         NEW g, \A x \in S : g[x] = OrderAt(g, x)
  PROVE  \A x \in S : f[x] = g[x]
<1> DEFINE Bad == {x \in S : f[x] # g[x]}
           L == {lc(x) : x \in Bad}
<1> SUFFICES ASSUME Bad # {} PROVE FALSE
  OBVIOUS
<1>1. \A x \in S : /\ lc(x) \in Nat
                   /\ x # NoNode => /\ x.left \in S /\ x.right \in S
                                    /\ lc(x.left) < lc(x) /\ lc(x.right) < lc(x)
  BY NodeFacts
<1>2. L \in SUBSET Nat /\ L # {}
  BY <1>1
<1>3. PICK m \in L : \A k \in L : m <= k
  <2> HIDE DEF L
  <2> QED BY <1>2, LeastElement
<1>4. PICK x \in Bad : lc(x) = m
  BY <1>3
<1>5. \A y \in S : lc(y) < lc(x) => f[y] = g[y]
  <2> TAKE y \in S
  <2> HAVE lc(y) < lc(x)
  <2>1. lc(y) \in Nat /\ lc(x) \in Nat
    BY <1>1
  <2>2. lc(y) \notin L
    BY <1>3, <1>4, <2>1
  <2> QED BY <2>2
<1>6. OrderAt(f, x) = OrderAt(g, x)
  <2>1. x # NoNode => f[x.left] = g[x.left] /\ f[x.right] = g[x.right]
    BY <1>1, <1>5
  <2> QED BY <2>1 DEF OrderAt
<1> QED BY <1>6

\* The lines of a node: those of the left tree, its own, those of the right.
LEMMA OrderNode ==
  ASSUME NEW t, IsTree(t)
  PROVE  Order(t) = IF t = NoNode THEN <<>>
                    ELSE Order(t.left) \o Refs(t.sp) \o Order(t.right)
<1>1. ASSUME NEW x \in Below(t)
      PROVE  OrderFun(t)[x] = Order(x)
  <2> DEFINE S == Below(t) \cap Below(x)
  <2>1. IsTree(x) /\ Closed(Below(t)) /\ Closed(Below(x)) /\ x \in S
    BY TreeBelow
  <2>2. Closed(S)
    BY <2>1 DEF Closed
  <2>3. \A y \in S : OrderFun(t)[y] = OrderAt(OrderFun(t), y)
    BY OrderFunIs
  <2>4. \A y \in S : OrderFun(x)[y] = OrderAt(OrderFun(x), y)
    BY <2>1, OrderFunIs
  <2> HIDE DEF S
  <2>5. OrderFun(t)[x] = OrderFun(x)[x]
    BY <2>1, <2>2, <2>3, <2>4, OrderUnique
  <2> QED BY <2>1, <2>5, OrderFunIs
<1>2. t \in Below(t) /\ (t # NoNode => t.left \in Below(t) /\ t.right \in Below(t))
  BY TreeBelow DEF Closed
<1>3. Order(t) = OrderAt(OrderFun(t), t)
  BY <1>2, OrderFunIs
<1> QED BY <1>1, <1>2, <1>3 DEF OrderAt

\* A line of a store: its source and its number there.
Ref == BOOLEAN \X Nat

\* The references of a span: its lines, from the first on.
LEMMA RefsResult ==
  ASSUME NEW sp \in Span
  PROVE  /\ Refs(sp) \in Seq(Ref)
         /\ Len(Refs(sp)) = sp.count
         /\ \A i \in 1..sp.count : Refs(sp)[i] = <<sp.fromAdd, sp.start + i - 1>>
<1>1. sp.fromAdd \in BOOLEAN /\ sp.start \in Nat /\ sp.count \in Nat
  BY DEF Span
<1>2. \A i \in 1..sp.count : <<sp.fromAdd, sp.start + i - 1>> \in Ref
  BY <1>1 DEF Ref
<1>3. Refs(sp) \in [1..sp.count -> Ref]
  BY <1>2 DEF Refs
<1>4. Refs(sp) \in Seq(Ref) /\ Len(Refs(sp)) = sp.count
  BY <1>1, <1>3
<1> QED BY <1>4 DEF Refs

\* A tree has as many lines as it counts.
LEMMA OrderCounts ==
  ASSUME NEW t, IsTree(t)
  PROVE  Order(t) \in Seq(Ref) /\ Len(Order(t)) = lc(t)
<1> DEFINE Fine(x) == Order(x) \in Seq(Ref) /\ Len(Order(x)) = lc(x)
           Bad == {x \in Below(t) : ~Fine(x)}
           L == {lc(x) : x \in Bad}
<1>1. \A x \in Below(t) : IsTree(x) /\ lc(x) \in Nat
  BY TreeBelow, TreeFacts
<1> SUFFICES ASSUME Bad # {} PROVE FALSE
  BY TreeBelow
<1>2. L \in SUBSET Nat /\ L # {}
  <2> HIDE DEF Fine
  <2> QED BY <1>1
<1>3. PICK m \in L : \A k \in L : m <= k
  <2> HIDE DEF L
  <2> QED BY <1>2, LeastElement
<1>4. PICK x \in Bad : lc(x) = m
  <2> HIDE DEF Fine
  <2> QED BY <1>3
<1>5. \A y \in Below(t) : lc(y) < lc(x) => Fine(y)
  <2> TAKE y \in Below(t)
  <2> HAVE lc(y) < lc(x)
  <2> HIDE DEF Fine
  <2>1. lc(y) \in Nat /\ lc(x) \in Nat
    BY <1>1
  <2>2. lc(y) \notin L
    BY <1>3, <1>4, <2>1
  <2> QED BY <2>2
<1>6. IsTree(x) /\ x \in Below(t)
  BY <1>1
<1>7. CASE x = NoNode
  <2>1. Order(x) = <<>> /\ lc(x) = 0
    BY <1>6, <1>7, OrderNode, TreeFacts
  <2>2. <<>> \in Seq(Ref) /\ Len(<<>>) = 0
    OBVIOUS
  <2> QED BY <1>4, <2>1, <2>2
<1>8. CASE x # NoNode
  <2>1. x.left \in Below(t) /\ x.right \in Below(t)
    BY <1>6, <1>8, TreeBelow DEF Closed
  <2>2. /\ x.sp \in Span /\ x.sp.count \in Nat
        /\ lc(x) = x.sp.count + lc(x.left) + lc(x.right)
        /\ lc(x.left) < lc(x) /\ lc(x.right) < lc(x)
        /\ lc(x.left) \in Nat /\ lc(x.right) \in Nat
    BY <1>6, <1>8, TreeFacts
  <2>3. Fine(x.left) /\ Fine(x.right)
    <3> HIDE DEF Fine
    <3> QED BY <1>5, <2>1, <2>2
  <2>4. Refs(x.sp) \in Seq(Ref) /\ Len(Refs(x.sp)) = x.sp.count
    BY <2>2, RefsResult
  <2> DEFINE a == Order(x.left)
             b == Refs(x.sp)
             c == Order(x.right)
  <2>5. Order(x) = a \o b \o c
    BY <1>6, <1>8, OrderNode
  <2>6. a \o b \o c \in Seq(Ref) /\ Len(a \o b \o c) = Len(a) + Len(b) + Len(c)
    <3>1. a \in Seq(Ref) /\ b \in Seq(Ref) /\ c \in Seq(Ref)
      BY <2>3, <2>4
    <3> HIDE DEF a, b, c
    <3> QED BY <3>1
  <2>7. Len(a) + Len(b) + Len(c) = lc(x)
    <3>1. Len(a) = lc(x.left) /\ Len(c) = lc(x.right) /\ Len(b) = x.sp.count
      BY <2>3, <2>4
    <3> HIDE DEF a, b, c
    <3> QED BY <2>2, <3>1
  <2>8. Fine(x)
    <3> HIDE DEF a, b, c
    <3> QED BY <2>5, <2>6, <2>7
  <2> QED BY <1>4, <2>8
<1> QED BY <1>7, <1>8

-----------------------------------------------------------------------------
(***************************************************************************)
(* Dividing a tree.                                                         *)
(***************************************************************************)

\* A record of a node with another part, or counted anew.
LEMMA NodeParts ==
  ASSUME NEW sp, NEW n, NEW a, NEW b, NEW c, NEW l,
         NEW y, y = [sp |-> sp, prio |-> n, left |-> a, right |-> b, lcount |-> c]
  PROVE  /\ update([y EXCEPT !.left = l]) = Node(sp, n, l, b)
         /\ update([y EXCEPT !.right = l]) = Node(sp, n, a, l)
<1>1. [y EXCEPT !.left = l] = [sp |-> sp, prio |-> n, left |-> l, right |-> b, lcount |-> c]
  OBVIOUS
<1>2. [y EXCEPT !.right = l] = [sp |-> sp, prio |-> n, left |-> a, right |-> l, lcount |-> c]
  OBVIOUS
<1>3. \A u, v : update([sp |-> sp, prio |-> n, left |-> u, right |-> v, lcount |-> c])
                 = Node(sp, n, u, v)
  BY DEF update, Node
<1> QED BY <1>1, <1>2, <1>3

\* A tree counts its lines anew when one of its parts is another.
LEMMA UpdateParts ==
  ASSUME NEW x, IsTree(x), x # NoNode, NEW l
  PROVE  /\ update([x EXCEPT !.left = l]) = Node(x.sp, x.prio, l, x.right)
         /\ update([x EXCEPT !.right = l]) = Node(x.sp, x.prio, x.left, l)
<1>1. x = Node(x.sp, x.prio, x.left, x.right)
  BY TreeFacts
<1> QED BY <1>1, NodeParts DEF Node

\* The two nodes that a node becomes when its span is divided.
LEMMA DivideParts ==
  ASSUME NEW x, IsTree(x), x # NoNode, NEW d \in 1..(x.sp.count - 1), NEW p, NEW q
  PROVE  LET s1 == splitAt(x.sp, d)[1]
             s2 == splitAt(x.sp, d)[2]
         IN  /\ s1 \in Span /\ s2 \in Span
             /\ divide(x, d, p, q) = <<Node(s1, p, x.left, NoNode), Node(s2, q, NoNode, x.right)>>
             /\ s1.count = d /\ s2.count = x.sp.count - d
             /\ Refs(x.sp) = Refs(s1) \o Refs(s2)
<1> DEFINE sp == x.sp
           s1 == [fromAdd |-> sp.fromAdd, start |-> sp.start, count |-> d]
           s2 == [fromAdd |-> sp.fromAdd, start |-> sp.start + d, count |-> sp.count - d]
<1>1. /\ sp \in Span /\ sp.count \in Nat \ {0} /\ sp.start \in Nat /\ sp.fromAdd \in BOOLEAN
      /\ sp = [fromAdd |-> sp.fromAdd, start |-> sp.start, count |-> sp.count]
  BY TreeFacts DEF Span
<1>2. splitAt(sp, d) = <<s1, s2>>
  <2>1. [sp EXCEPT !.count = d] = s1
    BY <1>1
  <2> QED BY <2>1 DEF splitAt
<1>3. s1 \in Span /\ s2 \in Span
  BY <1>1 DEF Span
<1>4. s1.count = d /\ s2.count = sp.count - d
  OBVIOUS
<1>5. Refs(sp) = Refs(s1) \o Refs(s2)
  <2> DEFINE u == Refs(s1)
             w == Refs(s2)
             r == Refs(sp)
  <2>1. /\ u \in Seq(Ref) /\ Len(u) = d
        /\ \A i \in 1..d : u[i] = <<sp.fromAdd, sp.start + i - 1>>
    <3> HIDE DEF sp
    <3>1. s1.count = d /\ s1.fromAdd = sp.fromAdd /\ s1.start = sp.start
      OBVIOUS
    <3> HIDE DEF s1
    <3> QED BY <1>3, <3>1, RefsResult
  <2>2. /\ w \in Seq(Ref) /\ Len(w) = sp.count - d
        /\ \A i \in 1..(sp.count - d) : w[i] = <<sp.fromAdd, sp.start + d + i - 1>>
    <3> HIDE DEF sp
    <3>1. s2.count = sp.count - d /\ s2.fromAdd = sp.fromAdd /\ s2.start = sp.start + d
      OBVIOUS
    <3> HIDE DEF s2
    <3> QED BY <1>3, <3>1, RefsResult
  <2>3. /\ r \in Seq(Ref) /\ Len(r) = sp.count
        /\ \A i \in 1..sp.count : r[i] = <<sp.fromAdd, sp.start + i - 1>>
    BY <1>1, RefsResult
  <2> DEFINE n == sp.count
  <2>4. d \in Nat /\ n \in Nat /\ d <= n /\ sp.start \in Nat
    BY <1>1
  <2> HIDE DEF u, w, r, s1, s2, n, sp
  <2>5. u \o w \in Seq(Ref) /\ Len(u \o w) = Len(r)
    <3>1. u \in Seq(Ref) /\ Len(u) = d /\ w \in Seq(Ref) /\ Len(w) = n - d /\ Len(r) = n
      BY <2>1, <2>2, <2>3 DEF n
    <3> QED BY <2>4, <3>1, SMTT(20)
  <2>6. \A i \in 1..Len(r) : r[i] = (u \o w)[i]
    <3> TAKE i \in 1..Len(r)
    <3>0. /\ u \in Seq(Ref) /\ Len(u) = d /\ w \in Seq(Ref) /\ Len(w) = n - d /\ Len(r) = n
          /\ i \in 1..n
      BY <2>1, <2>2, <2>3 DEF n
    <3>1. CASE i <= d
      <4>1. (u \o w)[i] = u[i] /\ i \in 1..d
        BY <2>4, <3>0, <3>1
      <4> QED BY <2>1, <2>3, <3>0, <4>1 DEF n
    <3>2. CASE i > d
      <4>1. (u \o w)[i] = w[i - d] /\ i - d \in 1..(n - d)
        BY <2>4, <3>0, <3>2
      <4>2. w[i - d] = <<sp.fromAdd, sp.start + d + (i - d) - 1>>
        BY <2>2, <4>1 DEF n
      <4>3. sp.start + d + (i - d) - 1 = sp.start + i - 1
        BY <2>4, <3>0
      <4> QED BY <2>3, <3>0, <4>1, <4>2, <4>3 DEF n
    <3> QED BY <2>4, <3>0, <3>1, <3>2
  <2>7. r = u \o w
    BY <2>3, <2>5, <2>6, SeqEqual
  <2> QED BY <2>7 DEF r, u, w
<1>6. divide(x, d, p, q) = <<Node(s1, p, x.left, NoNode), Node(s2, q, NoNode, x.right)>>
  <2> HIDE DEF s1, s2
  <2>1. update([newNode(s1, p) EXCEPT !.left = x.left]) = Node(s1, p, x.left, NoNode)
    BY NodeParts DEF newNode
  <2>2. update([newNode(s2, q) EXCEPT !.right = x.right]) = Node(s2, q, NoNode, x.right)
    BY NodeParts DEF newNode
  <2>3. <<s1, s2>>[1] = s1 /\ <<s1, s2>>[2] = s2
    OBVIOUS
  <2> QED BY <1>2, <2>1, <2>2, <2>3 DEF divide
<1>7. splitAt(sp, d)[1] = s1 /\ splitAt(sp, d)[2] = s2
  <2> HIDE DEF s1, s2
  <2> QED BY <1>2
<1> HIDE DEF s1, s2
<1> QED BY <1>3, <1>4, <1>5, <1>6, <1>7

SplitAt(f, d, p, q) ==
  LET x == d[1]
      j == d[2]
      ls == lc(x.left)
      l == f[<<x.left, j>>]
      r == f[<<x.right, j - ls - x.sp.count>>]
  IN  IF x = NoNode THEN <<NoNode, NoNode>>
      ELSE IF j <= ls THEN << l[1], update([x EXCEPT !.left = l[2]]) >>
      ELSE IF j >= ls + x.sp.count THEN << update([x EXCEPT !.right = r[1]]), r[2] >>
      ELSE divide(x, j - ls, p, q)

SplitsOver(S, f, p, q) == f = [d \in S \X Int |-> SplitAt(f, d, p, q)]

SplitFun(t, p, q) == CHOOSE f : SplitsOver(Below(t), f, p, q)

\* Of the function that is recursed on only the parts of the tree are asked.
LEMMA SplitLocal ==
  ASSUME NEW x, IsTree(x), NEW j \in Int, NEW p, NEW q, NEW f, NEW g,
         x # NoNode => \A i \in Int : /\ f[<<x.left, i>>] = g[<<x.left, i>>]
                                      /\ f[<<x.right, i>>] = g[<<x.right, i>>]
  PROVE  SplitAt(f, <<x, j>>, p, q) = SplitAt(g, <<x, j>>, p, q)
<1>1. <<x, j>>[1] = x /\ <<x, j>>[2] = j
  OBVIOUS
<1>2. CASE x = NoNode
  BY <1>1, <1>2 DEF SplitAt
<1>3. CASE x # NoNode
  <2>1. j - lc(x.left) - x.sp.count \in Int
    BY <1>3, TreeFacts
  <2>2. f[<<x.left, j>>] = g[<<x.left, j>>]
    BY <1>3
  <2>3. f[<<x.right, j - lc(x.left) - x.sp.count>>] = g[<<x.right, j - lc(x.left) - x.sp.count>>]
    BY <1>3, <2>1
  <2> QED BY <1>1, <2>2, <2>3 DEF SplitAt
<1> QED BY <1>2, <1>3

\* The function that divides exists, on any trees closed under their parts.
LEMMA SplitExists ==
  ASSUME NEW S, Closed(S), NEW N \in Nat, \A x \in S : lc(x) <= N, NEW p, NEW q
  PROVE  \E f : SplitsOver(S, f, p, q)
<1> DEFINE Low(n) == {x \in S : lc(x) <= n}
           T == {n \in 0..N : \E f : SplitsOver(Low(n), f, p, q)}
<1>1. \A x \in S : /\ lc(x) \in Nat
                   /\ x # NoNode => /\ x.left \in S /\ x.right \in S
                                    /\ lc(x.left) < lc(x) /\ lc(x.right) < lc(x)
  BY NodeFacts
<1>2. \A x \in S : IsTree(x)
  BY DEF IsTree
<1>3. \E f : SplitsOver(Low(0), f, p, q)
  <2> DEFINE f == [d \in Low(0) \X Int |-> <<NoNode, NoNode>>]
  <2>1. \A x \in Low(0) : x = NoNode
    BY <1>1
  <2>2. \A d \in Low(0) \X Int : SplitAt(f, d, p, q) = <<NoNode, NoNode>>
    <3> TAKE d \in Low(0) \X Int
    <3>1. d[1] = NoNode
      BY <2>1
    <3> QED BY <3>1 DEF SplitAt
  <2>3. SplitsOver(Low(0), f, p, q)
    BY <2>2 DEF SplitsOver
  <2> HIDE DEF f
  <2> QED BY <2>3
<1>4. ASSUME NEW n \in 1..N, \E f : SplitsOver(Low(n - 1), f, p, q)
      PROVE  \E f : SplitsOver(Low(n), f, p, q)
  <2>1. PICK f : SplitsOver(Low(n - 1), f, p, q)
    BY <1>4
  <2> DEFINE g == [d \in Low(n) \X Int |-> SplitAt(f, d, p, q)]
  <2>2. \A x \in Low(n - 1) : x \in Low(n)
    BY <1>1
  <2>3. \A d \in Low(n - 1) \X Int : f[d] = SplitAt(f, d, p, q)
    BY <2>1 DEF SplitsOver
  <2>4. \A d \in Low(n - 1) \X Int : g[d] = f[d]
    <3> HIDE DEF Low
    <3> QED BY <2>2, <2>3
  <2>5. \A x \in Low(n) : x # NoNode => x.left \in Low(n - 1) /\ x.right \in Low(n - 1)
    BY <1>1
  <2>6. \A d \in Low(n) \X Int : SplitAt(g, d, p, q) = SplitAt(f, d, p, q)
    <3> TAKE d \in Low(n) \X Int
    <3>1. PICK x \in Low(n), j \in Int : d = <<x, j>>
      OBVIOUS
    <3>2. IsTree(x)
      BY <1>2
    <3>3. x # NoNode => \A i \in Int : /\ g[<<x.left, i>>] = f[<<x.left, i>>]
                                       /\ g[<<x.right, i>>] = f[<<x.right, i>>]
      <4> HIDE DEF g, Low
      <4> QED BY <2>4, <2>5
    <3> HIDE DEF g, Low
    <3> QED BY <3>1, <3>2, <3>3, SplitLocal
  <2>7. SplitsOver(Low(n), g, p, q)
    <3>1. g = [d \in Low(n) \X Int |-> SplitAt(g, d, p, q)]
      BY <2>6
    <3> QED BY <3>1 DEF SplitsOver
  <2> HIDE DEF g
  <2> QED BY <2>7
<1>5. N \in T
  <2>1. InductiveUpTo(N, T)
    <3> HIDE DEF Low
    <3> QED BY <1>3, <1>4 DEF InductiveUpTo
  <2> HIDE DEF T
  <2> QED BY <2>1, IntervalInduction
<1>6. Low(N) = S
  OBVIOUS
<1> QED BY <1>5, <1>6

\* It is what split applies, and what its definition says.
LEMMA SplitFunIs ==
  ASSUME NEW t, IsTree(t), NEW p, NEW q
  PROVE  /\ \A k : split(t, k, p, q) = SplitFun(t, p, q)[<<t, k>>]
         /\ \A x \in Below(t), j \in Int :
              SplitFun(t, p, q)[<<x, j>>] = SplitAt(SplitFun(t, p, q), <<x, j>>, p, q)
<1>1. ASSUME NEW k PROVE split(t, k, p, q) = SplitFun(t, p, q)[<<t, k>>]
  BY Zenon DEF split, SplitFun, SplitsOver, SplitAt
<1>2. \E f : SplitsOver(Below(t), f, p, q)
  BY TreeFacts, TreeBelow, SplitExists
<1>3. SplitsOver(Below(t), SplitFun(t, p, q), p, q)
  BY <1>2 DEF SplitFun
<1>4. ASSUME NEW x \in Below(t), NEW j \in Int
      PROVE  SplitFun(t, p, q)[<<x, j>>] = SplitAt(SplitFun(t, p, q), <<x, j>>, p, q)
  <2>1. <<x, j>> \in Below(t) \X Int
    OBVIOUS
  <2> QED BY <1>3, <2>1 DEF SplitsOver
<1> QED BY <1>1, <1>4

\* The lines of a node put together.
LEMMA NodeOrder ==
  ASSUME NEW sp \in Span, NEW n \in Number, NEW l, NEW r, IsTree(l), IsTree(r)
  PROVE  /\ IsTree(Node(sp, n, l, r)) /\ Node(sp, n, l, r) # NoNode
         /\ lc(Node(sp, n, l, r)) = sp.count + lc(l) + lc(r)
         /\ Order(Node(sp, n, l, r)) = Order(l) \o Refs(sp) \o Order(r)
         /\ Order(l) \in Seq(Ref) /\ Refs(sp) \in Seq(Ref) /\ Order(r) \in Seq(Ref)
         /\ lc(l) \in Nat /\ lc(r) \in Nat /\ sp.count \in Nat
<1> DEFINE x == Node(sp, n, l, r)
<1>1. x # NoNode /\ x.sp = sp /\ x.left = l /\ x.right = r /\ lc(x) = sp.count + lc(l) + lc(r)
  BY NodeIs
<1>2. IsTree(x)
  BY NodeTree
<1> HIDE DEF x
<1>3. Order(x) = Order(l) \o Refs(sp) \o Order(r)
  BY <1>1, <1>2, OrderNode
<1>4. Order(l) \in Seq(Ref) /\ Refs(sp) \in Seq(Ref) /\ Order(r) \in Seq(Ref)
  BY OrderCounts, RefsResult
<1>5. lc(l) \in Nat /\ lc(r) \in Nat /\ sp.count \in Nat
  BY TreeFacts DEF Span
<1> QED BY <1>1, <1>2, <1>3, <1>4, <1>5 DEF x

\* No tree, no lines.
LEMMA EmptyOrder ==
  Order(NoNode) = <<>>
BY EmptyTree, OrderNode

\* A tree with another left or right part.
LEMMA AnewOrder ==
  ASSUME NEW x, IsTree(x), x # NoNode, NEW l, IsTree(l)
  PROVE  /\ LET y == update([x EXCEPT !.left = l])
            IN  /\ IsTree(y) /\ y # NoNode
                /\ lc(y) = x.sp.count + lc(l) + lc(x.right)
                /\ Order(y) = Order(l) \o Refs(x.sp) \o Order(x.right)
         /\ LET y == update([x EXCEPT !.right = l])
            IN  /\ IsTree(y) /\ y # NoNode
                /\ lc(y) = x.sp.count + lc(x.left) + lc(l)
                /\ Order(y) = Order(x.left) \o Refs(x.sp) \o Order(l)
<1>1. x.sp \in Span /\ x.prio \in Number /\ IsTree(x.left) /\ IsTree(x.right)
  BY TreeFacts
<1>2. /\ update([x EXCEPT !.left = l]) = Node(x.sp, x.prio, l, x.right)
      /\ update([x EXCEPT !.right = l]) = Node(x.sp, x.prio, x.left, l)
  BY UpdateParts
<1>3. LET y == Node(x.sp, x.prio, l, x.right)
      IN  /\ IsTree(y) /\ y # NoNode
          /\ lc(y) = x.sp.count + lc(l) + lc(x.right)
          /\ Order(y) = Order(l) \o Refs(x.sp) \o Order(x.right)
  BY <1>1, NodeOrder
<1>4. LET y == Node(x.sp, x.prio, x.left, l)
      IN  /\ IsTree(y) /\ y # NoNode
          /\ lc(y) = x.sp.count + lc(x.left) + lc(l)
          /\ Order(y) = Order(x.left) \o Refs(x.sp) \o Order(l)
  BY <1>1, NodeOrder
<1> QED BY <1>2, <1>3, <1>4

\* The order of a node over two trees, where the names are short.
LEMMA PartsOf ==
  ASSUME NEW x, IsTree(x), x # NoNode
  PROVE  /\ Order(x) = Order(x.left) \o Refs(x.sp) \o Order(x.right)
         /\ Order(x.left) \in Seq(Ref) /\ Refs(x.sp) \in Seq(Ref) /\ Order(x.right) \in Seq(Ref)
         /\ IsTree(x.left) /\ IsTree(x.right)
         /\ lc(x) = x.sp.count + lc(x.left) + lc(x.right)
         /\ lc(x.left) \in Nat /\ lc(x.right) \in Nat /\ x.sp.count \in Nat \ {0}
<1>1. x.sp \in Span /\ IsTree(x.left) /\ IsTree(x.right)
  BY TreeFacts
<1> QED BY <1>1, TreeFacts, OrderNode, OrderCounts, RefsResult

\* s is a division of tree x behind its first j lines.
Divides(s, x, j) ==
  /\ IsTree(s[1]) /\ IsTree(s[2])
  /\ lc(s[1]) = j /\ lc(s[2]) = lc(x) - j
  /\ Order(s[1]) \o Order(s[2]) = Order(x)

\* A division of one part of a node makes one of the node.
LEMMA SplitPart ==
  ASSUME NEW x, IsTree(x), x # NoNode, NEW j \in 0..lc(x), NEW p \in Number, NEW q \in Number,
         NEW f,
         j <= lc(x.left) => Divides(f[<<x.left, j>>], x.left, j),
         j >= lc(x.left) + x.sp.count =>
           Divides(f[<<x.right, j - lc(x.left) - x.sp.count>>], x.right, j - lc(x.left) - x.sp.count)
  PROVE  Divides(SplitAt(f, <<x, j>>, p, q), x, j)
<1> DEFINE ls == lc(x.left)
           n == x.sp.count
           rs == lc(x.right)
           l == f[<<x.left, j>>]
           r == f[<<x.right, j - ls - n>>]
           s == SplitAt(f, <<x, j>>, p, q)
           a == Order(x.left)
           b == Refs(x.sp)
           c == Order(x.right)
<1>1. /\ lc(x) = n + ls + rs /\ ls \in Nat /\ rs \in Nat /\ n \in Nat \ {0}
      /\ IsTree(x.left) /\ IsTree(x.right)
  BY PartsOf
<1>2. Order(x) = a \o b \o c /\ a \in Seq(Ref) /\ b \in Seq(Ref) /\ c \in Seq(Ref)
  BY PartsOf
<1>3. <<x, j>>[1] = x /\ <<x, j>>[2] = j
  OBVIOUS
<1>4. s = IF j <= ls THEN << l[1], update([x EXCEPT !.left = l[2]]) >>
          ELSE IF j >= ls + n THEN << update([x EXCEPT !.right = r[1]]), r[2] >>
          ELSE divide(x, j - ls, p, q)
  BY <1>3 DEF SplitAt
<1>5. CASE j <= ls
  <2> DEFINE y == update([x EXCEPT !.left = l[2]])
             u == l[1]
             v == l[2]
  <2>1. s = <<u, y>>
    BY <1>4, <1>5
  <2>2. IsTree(u) /\ IsTree(v) /\ lc(u) = j /\ lc(v) = ls - j /\ Order(u) \o Order(v) = a
    BY <1>5 DEF Divides
  <2>3. IsTree(y) /\ lc(y) = n + lc(v) + rs /\ Order(y) = Order(v) \o b \o c
    BY <2>2, AnewOrder
  <2>4. s[1] = u /\ s[2] = y
    BY <2>1
  <2>5. Order(u) \in Seq(Ref) /\ Order(v) \in Seq(Ref)
    BY <2>2, OrderCounts
  <2> HIDE DEF y, u, v, a, b, c, s, ls, n, rs
  <2>6. Order(u) \o (Order(v) \o b \o c) = (Order(u) \o Order(v)) \o b \o c
    BY <1>2, <2>5, SMTT(20)
  <2>7. Order(u) \o Order(y) = Order(x)
    BY <1>2, <2>2, <2>3, <2>6
  <2>8. lc(y) = lc(x) - j
    BY <1>1, <2>2, <2>3
  <2> QED BY <2>2, <2>3, <2>4, <2>7, <2>8 DEF Divides, s
<1>6. CASE ~ (j <= ls) /\ j >= ls + n
  <2> DEFINE y == update([x EXCEPT !.right = r[1]])
             u == r[1]
             v == r[2]
  <2>1. s = <<y, v>>
    BY <1>4, <1>6
  <2>2. /\ IsTree(u) /\ IsTree(v) /\ lc(u) = j - ls - n /\ lc(v) = rs - (j - ls - n)
        /\ Order(u) \o Order(v) = c
    BY <1>6 DEF Divides
  <2>3. IsTree(y) /\ lc(y) = n + ls + lc(u) /\ Order(y) = a \o b \o Order(u)
    BY <2>2, AnewOrder
  <2>4. s[1] = y /\ s[2] = v
    BY <2>1
  <2>5. Order(u) \in Seq(Ref) /\ Order(v) \in Seq(Ref)
    BY <2>2, OrderCounts
  <2> HIDE DEF y, u, v, a, b, c, s, ls, n, rs
  <2>6. (a \o b \o Order(u)) \o Order(v) = a \o b \o (Order(u) \o Order(v))
    <3>1. a \o b \in Seq(Ref)
      BY <1>2
    <3> QED BY <2>5, <3>1, ConcatAssociative, SMTT(20)
  <2>7. Order(y) \o Order(v) = Order(x)
    BY <1>2, <2>2, <2>3, <2>6
  <2>8. lc(y) = j /\ lc(v) = lc(x) - j
    BY <1>1, <2>2, <2>3
  <2> QED BY <2>2, <2>3, <2>4, <2>7, <2>8 DEF Divides, s
<1>7. CASE ~ (j <= ls) /\ ~ (j >= ls + n)
  <2>1. j - ls \in 1..(n - 1)
    BY <1>1, <1>7
  <2>2. s = divide(x, j - ls, p, q)
    BY <1>4, <1>7
  <2> DEFINE s1 == splitAt(x.sp, j - ls)[1]
             s2 == splitAt(x.sp, j - ls)[2]
  <2>3. /\ s1 \in Span /\ s2 \in Span
        /\ divide(x, j - ls, p, q) = <<Node(s1, p, x.left, NoNode), Node(s2, q, NoNode, x.right)>>
        /\ s1.count = j - ls /\ s2.count = n - (j - ls)
        /\ b = Refs(s1) \o Refs(s2)
    <3>1. /\ s1 \in Span /\ s2 \in Span
          /\ divide(x, j - ls, p, q) = <<Node(s1, p, x.left, NoNode), Node(s2, q, NoNode, x.right)>>
      BY <2>1, DivideParts
    <3>2. s1.count = j - ls /\ s2.count = n - (j - ls)
      BY <2>1, DivideParts
    <3>3. b = Refs(s1) \o Refs(s2)
      BY <2>1, DivideParts
    <3> HIDE DEF s1, s2
    <3> QED BY <3>1, <3>2, <3>3
  <2> HIDE DEF s1, s2
  <2> DEFINE y == Node(s1, p, x.left, NoNode)
             z == Node(s2, q, NoNode, x.right)
             u == Refs(s1)
             v == Refs(s2)
  <2>4. /\ IsTree(y) /\ lc(y) = s1.count + lc(x.left) + lc(NoNode)
        /\ Order(y) = Order(x.left) \o Refs(s1) \o Order(NoNode)
    <3>1. IsTree(x.left) /\ IsTree(NoNode)
      BY <1>1, EmptyTree
    <3>2. IsTree(y) /\ Order(y) = Order(x.left) \o Refs(s1) \o Order(NoNode)
      BY <2>3, <3>1, NodeOrder
    <3>3. lc(y) = s1.count + lc(x.left) + lc(NoNode)
      BY NodeIs
    <3> QED BY <3>2, <3>3
  <2>5. /\ IsTree(z) /\ lc(z) = s2.count + lc(NoNode) + lc(x.right)
        /\ Order(z) = Order(NoNode) \o Refs(s2) \o Order(x.right)
    <3>1. IsTree(x.right) /\ IsTree(NoNode)
      BY <1>1, EmptyTree
    <3>2. IsTree(z) /\ Order(z) = Order(NoNode) \o Refs(s2) \o Order(x.right)
      BY <2>3, <3>1, NodeOrder
    <3>3. lc(z) = s2.count + lc(NoNode) + lc(x.right)
      BY NodeIs
    <3> QED BY <3>2, <3>3
  <2>6. s[1] = y /\ s[2] = z
    BY <2>2, <2>3
  <2>7. u \in Seq(Ref) /\ v \in Seq(Ref) /\ a \in Seq(Ref) /\ c \in Seq(Ref)
    BY <1>2, <2>3, RefsResult
  <2>8. /\ lc(y) = j - ls + ls /\ lc(z) = n - (j - ls) + rs
    BY <1>1, <2>3, <2>4, <2>5, EmptyTree
  <2>9. Order(y) = a \o u \o <<>> /\ Order(z) = <<>> \o v \o c
    BY <2>4, <2>5, EmptyOrder
  <2> HIDE DEF y, z, a, b, c, s, u, v, ls, n, rs
  <2>10. (a \o u \o <<>>) \o (<<>> \o v \o c) = a \o (u \o v) \o c
    <3>1. a \o u \in Seq(Ref) /\ v \o c \in Seq(Ref)
      BY <1>2, <2>7
    <3>2. a \o u \o <<>> = a \o u /\ <<>> \o v \o c = v \o c
      BY <1>2, <2>7, <3>1, ConcatEmptySeq
    <3>3. (a \o u) \o (v \o c) = ((a \o u) \o v) \o c
      <4> DEFINE e == a \o u
      <4>1. e \in Seq(Ref)
        BY <3>1
      <4> HIDE DEF e
      <4>2. v \in Seq(Ref) /\ c \in Seq(Ref)
        BY <2>7
      <4>3. e \o (v \o c) = (e \o v) \o c
        BY <4>1, <4>2, ConcatAssociative, SMTT(20)
      <4> QED BY <4>3 DEF e
    <3>4. (a \o u) \o v = a \o (u \o v)
      BY <2>7, ConcatAssociative, SMTT(20)
    <3>5. (a \o u) \o (v \o c) = (a \o (u \o v)) \o c
      BY <3>3, <3>4
    <3> QED BY <3>2, <3>5
  <2>11. Order(y) \o Order(z) = Order(x)
    BY <1>2, <2>3, <2>9, <2>10 DEF u, v
  <2>12. lc(y) = j /\ lc(z) = lc(x) - j
    BY <1>1, <2>8
  <2> QED BY <2>4, <2>5, <2>6, <2>11, <2>12 DEF Divides, s
<1> QED BY <1>5, <1>6, <1>7

\* A tree is divided behind any of its lines, and nothing is lost.
LEMMA SplitResult ==
  ASSUME NEW t, IsTree(t), NEW k \in 0..lc(t), NEW p \in Number, NEW q \in Number
  PROVE  Divides(split(t, k, p, q), t, k)
<1> DEFINE f == SplitFun(t, p, q)
           Fine(x) == \A j \in 0..lc(x) : Divides(f[<<x, j>>], x, j)
           Bad == {x \in Below(t) : ~Fine(x)}
           L == {lc(x) : x \in Bad}
<1>1. \A x \in Below(t) : IsTree(x) /\ lc(x) \in Nat
  BY TreeBelow, TreeFacts
<1>2. Bad = {}
  <2> SUFFICES ASSUME Bad # {} PROVE FALSE
    OBVIOUS
  <2>2. L \in SUBSET Nat /\ L # {}
    <3> HIDE DEF Fine
    <3> QED BY <1>1
  <2>3. PICK m \in L : \A i \in L : m <= i
    <3> HIDE DEF L
    <3> QED BY <2>2, LeastElement
  <2>4. PICK x \in Bad : lc(x) = m
    <3> HIDE DEF Fine
    <3> QED BY <2>3
  <2>5. \A y \in Below(t) : lc(y) < lc(x) => Fine(y)
    <3> TAKE y \in Below(t)
    <3> HAVE lc(y) < lc(x)
    <3> HIDE DEF Fine
    <3>1. lc(y) \in Nat /\ lc(x) \in Nat
      BY <1>1
    <3>2. lc(y) \notin L
      BY <2>3, <2>4, <3>1
    <3> QED BY <3>2
  <2>6. x \in Below(t) /\ IsTree(x)
    BY <1>1
  <2>7. ASSUME NEW j \in 0..lc(x) PROVE Divides(f[<<x, j>>], x, j)
    <3>1. f[<<x, j>>] = SplitAt(f, <<x, j>>, p, q)
      <4>1. j \in Int
        OBVIOUS
      <4> QED BY <2>6, <4>1, SplitFunIs
    <3> HIDE DEF f
    <3>2. CASE x = NoNode
      <4>1. lc(x) = 0 /\ j = 0
        BY <3>2, EmptyTree
      <4>2. SplitAt(f, <<x, j>>, p, q) = <<NoNode, NoNode>>
        <5>1. <<x, j>>[1] = x
          OBVIOUS
        <5> QED BY <3>2, <5>1 DEF SplitAt
      <4>3. Order(x) = <<>> /\ <<>> \o <<>> = <<>>
        BY <3>2, EmptyOrder
      <4> QED BY <3>1, <3>2, <4>1, <4>2, <4>3, EmptyTree DEF Divides
    <3>3. CASE x # NoNode
      <4>1. /\ x.left \in Below(t) /\ x.right \in Below(t)
            /\ lc(x) = x.sp.count + lc(x.left) + lc(x.right)
            /\ lc(x.left) < lc(x) /\ lc(x.right) < lc(x)
            /\ lc(x.left) \in Nat /\ lc(x.right) \in Nat /\ x.sp.count \in Nat
        BY <2>6, <3>3, TreeBelow, TreeFacts DEF Closed
      <4>2. Fine(x.left) /\ Fine(x.right)
        <5> HIDE DEF Fine
        <5> QED BY <2>5, <4>1
      <4>3. j <= lc(x.left) => Divides(f[<<x.left, j>>], x.left, j)
        BY <4>1, <4>2
      <4>4. j >= lc(x.left) + x.sp.count =>
              Divides(f[<<x.right, j - lc(x.left) - x.sp.count>>], x.right,
                      j - lc(x.left) - x.sp.count)
        <5> HAVE j >= lc(x.left) + x.sp.count
        <5>1. j - lc(x.left) - x.sp.count \in 0..lc(x.right)
          BY <4>1
        <5> QED BY <4>2, <5>1
      <4> QED BY <2>6, <3>1, <3>3, <4>3, <4>4, SplitPart
    <3> QED BY <3>2, <3>3
  <2> QED BY <2>4, <2>7
<1>3. Divides(f[<<t, k>>], t, k)
  <2>1. t \in Below(t)
    BY TreeBelow
  <2>2. Fine(t)
    <3> HIDE DEF Fine
    <3> QED BY <1>2, <2>1
  <2> QED BY <2>2
<1> QED BY <1>3, SplitFunIs

-----------------------------------------------------------------------------
(***************************************************************************)
(* Finding a line in a tree.                                               *)
(***************************************************************************)

LocateAt(f, d) ==
  LET x == d[1]
      j == d[2]
      ls == lc(x.left)
  IN  IF x = NoNode THEN <<>>
      ELSE IF j < ls THEN f[<<x.left, j>>]
      ELSE IF j < ls + x.sp.count THEN [sp |-> x.sp, off |-> j - ls]
      ELSE f[<<x.right, j - ls - x.sp.count>>]

LocatesOver(S, f) == f = [d \in S \X Int |-> LocateAt(f, d)]

LocateFun(t) == CHOOSE f : LocatesOver(Below(t), f)

\* Of the function that is recursed on only the parts of the tree are asked.
LEMMA LocateLocal ==
  ASSUME NEW x, IsTree(x), NEW j \in Int, NEW f, NEW g,
         x # NoNode => \A i \in Int : /\ f[<<x.left, i>>] = g[<<x.left, i>>]
                                      /\ f[<<x.right, i>>] = g[<<x.right, i>>]
  PROVE  LocateAt(f, <<x, j>>) = LocateAt(g, <<x, j>>)
<1>1. <<x, j>>[1] = x /\ <<x, j>>[2] = j
  OBVIOUS
<1>2. CASE x = NoNode
  BY <1>1, <1>2 DEF LocateAt
<1>3. CASE x # NoNode
  <2>1. j - lc(x.left) - x.sp.count \in Int
    BY <1>3, TreeFacts
  <2>2. f[<<x.left, j>>] = g[<<x.left, j>>]
    BY <1>3
  <2>3. f[<<x.right, j - lc(x.left) - x.sp.count>>] = g[<<x.right, j - lc(x.left) - x.sp.count>>]
    BY <1>3, <2>1
  <2> QED BY <1>1, <2>2, <2>3 DEF LocateAt
<1> QED BY <1>2, <1>3

\* The function that finds exists.
LEMMA LocateExists ==
  ASSUME NEW S, Closed(S), NEW N \in Nat, \A x \in S : lc(x) <= N
  PROVE  \E f : LocatesOver(S, f)
<1> DEFINE Low(n) == {x \in S : lc(x) <= n}
           T == {n \in 0..N : \E f : LocatesOver(Low(n), f)}
<1>1. \A x \in S : /\ lc(x) \in Nat
                   /\ x # NoNode => /\ x.left \in S /\ x.right \in S
                                    /\ lc(x.left) < lc(x) /\ lc(x.right) < lc(x)
  BY NodeFacts
<1>2. \A x \in S : IsTree(x)
  BY DEF IsTree
<1>3. \E f : LocatesOver(Low(0), f)
  <2> DEFINE f == [d \in Low(0) \X Int |-> <<>>]
  <2>1. \A x \in Low(0) : x = NoNode
    BY <1>1
  <2>2. \A d \in Low(0) \X Int : LocateAt(f, d) = <<>>
    <3> TAKE d \in Low(0) \X Int
    <3>1. d[1] = NoNode
      BY <2>1
    <3> QED BY <3>1 DEF LocateAt
  <2>3. LocatesOver(Low(0), f)
    BY <2>2 DEF LocatesOver
  <2> HIDE DEF f
  <2> QED BY <2>3
<1>4. ASSUME NEW n \in 1..N, \E f : LocatesOver(Low(n - 1), f)
      PROVE  \E f : LocatesOver(Low(n), f)
  <2>1. PICK f : LocatesOver(Low(n - 1), f)
    BY <1>4
  <2> DEFINE g == [d \in Low(n) \X Int |-> LocateAt(f, d)]
  <2>2. \A x \in Low(n - 1) : x \in Low(n)
    BY <1>1
  <2>3. \A d \in Low(n - 1) \X Int : f[d] = LocateAt(f, d)
    BY <2>1 DEF LocatesOver
  <2>4. \A d \in Low(n - 1) \X Int : g[d] = f[d]
    <3> HIDE DEF Low
    <3> QED BY <2>2, <2>3
  <2>5. \A x \in Low(n) : x # NoNode => x.left \in Low(n - 1) /\ x.right \in Low(n - 1)
    BY <1>1
  <2>6. \A d \in Low(n) \X Int : LocateAt(g, d) = LocateAt(f, d)
    <3> TAKE d \in Low(n) \X Int
    <3>1. PICK x \in Low(n), j \in Int : d = <<x, j>>
      OBVIOUS
    <3>2. IsTree(x)
      BY <1>2
    <3>3. x # NoNode => \A i \in Int : /\ g[<<x.left, i>>] = f[<<x.left, i>>]
                                       /\ g[<<x.right, i>>] = f[<<x.right, i>>]
      <4> HIDE DEF g, Low
      <4> QED BY <2>4, <2>5
    <3> HIDE DEF g, Low
    <3> QED BY <3>1, <3>2, <3>3, LocateLocal
  <2>7. LocatesOver(Low(n), g)
    <3>1. g = [d \in Low(n) \X Int |-> LocateAt(g, d)]
      BY <2>6
    <3> QED BY <3>1 DEF LocatesOver
  <2> HIDE DEF g
  <2> QED BY <2>7
<1>5. N \in T
  <2>1. InductiveUpTo(N, T)
    <3> HIDE DEF Low
    <3> QED BY <1>3, <1>4 DEF InductiveUpTo
  <2> HIDE DEF T
  <2> QED BY <2>1, IntervalInduction
<1>6. Low(N) = S
  OBVIOUS
<1> QED BY <1>5, <1>6

\* It is what locate applies, and what its definition says.
LEMMA LocateFunIs ==
  ASSUME NEW t, IsTree(t)
  PROVE  /\ \A k : locate(t, k) = LocateFun(t)[<<t, k>>]
         /\ \A x \in Below(t), j \in Int :
              LocateFun(t)[<<x, j>>] = LocateAt(LocateFun(t), <<x, j>>)
<1>1. ASSUME NEW k PROVE locate(t, k) = LocateFun(t)[<<t, k>>]
  BY Zenon DEF locate, LocateFun, LocatesOver, LocateAt
<1>2. \E f : LocatesOver(Below(t), f)
  BY TreeFacts, TreeBelow, LocateExists
<1>3. LocatesOver(Below(t), LocateFun(t))
  BY <1>2 DEF LocateFun
<1>4. ASSUME NEW x \in Below(t), NEW j \in Int
      PROVE  LocateFun(t)[<<x, j>>] = LocateAt(LocateFun(t), <<x, j>>)
  <2>1. <<x, j>> \in Below(t) \X Int
    OBVIOUS
  <2> QED BY <1>3, <2>1 DEF LocatesOver
<1> QED BY <1>1, <1>4

\* What holds of a tree whenever it holds of its two parts holds of all below.
LEMMA TreeInduction ==
  ASSUME NEW t, IsTree(t), NEW U,
         \A x \in Below(t) : (x # NoNode => x.left \in U /\ x.right \in U) => x \in U
  PROVE  Below(t) \subseteq U
<1> DEFINE Bad == Below(t) \ U
           L == {lc(x) : x \in Bad}
<1>1. \A x \in Below(t) : /\ lc(x) \in Nat
                          /\ x # NoNode => /\ x.left \in Below(t) /\ x.right \in Below(t)
                                           /\ lc(x.left) < lc(x) /\ lc(x.right) < lc(x)
  BY TreeBelow, NodeFacts
<1> SUFFICES ASSUME Bad # {} PROVE FALSE
  OBVIOUS
<1>2. L \in SUBSET Nat /\ L # {}
  BY <1>1
<1>3. PICK m \in L : \A k \in L : m <= k
  <2> HIDE DEF L
  <2> QED BY <1>2, LeastElement
<1>4. PICK x \in Bad : lc(x) = m
  BY <1>3
<1>5. \A y \in Below(t) : lc(y) < lc(x) => y \in U
  <2> TAKE y \in Below(t)
  <2> HAVE lc(y) < lc(x)
  <2>1. lc(y) \in Nat /\ lc(x) \in Nat
    BY <1>1
  <2>2. lc(y) \notin L
    BY <1>3, <1>4, <2>1
  <2> QED BY <2>2
<1> QED BY <1>1, <1>4, <1>5

\* g is where line j of tree x is.
Locates(g, x, j) ==
  /\ g.sp \in Span /\ g.off \in 0..(g.sp.count - 1)
  /\ Order(x)[j + 1] = <<g.sp.fromAdd, g.sp.start + g.off>>

\* A line is found at a node if it is found in the part that holds it.
LEMMA LocatePart ==
  ASSUME NEW x, IsTree(x), x # NoNode, NEW j \in 0..(lc(x) - 1), NEW f,
         j < lc(x.left) => Locates(f[<<x.left, j>>], x.left, j),
         j >= lc(x.left) + x.sp.count =>
           Locates(f[<<x.right, j - lc(x.left) - x.sp.count>>], x.right,
                   j - lc(x.left) - x.sp.count)
  PROVE  Locates(LocateAt(f, <<x, j>>), x, j)
<1> DEFINE ls == lc(x.left)
           n == x.sp.count
           rs == lc(x.right)
           g == LocateAt(f, <<x, j>>)
           a == Order(x.left)
           b == Refs(x.sp)
           c == Order(x.right)
           o == Order(x)
<1>1. /\ lc(x) = n + ls + rs /\ ls \in Nat /\ rs \in Nat /\ n \in Nat \ {0}
      /\ IsTree(x.left) /\ IsTree(x.right) /\ x.sp \in Span
  BY PartsOf, TreeFacts
<1>2. o = a \o b \o c /\ a \in Seq(Ref) /\ b \in Seq(Ref) /\ c \in Seq(Ref)
  BY PartsOf
<1>3. Len(a) = ls /\ Len(b) = n /\ Len(c) = rs
  BY <1>1, OrderCounts, RefsResult
<1>4. /\ \A i \in 1..Len(a) : o[i] = a[i]
      /\ \A i \in 1..Len(b) : o[Len(a) + i] = b[i]
      /\ \A i \in 1..Len(c) : o[Len(a) + Len(b) + i] = c[i]
  BY <1>2, PieceAt, SMTT(20)
<1>5. /\ \A i \in 1..ls : o[i] = a[i]
      /\ \A i \in 1..n : o[ls + i] = b[i]
      /\ \A i \in 1..rs : o[ls + n + i] = c[i]
  <2> HIDE DEF a, b, c, o, ls, n, rs
  <2> QED BY <1>3, <1>4
<1>6. g = IF j < ls THEN f[<<x.left, j>>]
          ELSE IF j < ls + n THEN [sp |-> x.sp, off |-> j - ls]
          ELSE f[<<x.right, j - ls - n>>]
  <2>1. <<x, j>>[1] = x /\ <<x, j>>[2] = j
    OBVIOUS
  <2> QED BY <2>1 DEF LocateAt
<1>7. CASE j < ls
  <2>1. Locates(g, x.left, j)
    BY <1>6, <1>7
  <2>2. j + 1 \in 1..ls
    BY <1>1, <1>7
  <2>3. o[j + 1] = a[j + 1]
    <3> HIDE DEF a, o, ls
    <3> QED BY <1>5, <2>2
  <2> QED BY <2>1, <2>3 DEF Locates
<1>8. CASE ~ (j < ls) /\ j < ls + n
  <2>1. g.sp = x.sp /\ g.off = j - ls
    BY <1>6, <1>8
  <2>2. j - ls + 1 \in 1..n /\ ls + (j - ls + 1) = j + 1 /\ j - ls \in 0..(n - 1)
    BY <1>1, <1>8
  <2>3. o[j + 1] = b[j - ls + 1]
    <3> HIDE DEF b, o, ls, n
    <3> QED BY <1>5, <2>2
  <2>4. b[j - ls + 1] = <<x.sp.fromAdd, x.sp.start + (j - ls + 1) - 1>>
    BY <1>1, <2>2, RefsResult
  <2>5. x.sp.start + (j - ls + 1) - 1 = x.sp.start + (j - ls)
    BY <1>1, TreeFacts
  <2> HIDE DEF g, o, b
  <2>6. o[j + 1] = <<g.sp.fromAdd, g.sp.start + g.off>>
    BY <2>1, <2>3, <2>4, <2>5
  <2>7. g.sp \in Span /\ g.off \in 0..(g.sp.count - 1)
    BY <1>1, <2>1, <2>2
  <2> QED BY <2>6, <2>7 DEF Locates, o, g
<1>9. CASE ~ (j < ls) /\ ~ (j < ls + n)
  <2> DEFINE k == j - ls - n
  <2>0. j >= ls + n
    BY <1>1, <1>9
  <2>1. Locates(g, x.right, k)
    BY <1>6, <1>9, <2>0
  <2>2. k + 1 \in 1..rs /\ ls + n + (k + 1) = j + 1
    BY <1>1, <1>9
  <2>3. o[j + 1] = c[k + 1]
    <3> HIDE DEF c, o, ls, n, rs, k
    <3> QED BY <1>5, <2>2
  <2> QED BY <2>1, <2>3 DEF Locates
<1> QED BY <1>7, <1>8, <1>9

\* Every line of a tree is found.
LEMMA LocateResult ==
  ASSUME NEW t, IsTree(t), NEW k \in 0..(lc(t) - 1)
  PROVE  Locates(locate(t, k), t, k)
<1> DEFINE f == LocateFun(t)
           Fine(x) == \A j \in 0..(lc(x) - 1) : Locates(f[<<x, j>>], x, j)
           U == {x \in Below(t) : Fine(x)}
<1>1. \A x \in Below(t) : IsTree(x)
  BY TreeBelow
<1>2. ASSUME NEW x \in Below(t), x # NoNode => x.left \in U /\ x.right \in U
      PROVE  Fine(x)
  <2> SUFFICES ASSUME NEW j \in 0..(lc(x) - 1) PROVE Locates(f[<<x, j>>], x, j)
    OBVIOUS
  <2>1. IsTree(x) /\ x # NoNode
    BY <1>1, EmptyTree
  <2>2. f[<<x, j>>] = LocateAt(f, <<x, j>>)
    <3>1. j \in Int
      OBVIOUS
    <3> QED BY <3>1, LocateFunIs
  <2>3. Fine(x.left) /\ Fine(x.right)
    <3> HIDE DEF Fine
    <3> QED BY <1>2, <2>1
  <2>4. /\ lc(x) = x.sp.count + lc(x.left) + lc(x.right)
        /\ lc(x.left) \in Nat /\ lc(x.right) \in Nat /\ x.sp.count \in Nat
    BY <2>1, TreeFacts
  <2> HIDE DEF f
  <2>5. j < lc(x.left) => Locates(f[<<x.left, j>>], x.left, j)
    BY <2>3, <2>4
  <2>6. j >= lc(x.left) + x.sp.count =>
           Locates(f[<<x.right, j - lc(x.left) - x.sp.count>>], x.right,
                   j - lc(x.left) - x.sp.count)
    <3> HAVE j >= lc(x.left) + x.sp.count
    <3>1. j - lc(x.left) - x.sp.count \in 0..(lc(x.right) - 1)
      BY <2>4
    <3> QED BY <2>3, <3>1
  <2> QED BY <2>1, <2>2, <2>5, <2>6, LocatePart
<1>3. Below(t) \subseteq U
  <2>1. \A x \in Below(t) : (x # NoNode => x.left \in U /\ x.right \in U) => x \in U
    <3> HIDE DEF Fine
    <3> QED BY <1>2
  <2> HIDE DEF U
  <2> QED BY <2>1, TreeInduction
<1>4. Fine(t)
  <2>1. t \in U
    BY <1>3, TreeBelow
  <2> QED BY <2>1
<1>5. locate(t, k) = f[<<t, k>>]
  BY LocateFunIs
<1> HIDE DEF f
<1> QED BY <1>4, <1>5

-----------------------------------------------------------------------------
(***************************************************************************)
(* Putting two trees together.                                              *)
(***************************************************************************)

MergeAt(f, d) ==
  LET x == d[1]
      y == d[2]
  IN  IF x = NoNode THEN y
      ELSE IF y = NoNode THEN x
      ELSE IF x.prio > y.prio THEN update([x EXCEPT !.right = f[<<@, y>>]])
      ELSE update([y EXCEPT !.left = f[<<x, @>>]])

MergesOver(D, f) == f = [d \in D |-> MergeAt(f, d)]

MergeFun(a, b) == CHOOSE f : MergesOver(Below(a) \X Below(b), f)

\* What MergeAt is of two trees.
LEMMA MergeAtIs ==
  ASSUME NEW x, IsTree(x), NEW y, IsTree(y), NEW f
  PROVE  MergeAt(f, <<x, y>>) =
           IF x = NoNode THEN y
           ELSE IF y = NoNode THEN x
           ELSE IF x.prio > y.prio THEN Node(x.sp, x.prio, x.left, f[<<x.right, y>>])
           ELSE Node(y.sp, y.prio, f[<<x, y.left>>], y.right)
<1>1. <<x, y>>[1] = x /\ <<x, y>>[2] = y
  OBVIOUS
<1>2. MergeAt(f, <<x, y>>) =
           IF x = NoNode THEN y
           ELSE IF y = NoNode THEN x
           ELSE IF x.prio > y.prio THEN update([x EXCEPT !.right = f[<<x.right, y>>]])
           ELSE update([y EXCEPT !.left = f[<<x, y.left>>]])
  BY <1>1, Zenon DEF MergeAt
<1>3. x # NoNode =>
        update([x EXCEPT !.right = f[<<x.right, y>>]])
          = Node(x.sp, x.prio, x.left, f[<<x.right, y>>])
  BY UpdateParts
<1>4. y # NoNode =>
        update([y EXCEPT !.left = f[<<x, y.left>>]])
          = Node(y.sp, y.prio, f[<<x, y.left>>], y.right)
  BY UpdateParts
<1> QED BY <1>2, <1>3, <1>4, Zenon

\* Of the function that is recursed on only the parts of the trees are asked.
LEMMA MergeLocal ==
  ASSUME NEW x, IsTree(x), NEW y, IsTree(y), NEW f, NEW g,
         x # NoNode /\ y # NoNode => /\ f[<<x.right, y>>] = g[<<x.right, y>>]
                                     /\ f[<<x, y.left>>] = g[<<x, y.left>>]
  PROVE  MergeAt(f, <<x, y>>) = MergeAt(g, <<x, y>>)
<1>1. CASE x = NoNode \/ y = NoNode
  BY <1>1, MergeAtIs, Zenon
<1>2. CASE x # NoNode /\ y # NoNode
  <2>1. f[<<x.right, y>>] = g[<<x.right, y>>] /\ f[<<x, y.left>>] = g[<<x, y.left>>]
    BY <1>2
  <2>2. MergeAt(f, <<x, y>>) = IF x.prio > y.prio THEN Node(x.sp, x.prio, x.left, f[<<x.right, y>>])
                               ELSE Node(y.sp, y.prio, f[<<x, y.left>>], y.right)
    BY <1>2, MergeAtIs, Zenon
  <2>3. MergeAt(g, <<x, y>>) = IF x.prio > y.prio THEN Node(x.sp, x.prio, x.left, g[<<x.right, y>>])
                               ELSE Node(y.sp, y.prio, g[<<x, y.left>>], y.right)
    BY <1>2, MergeAtIs, Zenon
  <2> QED BY <2>1, <2>2, <2>3
<1> QED BY <1>1, <1>2

\* The function that puts trees together exists.
LEMMA MergeExists ==
  ASSUME NEW S, Closed(S), NEW R, Closed(R), NEW N \in Nat,
         \A x \in S, y \in R : lc(x) + lc(y) <= N
  PROVE  \E f : MergesOver(S \X R, f)
<1> DEFINE Low(n) == {d \in S \X R : lc(d[1]) + lc(d[2]) <= n}
           T == {n \in 0..N : \E f : MergesOver(Low(n), f)}
<1>1. \A x \in S : /\ lc(x) \in Nat
                   /\ x # NoNode => /\ x.left \in S /\ x.right \in S
                                    /\ lc(x.left) < lc(x) /\ lc(x.right) < lc(x)
  BY NodeFacts
<1>2. \A x \in R : /\ lc(x) \in Nat
                   /\ x # NoNode => /\ x.left \in R /\ x.right \in R
                                    /\ lc(x.left) < lc(x) /\ lc(x.right) < lc(x)
  BY NodeFacts
<1>7. (\A x \in S : IsTree(x)) /\ (\A y \in R : IsTree(y))
  BY DEF IsTree
<1>0. \A x \in S, y \in R, n \in Nat : <<x, y>> \in Low(n) <=> lc(x) + lc(y) <= n
  <2> TAKE x \in S, y \in R, n \in Nat
  <2>1. <<x, y>> \in S \X R /\ <<x, y>>[1] = x /\ <<x, y>>[2] = y
    OBVIOUS
  <2> QED BY <2>1
<1>3. \E f : MergesOver(Low(0), f)
  <2> DEFINE f == [d \in Low(0) |-> d[2]]
  <2>1. \A d \in Low(0) : MergeAt(f, d) = d[2]
    <3> TAKE d \in Low(0)
    <3>1. PICK x \in S, y \in R : d = <<x, y>>
      OBVIOUS
    <3>2. lc(x) + lc(y) <= 0
      BY <1>0, <3>1
    <3>3. x = NoNode
      BY <1>1, <1>2, <3>2
    <3>4. d[2] = y
      BY <3>1
    <3>5. IsTree(x) /\ IsTree(y)
      BY <1>7
    <3> HIDE DEF f
    <3>6. MergeAt(f, <<x, y>>) = y
      BY <3>3, <3>5, MergeAtIs, Zenon
    <3> QED BY <3>1, <3>4, <3>6
  <2>2. f = [d \in Low(0) |-> MergeAt(f, d)]
    BY <2>1
  <2> HIDE DEF f
  <2> QED BY <2>2 DEF MergesOver
<1>4. ASSUME NEW n \in 1..N, \E f : MergesOver(Low(n - 1), f)
      PROVE  \E f : MergesOver(Low(n), f)
  <2>1. PICK f : MergesOver(Low(n - 1), f)
    BY <1>4
  <2> DEFINE g == [d \in Low(n) |-> MergeAt(f, d)]
  <2>2. \A x \in S, y \in R : lc(x) + lc(y) <= n - 1 => <<x, y>> \in Low(n - 1) /\ <<x, y>> \in Low(n)
    <3> TAKE x \in S, y \in R
    <3>1. lc(x) \in Nat /\ lc(y) \in Nat /\ n \in Nat /\ n - 1 \in Nat
      BY <1>1, <1>2
    <3> HIDE DEF Low
    <3> QED BY <1>0, <3>1
  <2>3. \A d \in Low(n - 1) : f[d] = MergeAt(f, d)
    BY <2>1 DEF MergesOver
  <2>4. \A x \in S, y \in R : lc(x) + lc(y) <= n - 1 => g[<<x, y>>] = f[<<x, y>>]
    <3> TAKE x \in S, y \in R
    <3> HAVE lc(x) + lc(y) <= n - 1
    <3>1. <<x, y>> \in Low(n - 1) /\ <<x, y>> \in Low(n)
      BY <2>2
    <3> HIDE DEF Low
    <3> QED BY <2>3, <3>1
  <2>6. \A d \in Low(n) : MergeAt(g, d) = MergeAt(f, d)
    <3> TAKE d \in Low(n)
    <3>1. PICK x \in S, y \in R : d = <<x, y>>
      OBVIOUS
    <3>2. lc(x) + lc(y) <= n
      BY <1>0, <3>1
    <3>3. ASSUME x # NoNode, y # NoNode
          PROVE  /\ g[<<x.right, y>>] = f[<<x.right, y>>]
                 /\ g[<<x, y.left>>] = f[<<x, y.left>>]
      <4>1. /\ x.right \in S /\ y.left \in R
            /\ lc(x.right) + lc(y) <= n - 1 /\ lc(x) + lc(y.left) <= n - 1
        BY <1>1, <1>2, <3>2, <3>3
      <4> HIDE DEF g
      <4> QED BY <2>4, <4>1
    <3> HIDE DEF g, Low
    <3>4. IsTree(x) /\ IsTree(y)
      BY <1>7
    <3> QED BY <3>1, <3>3, <3>4, MergeLocal
  <2>7. MergesOver(Low(n), g)
    <3>1. g = [d \in Low(n) |-> MergeAt(g, d)]
      BY <2>6
    <3> QED BY <3>1 DEF MergesOver
  <2> HIDE DEF g
  <2> QED BY <2>7
<1>5. N \in T
  <2>1. InductiveUpTo(N, T)
    <3> HIDE DEF Low
    <3> QED BY <1>3, <1>4 DEF InductiveUpTo
  <2> HIDE DEF T
  <2> QED BY <2>1, IntervalInduction
<1>6. Low(N) = S \X R
  <2>1. \A d \in S \X R : lc(d[1]) + lc(d[2]) <= N
    OBVIOUS
  <2> QED BY <2>1
<1> HIDE DEF Low
<1> QED BY <1>5, <1>6

\* It is what its definition says, at every pair of nodes.
LEMMA MergeFunIs ==
  ASSUME NEW a, IsTree(a), NEW b, IsTree(b)
  PROVE  \A x \in Below(a), y \in Below(b) :
           MergeFun(a, b)[<<x, y>>] = MergeAt(MergeFun(a, b), <<x, y>>)
<1>2. \E f : MergesOver(Below(a) \X Below(b), f)
  <2> DEFINE N == lc(a) + lc(b)
  <2>1. \A x \in Below(a), y \in Below(b) : lc(x) + lc(y) <= N /\ N \in Nat
    <3> TAKE x \in Below(a), y \in Below(b)
    <3>1. lc(x) <= lc(a) /\ lc(y) <= lc(b) /\ IsTree(x) /\ IsTree(y)
      BY TreeBelow
    <3>2. lc(x) \in Nat /\ lc(y) \in Nat /\ lc(a) \in Nat /\ lc(b) \in Nat
      BY <3>1, TreeFacts
    <3> QED BY <3>1, <3>2
  <2>2. N \in Nat
    BY TreeFacts
  <2>3. Closed(Below(a)) /\ Closed(Below(b))
    BY TreeBelow
  <2> HIDE DEF N
  <2> QED BY <2>1, <2>2, <2>3, MergeExists
<1>3. MergesOver(Below(a) \X Below(b), MergeFun(a, b))
  BY <1>2 DEF MergeFun
<1>4. ASSUME NEW x \in Below(a), NEW y \in Below(b)
      PROVE  MergeFun(a, b)[<<x, y>>] = MergeAt(MergeFun(a, b), <<x, y>>)
  <2>1. <<x, y>> \in Below(a) \X Below(b)
    OBVIOUS
  <2> QED BY <1>3, <2>1 DEF MergesOver
<1> QED BY <1>4

\* It is what merge applies.
LEMMA MergeIs ==
  ASSUME NEW a, NEW b
  PROVE  merge(a, b) = MergeFun(a, b)[<<a, b>>]
BY Zenon DEF merge, MergeFun, MergesOver, MergeAt

\* m has the lines of x and, behind them, those of y.
Joins(m, x, y) ==
  IsTree(m) /\ lc(m) = lc(x) + lc(y) /\ Order(m) = Order(x) \o Order(y)

\* Two trees are put together if the parts left are.
LEMMA MergePart ==
  ASSUME NEW x, IsTree(x), NEW y, IsTree(y), NEW f,
         x # NoNode /\ y # NoNode => /\ Joins(f[<<x.right, y>>], x.right, y)
                                     /\ Joins(f[<<x, y.left>>], x, y.left)
  PROVE  Joins(MergeAt(f, <<x, y>>), x, y)
<1> DEFINE m == MergeAt(f, <<x, y>>)
<1>1. Order(x) \in Seq(Ref) /\ Order(y) \in Seq(Ref) /\ lc(x) \in Nat /\ lc(y) \in Nat
  BY OrderCounts, TreeFacts
<1>2. CASE x = NoNode
  <2>1. m = y
    BY <1>2, MergeAtIs, Zenon
  <2>2. Order(x) \o Order(y) = Order(y)
    BY <1>1, <1>2, EmptyOrder, ConcatEmptySeq
  <2>3. lc(x) = 0
    BY <1>2, EmptyTree
  <2> QED BY <1>1, <2>1, <2>2, <2>3 DEF Joins
<1>3. CASE x # NoNode /\ y = NoNode
  <2>1. m = x
    BY <1>3, MergeAtIs, Zenon
  <2>2. Order(x) \o Order(y) = Order(x)
    BY <1>1, <1>3, EmptyOrder, ConcatEmptySeq
  <2>3. lc(y) = 0
    BY <1>3, EmptyTree
  <2> QED BY <1>1, <2>1, <2>2, <2>3 DEF Joins
<1>4. CASE x # NoNode /\ y # NoNode /\ x.prio > y.prio
  <2> DEFINE r == f[<<x.right, y>>]
             a == Order(x.left)
             b == Refs(x.sp)
             c == Order(x.right)
             d == Order(y)
  <2>1. m = Node(x.sp, x.prio, x.left, r)
    BY <1>4, MergeAtIs, Zenon
  <2>2. IsTree(r) /\ lc(r) = lc(x.right) + lc(y) /\ Order(r) = c \o d
    BY <1>4 DEF Joins
  <2>3. /\ Order(x) = a \o b \o c /\ a \in Seq(Ref) /\ b \in Seq(Ref) /\ c \in Seq(Ref)
        /\ IsTree(x.left) /\ lc(x) = x.sp.count + lc(x.left) + lc(x.right)
        /\ lc(x.left) \in Nat /\ lc(x.right) \in Nat /\ x.sp.count \in Nat
    BY <1>4, PartsOf
  <2>4. x.sp \in Span /\ x.prio \in Number
    BY <1>4, TreeFacts
  <2>5. IsTree(m) /\ Order(m) = a \o b \o Order(r)
    <3>1. IsTree(x.left) /\ IsTree(r)
      BY <2>2, <2>3
    <3> HIDE DEF m, r
    <3> QED BY <2>1, <2>4, <3>1, NodeOrder
  <2>6. lc(m) = x.sp.count + lc(x.left) + lc(r)
    BY <2>1, NodeIs
  <2>7. d \in Seq(Ref)
    BY <1>1
  <2> HIDE DEF m, r, a, b, c, d
  <2>8. a \o b \o (c \o d) = (a \o b \o c) \o d
    <3> DEFINE e == a \o b
    <3>1. e \in Seq(Ref)
      BY <2>3
    <3>2. c \in Seq(Ref) /\ d \in Seq(Ref)
      BY <2>3, <2>7
    <3> HIDE DEF e
    <3>3. e \o (c \o d) = (e \o c) \o d
      BY <3>1, <3>2, ConcatAssociative
    <3> QED BY <3>3 DEF e
  <2>9. Order(m) = Order(x) \o d
    BY <2>2, <2>3, <2>5, <2>8
  <2>10. lc(m) = lc(x) + lc(y)
    BY <1>1, <2>2, <2>3, <2>6
  <2>11. IsTree(m)
    BY <2>5
  <2> QED BY <2>9, <2>10, <2>11 DEF Joins, m, d
<1>5. CASE x # NoNode /\ y # NoNode /\ ~ (x.prio > y.prio)
  <2> DEFINE l == f[<<x, y.left>>]
             a == Order(x)
             b == Order(y.left)
             c == Refs(y.sp)
             d == Order(y.right)
  <2>1. m = Node(y.sp, y.prio, l, y.right)
    BY <1>5, MergeAtIs, Zenon
  <2>2. IsTree(l) /\ lc(l) = lc(x) + lc(y.left) /\ Order(l) = a \o b
    BY <1>5 DEF Joins
  <2>3. /\ Order(y) = b \o c \o d /\ b \in Seq(Ref) /\ c \in Seq(Ref) /\ d \in Seq(Ref)
        /\ IsTree(y.right) /\ lc(y) = y.sp.count + lc(y.left) + lc(y.right)
        /\ lc(y.left) \in Nat /\ lc(y.right) \in Nat /\ y.sp.count \in Nat
    BY <1>5, PartsOf
  <2>4. y.sp \in Span /\ y.prio \in Number
    BY <1>5, TreeFacts
  <2>5. IsTree(m) /\ Order(m) = Order(l) \o c \o d
    <3>1. IsTree(y.right) /\ IsTree(l)
      BY <2>2, <2>3
    <3> HIDE DEF m, l
    <3> QED BY <2>1, <2>4, <3>1, NodeOrder
  <2>6. lc(m) = y.sp.count + lc(l) + lc(y.right)
    BY <2>1, NodeIs
  <2>7. a \in Seq(Ref)
    BY <1>1
  <2> HIDE DEF m, l, a, b, c, d
  <2>8. (a \o b) \o c \o d = a \o (b \o c \o d)
    <3>1. b \o c \in Seq(Ref) /\ b \in Seq(Ref) /\ c \in Seq(Ref) /\ d \in Seq(Ref)
      BY <2>3
    <3>2. (a \o b) \o c = a \o (b \o c)
      BY <2>7, <3>1, ConcatAssociative
    <3>3. (a \o (b \o c)) \o d = a \o ((b \o c) \o d)
      BY <2>7, <3>1, ConcatAssociative, SMTT(20)
    <3> QED BY <3>2, <3>3
  <2>9. Order(m) = a \o Order(y)
    BY <2>2, <2>3, <2>5, <2>8
  <2>10. lc(m) = lc(x) + lc(y)
    BY <1>1, <2>2, <2>3, <2>6
  <2>11. IsTree(m)
    BY <2>5
  <2> QED BY <2>9, <2>10, <2>11 DEF Joins, m, a
<1> QED BY <1>2, <1>3, <1>4, <1>5

\* Two trees are put together, and nothing is lost.
LEMMA MergeResult ==
  ASSUME NEW a, IsTree(a), NEW b, IsTree(b)
  PROVE  Joins(merge(a, b), a, b)
<1> DEFINE f == MergeFun(a, b)
           Fine(x, y) == Joins(f[<<x, y>>], x, y)
           L == {n \in Nat : \E x \in Below(a), y \in Below(b) : lc(x) + lc(y) = n /\ ~Fine(x, y)}
<1>1. \A x \in Below(a) : /\ IsTree(x) /\ lc(x) \in Nat
                          /\ x # NoNode => x.right \in Below(a) /\ lc(x.right) < lc(x)
  BY TreeBelow, NodeFacts
<1>2. \A y \in Below(b) : /\ IsTree(y) /\ lc(y) \in Nat
                          /\ y # NoNode => y.left \in Below(b) /\ lc(y.left) < lc(y)
  BY TreeBelow, NodeFacts
<1>3. ASSUME NEW m \in L, \A i \in L : m <= i PROVE FALSE
  <2> HIDE DEF Fine
  <2>1. PICK x \in Below(a), y \in Below(b) : lc(x) + lc(y) = m /\ ~Fine(x, y)
    OBVIOUS
  <2>2. \A u \in Below(a), v \in Below(b) : lc(u) + lc(v) < m => Fine(u, v)
    <3> TAKE u \in Below(a), v \in Below(b)
    <3> HAVE lc(u) + lc(v) < m
    <3>1. lc(u) + lc(v) \in Nat /\ m \in Nat
      BY <1>1, <1>2
    <3>2. lc(u) + lc(v) \notin L
      <4> HIDE DEF L
      <4> QED BY <1>3, <3>1
    <3> QED BY <3>1, <3>2
  <2>3. ASSUME x # NoNode, y # NoNode PROVE Fine(x.right, y) /\ Fine(x, y.left)
    <3>1. /\ x.right \in Below(a) /\ y.left \in Below(b)
          /\ lc(x.right) + lc(y) < m /\ lc(x) + lc(y.left) < m
      BY <1>1, <1>2, <2>1, <2>3
    <3> QED BY <2>2, <3>1
  <2>4. f[<<x, y>>] = MergeAt(f, <<x, y>>)
    <3>1. \A u \in Below(a), v \in Below(b) : f[<<u, v>>] = MergeAt(f, <<u, v>>)
      BY MergeFunIs
    <3> QED BY <3>1
  <2>5. IsTree(x) /\ IsTree(y)
    BY <1>1, <1>2
  <2>6. x # NoNode /\ y # NoNode => /\ Joins(f[<<x.right, y>>], x.right, y)
                                    /\ Joins(f[<<x, y.left>>], x, y.left)
    BY <2>3 DEF Fine
  <2> HIDE DEF f
  <2>7. Joins(f[<<x, y>>], x, y)
    BY <2>4, <2>5, <2>6, MergePart
  <2> QED BY <2>1, <2>7 DEF Fine
<1>4. L = {}
  <2>1. L \in SUBSET Nat
    OBVIOUS
  <2> HIDE DEF L
  <2> QED BY <1>3, <2>1, LeastElement
<1>5. a \in Below(a) /\ b \in Below(b) /\ lc(a) + lc(b) \in Nat
  BY TreeBelow, TreeFacts
<1>6. Fine(a, b)
  <2> HIDE DEF Fine
  <2> QED BY <1>4, <1>5
<1> QED BY <1>6, MergeIs

-----------------------------------------------------------------------------
(***************************************************************************)
(* Trees edited: the lines of what Set, Insert and Delete put together.    *)
(***************************************************************************)

NewRef == <<TRUE, Len(add)>>

\* A tree that holds the lines of a list of references.
Holds(t, s) == IsTree(t) /\ Order(t) = s /\ lc(t) = Len(s) /\ s \in Seq(Ref)

\* A tree holds its own lines.
LEMMA HoldsOrder ==
  ASSUME NEW t, IsTree(t)
  PROVE  Holds(t, Order(t))
BY OrderCounts DEF Holds

\* A node of a span alone.
LEMMA NewNodeResult ==
  ASSUME NEW sp \in Span, NEW n \in Number
  PROVE  Holds(newNode(sp, n), Refs(sp))
<1> DEFINE x == newNode(sp, n)
<1>1. sp.count \in Nat
  BY DEF Span
<1>2. sp.count + lc(NoNode) + lc(NoNode) = sp.count
  BY <1>1, EmptyTree
<1>3. x = Node(sp, n, NoNode, NoNode)
  BY <1>2 DEF newNode, Node
<1> HIDE DEF x
<1>4. IsTree(x) /\ lc(x) = sp.count
  BY <1>2, <1>3, EmptyTree, NodeOrder
<1>5. Order(x) = <<>> \o Refs(sp) \o <<>>
  BY <1>3, EmptyTree, EmptyOrder, NodeOrder
<1>6. Refs(sp) \in Seq(Ref) /\ Len(Refs(sp)) = sp.count
  BY RefsResult
<1>7. Order(x) = Refs(sp)
  BY <1>5, <1>6, ConcatEmptySeq
<1> QED BY <1>4, <1>6, <1>7 DEF Holds, x

\* The line added last, between two trees.
LEMMA BetweenResult ==
  ASSUME add \in Seq(Text), NEW cut, NEW a, NEW b, Holds(cut[1], a), Holds(cut[2], b),
         NEW r \in Prio
  PROVE  Holds(Between(cut, r), Spliced(a, NewRef, b)) /\ NewRef \in Ref
<1> DEFINE x == newNode(AddSpan, r)
           s == <<NewRef>>
           m == merge(cut[1], x)
           y == merge(m, cut[2])
<1>1. AddSpan \in Span /\ AddSpan.count = 1 /\ AddSpan.fromAdd = TRUE /\ AddSpan.start = Len(add)
      /\ Len(add) \in Nat
  BY DEF AddSpan, Span
<1>2. r \in Number
  BY DEF Number
<1>3. NewRef \in Ref
  BY <1>1 DEF NewRef, Ref
<1>4. Refs(AddSpan) = s
  <2>1. s \in Seq(Ref) /\ Len(s) = 1 /\ s[1] = NewRef
    BY <1>3
  <2>2. Len(add) + 1 - 1 = Len(add)
    BY <1>1
  <2>3. Refs(AddSpan) \in Seq(Ref) /\ Len(Refs(AddSpan)) = 1 /\ Refs(AddSpan)[1] = NewRef
    <3>1. Refs(AddSpan) \in Seq(Ref) /\ Len(Refs(AddSpan)) = AddSpan.count
      BY <1>1, RefsResult
    <3>2. 1 \in 1..AddSpan.count
      BY <1>1
    <3>3. Refs(AddSpan)[1] = <<AddSpan.fromAdd, AddSpan.start + 1 - 1>>
      BY <1>1, <3>2, RefsResult
    <3> QED BY <1>1, <2>2, <3>1, <3>3 DEF NewRef
  <2> QED BY <2>1, <2>3, SeqEqual
<1>5. Holds(x, s)
  BY <1>1, <1>2, <1>4, NewNodeResult
<1> HIDE DEF x, s
<1>6. Joins(m, cut[1], x)
  BY <1>5, MergeResult DEF Holds
<1> HIDE DEF m
<1>7. IsTree(m) /\ Order(m) = a \o s /\ lc(m) = Len(a) + Len(s)
  BY <1>5, <1>6 DEF Joins, Holds
<1>8. Joins(y, m, cut[2])
  BY <1>7, MergeResult DEF Holds
<1> HIDE DEF y
<1>9. IsTree(y) /\ Order(y) = a \o s \o b
  BY <1>7, <1>8 DEF Joins, Holds
<1>10. Holds(y, a \o s \o b)
  BY <1>9, HoldsOrder
<1>12. Holds(y, Spliced(a, NewRef, b))
  BY <1>10 DEF s, Spliced
<1>11. Between(cut, r) = y
  BY DEF Between, x, m, y
<1> QED BY <1>3, <1>11, <1>12

\* A tree divided.
Halves(h, s, k) ==
  \E a, b \in Seq(Ref) : s = Joint(a, b) /\ Len(a) = k /\ Holds(h[1], a) /\ Holds(h[2], b)

\* Dividing a tree divides its lines.
LEMMA HalvesResult ==
  ASSUME NEW t, NEW s, Holds(t, s), NEW k \in 0..Len(s), NEW p \in Number, NEW q \in Number
  PROVE  Halves(split(t, k, p, q), s, k)
<1> DEFINE h == split(t, k, p, q)
           a == Order(h[1])
           b == Order(h[2])
<1>1. Divides(h, t, k)
  BY SplitResult DEF Holds
<1> HIDE DEF h
<1>2. Holds(h[1], a) /\ Holds(h[2], b)
  BY <1>1, HoldsOrder DEF Divides
<1>3. a \in Seq(Ref) /\ b \in Seq(Ref) /\ Len(a) = k /\ s = Joint(a, b)
  BY <1>1, <1>2 DEF Divides, Holds, Joint
<1> HIDE DEF a, b
<1>4. Halves(h, s, k)
  BY <1>2, <1>3 DEF Halves
<1> QED BY <1>4 DEF h

\* A tree with its line k + 1 cut out.
CutOut(h, s, k) ==
  \E a, c, d \in Seq(Ref) :
    s = Joint(a, Joint(c, d)) /\ Len(a) = k /\ Len(c) = 1 /\ Holds(h[1], a) /\ Holds(h[2], d)

\* Cutting a line out leaves those before and those behind it.
LEMMA CutResult ==
  ASSUME NEW s, Holds(root, s), NEW k \in 0..(Len(s) - 1), NEW p \in Number, NEW q \in Number
  PROVE  CutOut(Cut(k, 1, p, q), s, k)
<1> DEFINE h == split(root, k, p, q)
           i == split(h[2], 1, p, q)
           x == Cut(k, 1, p, q)
<1>1. x[1] = h[1] /\ x[2] = i[2]
  BY DEF Cut
<1> HIDE DEF x
<1>2. Len(s) \in Nat
  BY DEF Holds
<1>3. Halves(h, s, k)
  <2>1. k \in 0..Len(s)
    BY <1>2
  <2> QED BY <2>1, HalvesResult
<1> HIDE DEF h
<1>4. PICK a, b \in Seq(Ref) : s = Joint(a, b) /\ Len(a) = k /\ Holds(h[1], a) /\ Holds(h[2], b)
  BY <1>3 DEF Halves
<1>5. IsJoint(Ref, a, b, s)
  BY <1>4, JoinedIs DEF Joint
<1>6. 1 \in 0..Len(b)
  BY <1>2, <1>4, <1>5 DEF IsJoint
<1>7. Halves(i, b, 1)
  BY <1>4, <1>6, HalvesResult
<1> HIDE DEF i
<1>8. PICK c, d \in Seq(Ref) : b = Joint(c, d) /\ Len(c) = 1 /\ Holds(i[1], c) /\ Holds(i[2], d)
  BY <1>7 DEF Halves
<1>9. s = Joint(a, Joint(c, d)) /\ Holds(x[1], a) /\ Holds(x[2], d)
  BY <1>1, <1>4, <1>8
<1>10. CutOut(x, s, k)
  BY <1>4, <1>8, <1>9 DEF CutOut
<1> QED BY <1>10 DEF x

-----------------------------------------------------------------------------
(* What the three edits make of the tree. *)

\* Insert puts the new line behind the first k.
LEMMA InsertTree ==
  ASSUME add \in Seq(Text), NEW s, Holds(root, s), NEW k \in 0..Len(s),
         NEW p \in Number, NEW q \in Number, NEW r \in Prio
  PROVE  Holds(Between(split(root, k, p, q), r), InsertAt(s, k + 1, NewRef)) /\ NewRef \in Ref
<1> DEFINE h == split(root, k, p, q)
           t == Between(h, r)
<1>1. Halves(h, s, k)
  BY HalvesResult
<1> HIDE DEF h
<1>2. PICK a, b \in Seq(Ref) : s = Joint(a, b) /\ Len(a) = k /\ Holds(h[1], a) /\ Holds(h[2], b)
  BY <1>1 DEF Halves
<1>3. Holds(t, Spliced(a, NewRef, b)) /\ NewRef \in Ref
  BY <1>2, BetweenResult
<1>4. Spliced(a, NewRef, b) = InsertAt(s, Len(a) + 1, NewRef)
  BY <1>2, <1>3, SplicedIs
<1> HIDE DEF t
<1>5. Holds(t, InsertAt(s, k + 1, NewRef))
  BY <1>2, <1>3, <1>4
<1> QED BY <1>3, <1>5 DEF t, h

\* Set puts it in the place of line k + 1.
LEMMA ReplaceTree ==
  ASSUME add \in Seq(Text), NEW s, Holds(root, s), NEW k \in 0..(Len(s) - 1),
         NEW p \in Number, NEW q \in Number, NEW r \in Prio
  PROVE  Holds(Between(Cut(k, 1, p, q), r), ReplaceAt(s, k + 1, NewRef)) /\ NewRef \in Ref
<1> DEFINE h == Cut(k, 1, p, q)
           t == Between(h, r)
           n == k + 1
<1>1. CutOut(h, s, k)
  BY CutResult
<1> HIDE DEF h
<1>2. PICK a, c, d \in Seq(Ref) :
        s = Joint(a, Joint(c, d)) /\ Len(a) = k /\ Len(c) = 1 /\ Holds(h[1], a) /\ Holds(h[2], d)
  BY <1>1 DEF CutOut
<1>3. Holds(t, Spliced(a, NewRef, d)) /\ NewRef \in Ref
  BY <1>2, BetweenResult
<1>4. Joint(a, d) = RemoveAt(s, Len(a) + 1)
  BY <1>2, TakenOut
<1>5. Joint(a, d) = RemoveAt(s, n)
  BY <1>2, <1>4
<1>6. Spliced(a, NewRef, d) = InsertAt(RemoveAt(s, n), n, NewRef)
  BY <1>2, <1>3, <1>5, SplicedIs
<1>7. n \in 1..Len(s) /\ s \in Seq(Ref)
  BY DEF Holds
<1> HIDE DEF n, t
<1>8. InsertAt(RemoveAt(s, n), n, NewRef) = ReplaceAt(s, n, NewRef)
  BY <1>3, <1>7, InsertRemoved
<1>9. Holds(t, ReplaceAt(s, n, NewRef))
  BY <1>3, <1>6, <1>8
<1> QED BY <1>3, <1>9 DEF t, h, n

\* Delete takes line k + 1 out.
LEMMA DeleteTree ==
  ASSUME NEW s, Holds(root, s), NEW k \in 0..(Len(s) - 1), NEW p \in Number, NEW q \in Number
  PROVE  LET cut == Cut(k, 1, p, q)
         IN  Holds(merge(cut[1], cut[2]), RemoveAt(s, k + 1))
<1> DEFINE h == Cut(k, 1, p, q)
           t == merge(h[1], h[2])
<1>1. CutOut(h, s, k)
  BY CutResult
<1> HIDE DEF h
<1>2. PICK a, c, d \in Seq(Ref) :
        s = Joint(a, Joint(c, d)) /\ Len(a) = k /\ Len(c) = 1 /\ Holds(h[1], a) /\ Holds(h[2], d)
  BY <1>1 DEF CutOut
<1>3. Joint(a, d) = RemoveAt(s, Len(a) + 1)
  BY <1>2, TakenOut
<1>4. Joins(t, h[1], h[2])
  BY <1>2, MergeResult DEF Holds
<1> HIDE DEF t
<1>5. IsTree(t) /\ Order(t) = Joint(a, d)
  BY <1>2, <1>4 DEF Joins, Holds, Joint
<1>6. Holds(t, Joint(a, d))
  BY <1>5, HoldsOrder
<1>7. Holds(t, RemoveAt(s, k + 1))
  BY <1>2, <1>3, <1>6
<1> QED BY <1>7 DEF t, h

-----------------------------------------------------------------------------
(***************************************************************************)
(* The ends of the lines of a text.                                         *)
(***************************************************************************)

EndsOver(s, u) ==
  u = [i \in 0..Len(s) |-> IF i = 0 THEN <<>>
                           ELSE IF s[i] = NL THEN Append(u[i - 1], i)
                           ELSE u[i - 1]]

EndsFun(s) == CHOOSE u : EndsOver(s, u)

\* The function behind LineEnds exists.
LEMMA EndsExists ==
  ASSUME NEW S, NEW s \in Seq(S)
  PROVE  \E u \in [0..Len(s) -> Seq(Nat)] : EndsOver(s, u)
<1> DEFINE n == Len(s)
           Step(i, e) == IF s[i] = NL THEN Append(e, i) ELSE e
           F == [i \in 1..n |-> [e \in Seq(Nat) |-> Step(i, e)]]
<1>1. n \in Nat
  OBVIOUS
<1>2. \A i \in 1..n, e \in Seq(Nat) : Step(i, e) \in Seq(Nat)
  <2> TAKE i \in 1..n, e \in Seq(Nat)
  <2>1. i \in Nat
    OBVIOUS
  <2> QED BY <2>1
<1>3. F \in Stepper(n, Seq(Nat))
  <2> HIDE DEF Step
  <2> QED BY <1>2 DEF Stepper
<1>4. \A i \in 1..n, e \in Seq(Nat) : F[i][e] = Step(i, e)
  OBVIOUS
<1> HIDE DEF F, Step, n
<1>5. PICK u \in [0..n -> Seq(Nat)] : IsCourse(u, n, <<>>, F)
  <2>1. <<>> \in Seq(Nat)
    OBVIOUS
  <2> QED BY <1>1, <1>3, <2>1, CourseExists
<1>6. u[0] = <<>> /\ \A i \in 1..n : u[i] = Step(i, u[i - 1])
  <2>1. \A i \in 1..n : u[i - 1] \in Seq(Nat)
    BY <1>1
  <2> QED BY <1>4, <1>5, <2>1 DEF IsCourse
<1>7. \A i \in 0..n : u[i] = IF i = 0 THEN <<>> ELSE Step(i, u[i - 1])
  <2>1. \A i \in 0..n : i = 0 \/ i \in 1..n
    BY <1>1
  <2> QED BY <1>6, <2>1
<1>8. u = [i \in 0..n |-> IF i = 0 THEN <<>> ELSE Step(i, u[i - 1])]
  <2>1. u = [i \in 0..n |-> u[i]]
    BY <1>5
  <2> QED BY <1>7, <2>1
<1>9. EndsOver(s, u)
  BY <1>8 DEF EndsOver, Step, n
<1> QED BY <1>9 DEF n

\* LineEnds is what its definition says, byte by byte.
LEMMA EndsFunIs ==
  ASSUME NEW S, NEW s \in Seq(S)
  PROVE  /\ LineEnds(s) = EndsFun(s)[Len(s)]
         /\ EndsFun(s)[0] = <<>>
         /\ \A i \in 1..Len(s) : EndsFun(s)[i] = IF s[i] = NL THEN Append(EndsFun(s)[i - 1], i)
                                                 ELSE EndsFun(s)[i - 1]
<1>1. LineEnds(s) = EndsFun(s)[Len(s)]
  BY Zenon DEF LineEnds, EndsFun, EndsOver
<1>2. EndsOver(s, EndsFun(s))
  BY EndsExists DEF EndsFun
<1> DEFINE u == EndsFun(s)
<1> HIDE DEF u
<1>3. \A i \in 0..Len(s) : u[i] = IF i = 0 THEN <<>>
                                  ELSE IF s[i] = NL THEN Append(u[i - 1], i)
                                  ELSE u[i - 1]
  BY <1>2 DEF EndsOver, u
<1>4. 0 \in 0..Len(s) /\ \A i \in 1..Len(s) : i \in 0..Len(s) /\ i # 0
  OBVIOUS
<1> QED BY <1>1, <1>3, <1>4 DEF u

\* The ends of a text with one more byte.
LEMMA EndsGrow ==
  ASSUME NEW S, NEW s \in Seq(S), NEW b \in S
  PROVE  LineEnds(Append(s, b)) = IF b = NL THEN Append(LineEnds(s), Len(s) + 1) ELSE LineEnds(s)
<1> DEFINE t == Append(s, b)
           u == EndsFun(s)
           v == EndsFun(t)
           n == Len(s)
           T == {i \in 0..n : v[i] = u[i]}
<1>1. n \in Nat /\ t \in Seq(S) /\ Len(t) = n + 1 /\ t[n + 1] = b /\ \A i \in 1..n : t[i] = s[i]
  OBVIOUS
<1>2. /\ LineEnds(s) = u[n] /\ u[0] = <<>>
      /\ \A i \in 1..n : u[i] = IF s[i] = NL THEN Append(u[i - 1], i) ELSE u[i - 1]
  BY EndsFunIs
<1>3. /\ LineEnds(t) = v[n + 1] /\ v[0] = <<>>
      /\ \A i \in 1..(n + 1) : v[i] = IF t[i] = NL THEN Append(v[i - 1], i) ELSE v[i - 1]
  <2> HIDE DEF t
  <2> QED BY <1>1, EndsFunIs
<1> HIDE DEF u, v, t, n
<1>4. n \in T
  <2>1. 0 \in T
    BY <1>1, <1>2, <1>3
  <2>2. ASSUME NEW m \in 1..n, m - 1 \in T PROVE m \in T
    <3>1. m \in 1..(n + 1) /\ m \in 0..n
      BY <1>1
    <3> QED BY <1>1, <1>2, <1>3, <2>2, <3>1
  <2>3. InductiveUpTo(n, T)
    <3> HIDE DEF T
    <3> QED BY <2>1, <2>2 DEF InductiveUpTo
  <2> HIDE DEF T
  <2> QED BY <1>1, <2>3, IntervalInduction
<1>5. n + 1 \in 1..(n + 1) /\ (n + 1) - 1 = n
  BY <1>1
<1>6. v[n + 1] = IF t[n + 1] = NL THEN Append(v[n], n + 1) ELSE v[n]
  BY <1>3, <1>5
<1> QED BY <1>1, <1>2, <1>3, <1>4, <1>6 DEF t, n

\* An empty text has no ends.
LEMMA EndsEmpty ==
  LineEnds(<<>>) = <<>>
<1> DEFINE s == <<>>
<1>1. s \in Seq(Nat) /\ Len(s) = 0
  OBVIOUS
<1> HIDE DEF s
<1>2. LineEnds(s) = <<>>
  BY <1>1, EndsFunIs
<1> QED BY <1>2 DEF s

\* The ends of a text are the places of its newlines, in their order.
EndsAre(s) ==
  LET e == LineEnds(s)
  IN  /\ e \in Seq(Nat) /\ Len(e) <= Len(s)
      /\ \A k \in 1..Len(e) : e[k] \in 1..Len(s) /\ s[e[k]] = NL
      /\ \A k \in 1..Len(e), l \in 1..Len(e) : k < l => e[k] < e[l]
      /\ \A i \in 1..Len(s) : s[i] = NL => \E k \in 1..Len(e) : e[k] = i

\* One more byte keeps it so.
LEMMA EndsAreGrow ==
  ASSUME NEW S, NEW s \in Seq(S), NEW b \in S, EndsAre(s)
  PROVE  EndsAre(Append(s, b))
<1> DEFINE t == Append(s, b)
           n == Len(s)
           e == LineEnds(s)
           f == LineEnds(t)
           m == Len(e)
<1>1. n \in Nat /\ Len(t) = n + 1 /\ t[n + 1] = b /\ \A i \in 1..n : t[i] = s[i]
  OBVIOUS
<1>2. /\ e \in Seq(Nat) /\ m <= n
      /\ \A k \in 1..m : e[k] \in 1..n /\ s[e[k]] = NL
      /\ \A k \in 1..m, l \in 1..m : k < l => e[k] < e[l]
      /\ \A i \in 1..n : s[i] = NL => \E k \in 1..m : e[k] = i
  BY DEF EndsAre
<1>3. f = IF b = NL THEN Append(e, n + 1) ELSE e
  BY EndsGrow
<1>4. m \in Nat
  BY <1>2
<1>5. CASE b # NL
  <2>1. f = e
    BY <1>3, <1>5
  <2> HIDE DEF t, e, f, n
  <2>2. \A k \in 1..m : e[k] \in 1..(n + 1) /\ t[e[k]] = NL
    BY <1>1, <1>2
  <2>3. \A i \in 1..(n + 1) : t[i] = NL => \E k \in 1..m : e[k] = i
    <3> TAKE i \in 1..(n + 1)
    <3> HAVE t[i] = NL
    <3>1. i \in 1..n
      BY <1>1, <1>5
    <3> QED BY <1>1, <1>2, <3>1
  <2>4. m <= n + 1
    BY <1>1, <1>2, <1>4
  <2> QED BY <1>1, <1>2, <2>1, <2>2, <2>3, <2>4 DEF EndsAre, t, f
<1>6. CASE b = NL
  <2>1. f = Append(e, n + 1)
    BY <1>3, <1>6
  <2> HIDE DEF t, e, n
  <2>2. f \in Seq(Nat) /\ Len(f) = m + 1 /\ f[m + 1] = n + 1 /\ \A k \in 1..m : f[k] = e[k]
    BY <1>1, <1>2, <2>1
  <2> HIDE DEF f, m
  <2>0. \A k \in 1..(m + 1) : k \in 1..m \/ k = m + 1
    BY <1>4
  <2>3. \A k \in 1..(m + 1) : f[k] \in 1..(n + 1) /\ t[f[k]] = NL
    <3> TAKE k \in 1..(m + 1)
    <3>1. CASE k \in 1..m
      <4>1. f[k] = e[k] /\ e[k] \in 1..n /\ s[e[k]] = NL
        BY <1>2, <2>2, <3>1
      <4> QED BY <1>1, <4>1
    <3>2. CASE k = m + 1
      BY <1>1, <1>6, <2>2, <3>2
    <3> QED BY <2>0, <3>1, <3>2
  <2>4. \A k \in 1..(m + 1), l \in 1..(m + 1) : k < l => f[k] < f[l]
    <3> TAKE k \in 1..(m + 1), l \in 1..(m + 1)
    <3> HAVE k < l
    <3>1. k \in 1..m
      BY <1>4
    <3>2. CASE l \in 1..m
      BY <1>2, <2>2, <3>1, <3>2
    <3>3. CASE l = m + 1
      <4>1. f[k] = e[k] /\ e[k] \in 1..n
        BY <1>2, <2>2, <3>1
      <4> QED BY <1>1, <2>2, <3>3, <4>1
    <3> QED BY <2>0, <3>2, <3>3
  <2>5. \A i \in 1..(n + 1) : t[i] = NL => \E k \in 1..(m + 1) : f[k] = i
    <3> TAKE i \in 1..(n + 1)
    <3> HAVE t[i] = NL
    <3>1. CASE i = n + 1
      <4>1. m + 1 \in 1..(m + 1)
        BY <1>4
      <4> QED BY <2>2, <3>1, <4>1
    <3>2. CASE i \in 1..n
      <4>1. s[i] = NL
        BY <1>1, <3>2
      <4>2. PICK k \in 1..m : e[k] = i
        BY <1>2, <3>2, <4>1
      <4>3. k \in 1..(m + 1) /\ f[k] = i
        BY <1>4, <2>2, <4>2
      <4> QED BY <4>3
    <3> QED BY <1>1, <3>1, <3>2
  <2>6. m + 1 <= n + 1
    BY <1>1, <1>2, <1>4
  <2> QED BY <1>1, <2>2, <2>3, <2>4, <2>5, <2>6 DEF EndsAre, t, f
<1> QED BY <1>5, <1>6

\* The ends of every text are so.
LEMMA EndsResult ==
  ASSUME NEW S, NEW s \in Seq(S)
  PROVE  EndsAre(s)
<1> DEFINE T == {j \in 0..Len(s) : EndsAre(SubSeq(s, 1, j))}
<1>1. EndsAre(<<>>)
  <2> DEFINE e == <<>>
  <2>1. LineEnds(<<>>) = e
    BY EndsEmpty
  <2>2. e \in Seq(Nat) /\ Len(e) = 0 /\ 0 <= 0
    OBVIOUS
  <2>3. \A k \in 1..0 : FALSE
    OBVIOUS
  <2> HIDE DEF e
  <2>4. Len(<<>>) = 0
    OBVIOUS
  <2> QED BY <2>1, <2>2, <2>3, <2>4 DEF EndsAre
<1>2. SubSeq(s, 1, 0) = <<>>
  BY SubSeqEmpty
<1>3. ASSUME NEW j \in 1..Len(s), j - 1 \in T PROVE j \in T
  <2> DEFINE a == SubSeq(s, 1, j - 1)
  <2>1. SubSeq(s, 1, j) = Append(a, s[j]) /\ a \in Seq(S) /\ s[j] \in S
    BY PrefixGrows
  <2>2. EndsAre(a)
    BY <1>3
  <2> HIDE DEF a
  <2>3. EndsAre(Append(a, s[j]))
    BY <2>1, <2>2, EndsAreGrow
  <2>4. EndsAre(SubSeq(s, 1, j))
    BY <2>1, <2>3, Zenon
  <2>5. j \in 0..Len(s)
    OBVIOUS
  <2> QED BY <2>4, <2>5, Zenon
<1>4. Len(s) \in Nat /\ 0 \in T
  <2>1. Len(s) \in Nat /\ 0 \in 0..Len(s)
    OBVIOUS
  <2>2. EndsAre(SubSeq(s, 1, 0))
    BY <1>1, <1>2, Zenon
  <2> QED BY <2>1, <2>2, Zenon
<1>5. Len(s) \in T
  <2>1. InductiveUpTo(Len(s), T)
    <3> HIDE DEF T
    <3> QED BY <1>3, <1>4 DEF InductiveUpTo
  <2>2. Len(s) \in 0..Len(s)
    BY <1>4
  <2> HIDE DEF T
  <2> QED BY <1>4, <2>1, <2>2, IntervalInduction
<1>6. SubSeq(s, 1, Len(s)) = s
  BY SubSeqFull
<1> QED BY <1>5, <1>6

\* The ends of two texts put together.
EndsJoin(s, t, st) ==
  /\ Len(LineEnds(st)) = Len(LineEnds(s)) + Len(LineEnds(t))
  /\ \A k \in 1..Len(LineEnds(s)) : LineEnds(st)[k] = LineEnds(s)[k]
  /\ \A k \in 1..Len(LineEnds(t)) :
       LineEnds(st)[Len(LineEnds(s)) + k] = Len(s) + LineEnds(t)[k]

\* The ends of a text put together from two.
LEMMA EndsConcat ==
  ASSUME NEW S, NEW s \in Seq(S), NEW t \in Seq(S)
  PROVE  EndsJoin(s, t, s \o t)
<1> DEFINE Ends(u) ==
             /\ Len(LineEnds(s \o u)) = Len(LineEnds(s)) + Len(LineEnds(u))
             /\ \A k \in 1..Len(LineEnds(s)) : LineEnds(s \o u)[k] = LineEnds(s)[k]
             /\ \A k \in 1..Len(LineEnds(u)) :
                  LineEnds(s \o u)[Len(LineEnds(s)) + k] = Len(s) + LineEnds(u)[k]
           T == {j \in 0..Len(t) : Ends(SubSeq(t, 1, j))}
<1>0. \A u \in Seq(S) : LineEnds(u) \in Seq(Nat) /\ Len(LineEnds(u)) \in Nat
  <2> TAKE u \in Seq(S)
  <2>1. LineEnds(u) \in Seq(Nat)
    BY EndsResult DEF EndsAre
  <2> QED BY <2>1
<1>1. Ends(<<>>)
  <2>1. LineEnds(<<>>) = <<>> /\ s \o <<>> = s /\ Len(<<>>) = 0
    BY EndsEmpty, ConcatEmptySeq
  <2> QED BY <1>0, <2>1
<1>2. SubSeq(t, 1, 0) = <<>>
  BY SubSeqEmpty
<1>3. ASSUME NEW u \in Seq(S), NEW b \in S, Ends(u) PROVE Ends(Append(u, b))
  <2>1. s \o Append(u, b) = Append(s \o u, b)
    OBVIOUS
  <2>2. s \o u \in Seq(S) /\ Len(s \o u) = Len(s) + Len(u) /\ Len(s) \in Nat /\ Len(u) \in Nat
    OBVIOUS
  <2> DEFINE e == LineEnds(s)
             f == LineEnds(u)
             g == LineEnds(s \o u)
             h == LineEnds(Append(u, b))
             i == LineEnds(s \o Append(u, b))
             m == Len(e)
             n == Len(f)
  <2>3. h = IF b = NL THEN Append(f, Len(u) + 1) ELSE f
    BY EndsGrow
  <2>4. i = IF b = NL THEN Append(g, Len(s) + Len(u) + 1) ELSE g
    <3> DEFINE w == s \o u
    <3>1. w \in Seq(S) /\ Len(w) = Len(s) + Len(u)
      BY <2>2
    <3> HIDE DEF w
    <3>2. LineEnds(Append(w, b)) = IF b = NL THEN Append(LineEnds(w), Len(w) + 1) ELSE LineEnds(w)
      BY <3>1, EndsGrow
    <3> QED BY <2>1, <3>1, <3>2 DEF w
  <2>5. /\ Len(g) = m + n /\ \A k \in 1..m : g[k] = e[k]
        /\ \A k \in 1..n : g[m + k] = Len(s) + f[k]
    BY <1>3
  <2>6. e \in Seq(Nat) /\ f \in Seq(Nat) /\ g \in Seq(Nat) /\ m \in Nat /\ n \in Nat
    BY <1>0, <2>2
  <2> SUFFICES /\ Len(i) = m + Len(h)
               /\ \A k \in 1..m : i[k] = e[k]
               /\ \A k \in 1..Len(h) : i[m + k] = Len(s) + h[k]
    OBVIOUS
  <2> HIDE DEF e, f, g, h, i, m, n, Ends
  <2>7. CASE b # NL
    BY <2>3, <2>4, <2>5, <2>7 DEF n
  <2>8. CASE b = NL
    <3>1. /\ h = Append(f, Len(u) + 1) /\ i = Append(g, Len(s) + Len(u) + 1)
      BY <2>3, <2>4, <2>8
    <3>2. Len(h) = n + 1 /\ h[n + 1] = Len(u) + 1 /\ \A k \in 1..n : h[k] = f[k]
      BY <2>2, <2>6, <3>1 DEF n
    <3>3. /\ Len(i) = m + n + 1 /\ i[m + n + 1] = Len(s) + Len(u) + 1
          /\ \A k \in 1..(m + n) : i[k] = g[k]
      <4> DEFINE z == Len(s) + Len(u) + 1
      <4>1. z \in Nat /\ Len(g) = m + n
        BY <2>2, <2>5
      <4>2. i = Append(g, z)
        BY <3>1
      <4> HIDE DEF z
      <4>3. /\ Len(i) = Len(g) + 1 /\ i[Len(g) + 1] = z
            /\ \A k \in 1..Len(g) : i[k] = g[k]
        BY <2>6, <4>1, <4>2, AppendProperties, SMTT(20)
      <4> QED BY <4>1, <4>3 DEF z
    <3>4. \A k \in 1..m : i[k] = e[k]
      <4>1. \A k \in 1..m : k \in 1..(m + n)
        BY <2>6
      <4> QED BY <2>5, <3>3, <4>1
    <3>5. \A k \in 1..(n + 1) : i[m + k] = Len(s) + h[k]
      <4> TAKE k \in 1..(n + 1)
      <4>1. CASE k = n + 1
        <5>1. m + k = m + n + 1 /\ Len(s) + Len(u) + 1 = Len(s) + (Len(u) + 1)
          BY <2>2, <2>6, <4>1
        <5> QED BY <3>2, <3>3, <4>1, <5>1
      <4>2. CASE k # n + 1
        <5>1. k \in 1..n /\ m + k \in 1..(m + n)
          BY <2>6, <4>2
        <5> QED BY <2>5, <3>2, <3>3, <5>1
      <4> QED BY <4>1, <4>2
    <3> QED BY <2>6, <3>2, <3>3, <3>4, <3>5
  <2> QED BY <2>7, <2>8
<1>4. ASSUME NEW j \in 1..Len(t), j - 1 \in T PROVE j \in T
  <2> DEFINE a == SubSeq(t, 1, j - 1)
  <2>1. SubSeq(t, 1, j) = Append(a, t[j]) /\ a \in Seq(S) /\ t[j] \in S
    BY PrefixGrows
  <2>2. Ends(a)
    BY <1>4
  <2> HIDE DEF a, Ends
  <2>3. Ends(Append(a, t[j]))
    BY <1>3, <2>1, <2>2
  <2>4. Ends(SubSeq(t, 1, j))
    BY <2>1, <2>3, Zenon
  <2>5. j \in 0..Len(t)
    OBVIOUS
  <2> QED BY <2>4, <2>5, Zenon
<1>5. Len(t) \in Nat /\ 0 \in T
  <2> HIDE DEF Ends
  <2>1. Len(t) \in Nat /\ 0 \in 0..Len(t)
    OBVIOUS
  <2>2. Ends(SubSeq(t, 1, 0))
    BY <1>1, <1>2, Zenon
  <2> QED BY <2>1, <2>2, Zenon
<1>6. Len(t) \in T
  <2>1. InductiveUpTo(Len(t), T)
    <3> HIDE DEF T
    <3> QED BY <1>4, <1>5 DEF InductiveUpTo
  <2>2. Len(t) \in 0..Len(t)
    BY <1>5
  <2> HIDE DEF T
  <2> QED BY <1>5, <2>1, <2>2, IntervalInduction
<1>7. SubSeq(t, 1, Len(t)) = t
  BY SubSeqFull
<1>8. Ends(t)
  <2> HIDE DEF Ends
  <2> QED BY <1>6, <1>7
<1> QED BY <1>8 DEF EndsJoin

-----------------------------------------------------------------------------
(***************************************************************************)
(* The block of the reader.                                                 *)
(***************************************************************************)

\* The readers that differ from o in their block alone.
Readers(o) ==
  [nlines : {o.nlines}, checkpoints : {o.checkpoints}, cache : {o.cache},
   blockPos : Nat, blockBuf : Seq(Byte), seqLine : {o.seqLine}, seqPos : {o.seqPos}]

BlockOf(o, f) ==
  /\ o.blockPos + Len(o.blockBuf) <= Len(f)
  /\ o.blockBuf = SubSeq(f, o.blockPos + 1, o.blockPos + Len(o.blockBuf))

\* What such a reader shares with o.
LEMMA ReadersFacts ==
  ASSUME NEW o, NEW r \in Readers(o)
  PROVE  /\ r.nlines = o.nlines /\ r.checkpoints = o.checkpoints /\ r.cache = o.cache
         /\ r.seqLine = o.seqLine /\ r.seqPos = o.seqPos
         /\ r.blockPos \in Nat /\ r.blockBuf \in Seq(Byte)
BY DEF Readers

\* A block that is read is a piece of the file from pos on, empty only at its end.
LEMMA LoadedResult ==
  ASSUME NEW f \in Seq(Byte), NEW o, NEW s \in Readers(o), BlockOf(s, f), NEW pos \in 0..Len(f)
  PROVE  LET r == Loaded(s, f, pos)
             c == blockAt(r, pos)
         IN  /\ r \in Readers(o) /\ BlockOf(r, f)
             /\ c \in Seq(Byte) /\ pos + Len(c) \in pos..Len(f)
             /\ c = SubSeq(f, pos + 1, pos + Len(c))
             /\ pos < Len(f) => Len(c) > 0
<1> DEFINE r == Loaded(s, f, pos)
           c == blockAt(r, pos)
           bp == s.blockPos
           bb == s.blockBuf
<1>1. Len(f) \in Nat /\ pos \in Nat /\ bp \in Nat /\ bb \in Seq(Byte) /\ Len(bb) \in Nat
  BY ReadersFacts
<1>2. bp + Len(bb) <= Len(f) /\ bb = SubSeq(f, bp + 1, bp + Len(bb))
  BY DEF BlockOf
<1>3. CASE InBlock(s, pos)
  <2>1. r = s
    BY <1>3 DEF Loaded
  <2>2. pos >= bp /\ pos < bp + Len(bb)
    BY <1>3 DEF InBlock
  <2> DEFINE e == bp + Len(bb)
             i == bp + 1
             m == pos - bp + 1
  <2>3. c = SubSeq(bb, m, Len(bb))
    BY <2>1 DEF blockAt
  <2> HIDE DEF bp, bb, r, c
  <2>4. c = SubSeq(f, pos + 1, e)
    <3>1. i \in 1..Len(f) /\ e \in 1..Len(f) /\ m \in 1..(e - i + 1) /\ Len(bb) \in 1..(e - i + 1)
      BY <1>1, <1>2, <2>2
    <3>2. i + m - 1 = pos + 1 /\ i + Len(bb) - 1 = e
      BY <1>1
    <3>3. SubSeq(SubSeq(f, i, e), m, Len(bb)) = SubSeq(f, i + m - 1, i + Len(bb) - 1)
      <4> HIDE DEF i, m, e
      <4> QED BY <1>1, <3>1, SubSeqOfSubSeq
    <3>4. bb = SubSeq(f, i, e)
      BY <1>2
    <3> HIDE DEF i, m, e
    <3> QED BY <2>3, <3>2, <3>3, <3>4
  <2>5. e \in pos..Len(f) /\ e > pos
    BY <1>1, <1>2, <2>2
  <2> HIDE DEF e
  <2>6. c \in Seq(Byte) /\ Len(c) = e - pos
    BY <2>4, <2>5, PieceOf
  <2>7. pos + Len(c) = e
    BY <1>1, <2>5, <2>6
  <2>8. Len(c) > 0
    BY <1>1, <2>5, <2>6
  <2> QED BY <2>1, <2>4, <2>5, <2>6, <2>7, <2>8 DEF r, c
<1>4. CASE ~ InBlock(s, pos)
  <2> DEFINE e == IF pos + Chunk > Len(f) THEN Len(f) ELSE pos + Chunk
             b == SubSeq(f, pos + 1, e)
  <2>1. e \in pos..Len(f) /\ (pos < Len(f) => e > pos)
    BY <1>1, OriginalAssumption
  <2>2. b = ReadAt(f, pos)
    BY DEF ReadAt
  <2> HIDE DEF e
  <2>3. b \in Seq(Byte) /\ Len(b) = e - pos
    BY <2>1, PieceOf
  <2>4. r = [s EXCEPT !.blockPos = pos, !.blockBuf = b]
    BY <1>4, <2>2 DEF Loaded
  <2>5. r \in Readers(o) /\ r.blockPos = pos /\ r.blockBuf = b
    <3> HIDE DEF b, r
    <3>1. b \in Seq(Byte) /\ pos \in Nat
      BY <1>1, <2>3
    <3> QED BY <2>4, <3>1 DEF Readers
  <2>6. pos + Len(b) = e
    BY <1>1, <2>1, <2>3
  <2> HIDE DEF r
  <2>7. c = b
    <3>1. c = SubSeq(b, pos - pos + 1, Len(b))
      BY <2>5 DEF blockAt
    <3>2. pos - pos + 1 = 1
      BY <1>1
    <3>3. SubSeq(b, 1, Len(b)) = b
      <4> HIDE DEF b
      <4> QED BY <2>3, SubSeqFull
    <3> HIDE DEF b, c
    <3> QED BY <3>1, <3>2, <3>3
  <2>8. BlockOf(r, f)
    <3>1. pos + Len(b) <= Len(f)
      BY <1>1, <2>1, <2>6
    <3>2. b = SubSeq(f, pos + 1, pos + Len(b))
      BY <2>6
    <3> HIDE DEF b
    <3> QED BY <2>5, <3>1, <3>2 DEF BlockOf
  <2>9. pos < Len(f) => Len(b) > 0
    BY <1>1, <2>1, <2>3
  <2>10. b = SubSeq(f, pos + 1, pos + Len(b))
    BY <2>6
  <2> HIDE DEF b, c
  <2> QED BY <2>1, <2>3, <2>5, <2>6, <2>7, <2>8, <2>9, <2>10 DEF r, c
<1> QED BY <1>3, <1>4

\* The newlines in the first p bytes.
Count(f, p) == Len(LineEnds(SubSeq(f, 1, p)))

\* Where line n starts.
Start(f, n) == IF n = 0 THEN 0 ELSE LineEnds(f)[n]

\* The ends in a piece of a text are ends in the text.
PieceEnds(f, p, e, c) ==
  /\ Count(f, p) \in Nat /\ Count(f, p) <= Len(LineEnds(f))
  /\ Count(f, e) = Count(f, p) + Len(LineEnds(c)) /\ Len(LineEnds(c)) \in Nat
  /\ \A k \in 1..Count(f, p) : LineEnds(f)[k] \in 1..p
  /\ \A k \in 1..Len(LineEnds(c)) :
       /\ Count(f, p) + k <= Len(LineEnds(f))
       /\ LineEnds(f)[Count(f, p) + k] = p + LineEnds(c)[k]
       /\ LineEnds(c)[k] \in 1..Len(c)

\* The ends of a file up to and within a piece of it.
LEMMA ChunkEnds ==
  ASSUME NEW S, NEW f \in Seq(S), NEW p \in 0..Len(f), NEW e \in p..Len(f),
         NEW c, c = SubSeq(f, p + 1, e)
  PROVE  PieceEnds(f, p, e, c)
<1> DEFINE a == SubSeq(f, 1, p)
           b == SubSeq(f, 1, e)
           d == SubSeq(f, e + 1, Len(f))
           A == LineEnds(a)
           B == LineEnds(b)
           C == LineEnds(c)
           E == LineEnds(f)
<1>0. Len(f) \in Nat /\ p \in Nat /\ e \in Nat /\ p <= e /\ e <= Len(f)
  OBVIOUS
<1>1. a \in Seq(S) /\ Len(a) = p
  <2>1. p \in 0..Len(f) /\ 0 \in 0..Len(f) /\ p \in 0..Len(f)
    BY <1>0
  <2>2. SubSeq(f, 0 + 1, p) \in Seq(S) /\ Len(SubSeq(f, 0 + 1, p)) = p - 0
    BY <2>1, PieceOf
  <2> QED BY <1>0, <2>2
<1>2. b \in Seq(S) /\ Len(b) = e
  <2>1. e \in 0..Len(f) /\ 0 \in 0..Len(f)
    BY <1>0
  <2>2. SubSeq(f, 0 + 1, e) \in Seq(S) /\ Len(SubSeq(f, 0 + 1, e)) = e - 0
    BY <2>1, PieceOf
  <2> QED BY <1>0, <2>2
<1>3. c \in Seq(S) /\ Len(c) = e - p
  BY PieceOf
<1>4. d \in Seq(S)
  <2>1. e \in 0..Len(f) /\ Len(f) \in e..Len(f)
    BY <1>0
  <2> QED BY <2>1, PieceOf
<1>5. b = a \o c
  <2>1. 1 \in 1..(Len(f) + 1) /\ p \in (1 - 1)..Len(f) /\ e \in p..Len(f)
    BY <1>0
  <2>2. SubSeq(f, 1, p) \o SubSeq(f, p + 1, e) = SubSeq(f, 1, e)
    BY <2>1, ConcatAdjacentSubSeq
  <2> QED BY <2>2
<1>6. f = b \o d
  <2>1. 1 \in 1..(Len(f) + 1) /\ e \in (1 - 1)..Len(f) /\ Len(f) \in e..Len(f)
    BY <1>0
  <2>2. SubSeq(f, 1, e) \o SubSeq(f, e + 1, Len(f)) = SubSeq(f, 1, Len(f))
    BY <2>1, ConcatAdjacentSubSeq
  <2> QED BY <2>2, SubSeqFull
<1>7. Count(f, p) = Len(A) /\ Count(f, e) = Len(B)
  BY DEF Count
<1> HIDE DEF a, b, d
<1>8. /\ Len(B) = Len(A) + Len(C)
      /\ \A k \in 1..Len(A) : B[k] = A[k]
      /\ \A k \in 1..Len(C) : B[Len(A) + k] = Len(a) + C[k]
  <2>1. EndsJoin(a, c, a \o c)
    BY <1>1, <1>3, EndsConcat
  <2>2. EndsJoin(a, c, b)
    BY <1>5, <2>1
  <2> QED BY <2>2 DEF EndsJoin
<1>9. Len(E) = Len(B) + Len(LineEnds(d)) /\ \A k \in 1..Len(B) : E[k] = B[k]
  <2>1. EndsJoin(b, d, b \o d)
    BY <1>2, <1>4, EndsConcat
  <2>2. EndsJoin(b, d, f)
    BY <1>6, <2>1
  <2> QED BY <2>2 DEF EndsJoin
<1>10. /\ Len(A) \in Nat /\ Len(C) \in Nat /\ Len(B) \in Nat /\ Len(LineEnds(d)) \in Nat
       /\ \A k \in 1..Len(A) : A[k] \in 1..Len(a)
       /\ \A k \in 1..Len(C) : C[k] \in 1..Len(c)
  <2>1. EndsAre(a) /\ EndsAre(b) /\ EndsAre(c) /\ EndsAre(d)
    BY <1>1, <1>2, <1>3, <1>4, EndsResult
  <2>2. A \in Seq(Nat) /\ B \in Seq(Nat) /\ C \in Seq(Nat) /\ LineEnds(d) \in Seq(Nat)
    BY <2>1 DEF EndsAre
  <2> QED BY <2>1, <2>2 DEF EndsAre
<1> HIDE DEF A, B, C, E
<1>11. Len(A) <= Len(E) /\ Len(B) <= Len(E)
  BY <1>8, <1>9, <1>10
<1>12. ASSUME NEW k \in 1..Len(A) PROVE E[k] \in 1..p
  <2>1. k \in 1..Len(B)
    BY <1>8, <1>10
  <2> QED BY <1>1, <1>8, <1>9, <1>10, <2>1
<1>13. ASSUME NEW k \in 1..Len(C)
       PROVE  Len(A) + k <= Len(E) /\ E[Len(A) + k] = p + C[k] /\ C[k] \in 1..Len(c)
  <2>1. Len(A) + k \in 1..Len(B)
    BY <1>8, <1>10
  <2>2. Len(A) + k <= Len(E)
    BY <1>10, <1>11, <2>1
  <2> QED BY <1>1, <1>8, <1>9, <1>10, <2>1, <2>2
<1> QED BY <1>7, <1>8, <1>10, <1>11, <1>12, <1>13 DEF A, B, C, E, PieceEnds

\* As many newlines are before a line as lines.
LEMMA CountStart ==
  ASSUME NEW S, NEW f \in Seq(S), NEW n \in 0..Len(LineEnds(f))
  PROVE  Start(f, n) \in 0..Len(f) /\ Count(f, Start(f, n)) = n
<1> DEFINE E == LineEnds(f)
           p == Start(f, n)
           q == Count(f, p)
<1>0. Len(f) \in Nat
  OBVIOUS
<1>1. /\ E \in Seq(Nat) /\ Len(E) \in Nat
      /\ \A k \in 1..Len(E) : E[k] \in 1..Len(f)
      /\ \A k \in 1..Len(E), l \in 1..Len(E) : k < l => E[k] < E[l]
  <2>1. EndsAre(f)
    BY EndsResult
  <2>2. E \in Seq(Nat)
    BY <2>1 DEF EndsAre
  <2> QED BY <2>1, <2>2 DEF EndsAre
<1>2. p \in 0..Len(f)
  BY <1>0, <1>1 DEF Start
<1> DEFINE c == SubSeq(f, p + 1, Len(f))
<1>3. /\ q \in Nat /\ q <= Len(E)
      /\ Count(f, Len(f)) = q + Len(LineEnds(c))
      /\ \A k \in 1..q : E[k] \in 1..p
      /\ \A k \in 1..Len(LineEnds(c)) :
           /\ q + k <= Len(E) /\ E[q + k] = p + LineEnds(c)[k]
           /\ LineEnds(c)[k] \in 1..Len(c)
  <2>1. Len(f) \in p..Len(f)
    BY <1>0, <1>2
  <2>2. PieceEnds(f, p, Len(f), c)
    <3> HIDE DEF p
    <3> QED BY <1>2, <2>1, ChunkEnds
  <2> QED BY <2>2 DEF PieceEnds
<1>4. Count(f, Len(f)) = Len(E)
  <2>1. SubSeq(f, 1, Len(f)) = f
    BY SubSeqFull
  <2> QED BY <2>1 DEF Count
<1>5. Len(LineEnds(c)) \in Nat /\ Len(c) \in Nat
  <2>1. c \in Seq(S)
    <3>1. Len(f) \in p..Len(f)
      BY <1>0, <1>2
    <3> HIDE DEF p
    <3> QED BY <1>2, <3>1, PieceOf
  <2> HIDE DEF c
  <2>2. LineEnds(c) \in Seq(Nat)
    BY <2>1, EndsResult DEF EndsAre
  <2> QED BY <2>1, <2>2
<1>6. n = 0 => p = 0
  BY DEF Start
<1>7. n # 0 => p = E[n] /\ n \in 1..Len(E)
  BY <1>1 DEF Start
<1> HIDE DEF E, p, q, c
<1>8. ASSUME q < n PROVE FALSE
  <2>1. n - q \in 1..Len(LineEnds(c)) /\ q + (n - q) = n
    BY <1>1, <1>3, <1>4, <1>5, <1>8 DEF E
  <2>2. n # 0
    BY <1>3, <1>8
  <2>3. E[n] = p + LineEnds(c)[n - q] /\ LineEnds(c)[n - q] \in 1..Len(c)
    BY <1>3, <2>1
  <2> QED BY <1>0, <1>2, <1>5, <1>7, <2>2, <2>3
<1>9. ASSUME q > n PROVE FALSE
  <2>1. q \in 1..q /\ q \in 1..Len(E)
    BY <1>3, <1>9
  <2>2. E[q] \in 1..p
    BY <1>3, <2>1
  <2>3. n # 0
    BY <1>6, <2>2
  <2>4. E[n] < E[q]
    BY <1>1, <1>7, <1>9, <2>1, <2>3
  <2> QED BY <1>2, <1>7, <2>2, <2>3, <2>4
<1> QED BY <1>2, <1>3, <1>8, <1>9 DEF p, q, E

-----------------------------------------------------------------------------
(***************************************************************************)
(* The loop that skips lines.                                               *)
(***************************************************************************)

\* On the way to line n of f: the newlines passed and those left are n.
Skipping(o, f, n) ==
  {s \in [o : Readers(o), pos : 0..Len(f), n : Nat] :
     /\ BlockOf(s.o, f) /\ Count(f, s.pos) + s.n = n
     /\ s.n = 0 => s.pos = Start(f, n)}

\* A round of the loop stays on the way, and comes to its end or on.
LEMMA SkipStep ==
  ASSUME NEW f \in Seq(Byte), NEW n \in 0..Len(LineEnds(f)), NEW o, NEW s \in Skipping(o, f, n)
  PROVE  LET t == SkipBlock(s, f)
         IN  t \in Skipping(o, f, n) /\ (t.n = 0 \/ t.pos > s.pos)
<1> DEFINE t == SkipBlock(s, f)
           r == Loaded(s.o, f, s.pos)
           c == blockAt(r, s.pos)
           ends == LineEnds(c)
           p == s.pos
           k == Count(f, p)
<1> SUFFICES t \in Skipping(o, f, n) /\ (t.n = 0 \/ t.pos > p)
  OBVIOUS
<1>1. /\ s.o \in Readers(o) /\ p \in 0..Len(f) /\ s.n \in Nat
      /\ BlockOf(s.o, f) /\ k + s.n = n /\ (s.n = 0 => p = Start(f, n))
  BY DEF Skipping
<1>2. CASE s.n = 0
  <2>1. t = s
    BY <1>2 DEF SkipBlock
  <2> HIDE DEF t
  <2> QED BY <1>2, <2>1
<1>3. CASE s.n # 0
  <2>1. Len(f) \in Nat /\ Len(LineEnds(f)) \in Nat /\ s.n > 0 /\ ~ (s.n <= 0)
    <3>1. LineEnds(f) \in Seq(Nat)
      BY EndsResult DEF EndsAre
    <3> QED BY <1>1, <1>3, <3>1
  <2>2. /\ r \in Readers(o) /\ BlockOf(r, f)
        /\ c \in Seq(Byte) /\ p + Len(c) \in p..Len(f)
        /\ c = SubSeq(f, p + 1, p + Len(c))
        /\ p < Len(f) => Len(c) > 0
    <3> DEFINE so == s.o
    <3>1. so \in Readers(o) /\ BlockOf(so, f)
      BY <1>1
    <3> HIDE DEF so
    <3>2. LET x == Loaded(so, f, p)
              d == blockAt(x, p)
          IN  /\ x \in Readers(o) /\ BlockOf(x, f)
              /\ d \in Seq(Byte) /\ p + Len(d) \in p..Len(f)
              /\ d = SubSeq(f, p + 1, p + Len(d))
              /\ p < Len(f) => Len(d) > 0
      <4>1. p \in 0..Len(f)
        BY <1>1
      <4> HIDE DEF p
      <4> QED BY <3>1, <4>1, LoadedResult
    <3> QED BY <3>2 DEF so
  <2>3. PieceEnds(f, p, p + Len(c), c)
    <3> HIDE DEF p, c
    <3> QED BY <1>1, <2>2, ChunkEnds
  <2>4. /\ k \in Nat /\ Count(f, p + Len(c)) = k + Len(ends) /\ Len(ends) \in Nat
        /\ \A i \in 1..Len(ends) :
             /\ k + i <= Len(LineEnds(f)) /\ LineEnds(f)[k + i] = p + ends[i]
             /\ ends[i] \in 1..Len(c)
    BY <2>3 DEF PieceEnds
  <2>5. t = IF Len(ends) >= s.n THEN [o |-> r, pos |-> p + ends[s.n], n |-> 0]
            ELSE [o |-> r, pos |-> p + Len(c), n |-> s.n - Len(ends)]
    BY <2>1 DEF SkipBlock
  <2>6. Len(c) \in Nat
    BY <2>2
  <2>7. CASE Len(ends) >= s.n
    <3> DEFINE e == p + ends[s.n]
    <3>1. s.n \in 1..Len(ends)
      BY <1>1, <2>1, <2>4, <2>7
    <3>2. e = LineEnds(f)[n] /\ ends[s.n] \in 1..Len(c)
      BY <1>1, <2>4, <3>1
    <3>3. n # 0
      BY <1>1, <2>1, <2>4
    <3>4. e = Start(f, n) /\ e > p
      BY <1>1, <2>6, <3>2, <3>3 DEF Start
    <3>5. e \in 0..Len(f) /\ Count(f, e) = n
      BY <3>4, CountStart
    <3>6. t = [o |-> r, pos |-> e, n |-> 0]
      BY <2>5, <2>7
    <3> HIDE DEF t, r, e
    <3>7. t.o = r /\ t.pos = e /\ t.n = 0 /\ t \in [o : Readers(o), pos : 0..Len(f), n : Nat]
      BY <2>2, <3>5, <3>6
    <3> QED BY <2>2, <3>4, <3>5, <3>7 DEF Skipping
  <2>8. CASE ~ (Len(ends) >= s.n)
    <3> DEFINE e == p + Len(c)
               m == s.n - Len(ends)
    <3>1. p < Len(f)
      <4> SUFFICES ASSUME ~ (p < Len(f)) PROVE FALSE
        OBVIOUS
      <4>1. p = Len(f)
        BY <1>1, <2>1
      <4>2. Count(f, Len(f)) = Len(LineEnds(f))
        <5>1. SubSeq(f, 1, Len(f)) = f
          BY SubSeqFull
        <5> QED BY <5>1 DEF Count
      <4>3. k = Len(LineEnds(f))
        BY <4>1, <4>2
      <4> HIDE DEF k
      <4> QED BY <1>1, <2>1, <2>4, <4>3
    <3>2. e > p /\ e \in 0..Len(f)
      BY <1>1, <2>1, <2>2, <2>6, <3>1
    <3>3. m \in Nat /\ m # 0 /\ Count(f, e) + m = n
      BY <1>1, <2>4, <2>8
    <3>6. t = [o |-> r, pos |-> e, n |-> m]
      BY <2>5, <2>8
    <3> HIDE DEF t, r, e, m
    <3>7. t.o = r /\ t.pos = e /\ t.n = m /\ t \in [o : Readers(o), pos : 0..Len(f), n : Nat]
      BY <2>2, <3>2, <3>3, <3>6
    <3> QED BY <2>2, <3>2, <3>3, <3>7 DEF Skipping
  <2> QED BY <2>7, <2>8
<1> QED BY <1>2, <1>3

SkipOver(o, f, pos, n, u) ==
  u = [i \in 0..Len(f) |-> IF i = 0 THEN [o |-> o, pos |-> pos, n |-> n]
                           ELSE SkipBlock(u[i - 1], f)]

SkipFun(o, f, pos, n) == CHOOSE u : SkipOver(o, f, pos, n, u)

\* The function of the rounds exists.
LEMMA SkipExists ==
  ASSUME NEW f \in Seq(Byte), NEW to \in 0..Len(LineEnds(f)), NEW o, NEW pos, NEW n,
         [o |-> o, pos |-> pos, n |-> n] \in Skipping(o, f, to)
  PROVE  \E u : SkipOver(o, f, pos, n, u)
<1> DEFINE B == Skipping(o, f, to)
           N == Len(f)
           s == [o |-> o, pos |-> pos, n |-> n]
           F == [i \in 1..N |-> [x \in B |-> SkipBlock(x, f)]]
<1>1. N \in Nat
  OBVIOUS
<1>2. \A x \in B : SkipBlock(x, f) \in B
  BY SkipStep
<1>3. s \in B
  OBVIOUS
<1> HIDE DEF B, s, N
<1>4. F \in Stepper(N, B)
  BY <1>2 DEF Stepper
<1>5. \A i \in 1..N, x \in B : F[i][x] = SkipBlock(x, f)
  OBVIOUS
<1> HIDE DEF F
<1>6. PICK u \in [0..N -> B] : IsCourse(u, N, s, F)
  BY <1>1, <1>3, <1>4, CourseExists
<1>7. u[0] = s /\ \A i \in 1..N : u[i] = SkipBlock(u[i - 1], f)
  <2>1. \A i \in 1..N : u[i - 1] \in B
    BY <1>1
  <2> QED BY <1>5, <1>6, <2>1 DEF IsCourse
<1>8. \A i \in 0..N : u[i] = IF i = 0 THEN s ELSE SkipBlock(u[i - 1], f)
  <2>1. \A i \in 0..N : i = 0 \/ i \in 1..N
    BY <1>1
  <2> QED BY <1>7, <2>1
<1>9. u = [i \in 0..N |-> IF i = 0 THEN s ELSE SkipBlock(u[i - 1], f)]
  <2>1. u = [i \in 0..N |-> u[i]]
    BY <1>6
  <2> QED BY <1>8, <2>1
<1> QED BY <1>9 DEF SkipOver, N, s

\* The loop ends at the start of the line it looks for.
LEMMA SkipResult ==
  ASSUME NEW f \in Seq(Byte), NEW to \in 0..Len(LineEnds(f)), NEW o, NEW pos, NEW n,
         [o |-> o, pos |-> pos, n |-> n] \in Skipping(o, f, to)
  PROVE  LET r == Skip(o, f, pos, n)
         IN  r.o \in Readers(o) /\ BlockOf(r.o, f) /\ r.pos = Start(f, to)
<1> DEFINE B == Skipping(o, f, to)
           N == Len(f)
           s == [o |-> o, pos |-> pos, n |-> n]
           u == SkipFun(o, f, pos, n)
           T == {i \in 0..N : u[i] \in B /\ (u[i].n = 0 \/ u[i].pos >= i)}
<1>1. Skip(o, f, pos, n) = u[N]
  BY Zenon DEF Skip, SkipFun, SkipOver
<1>2. SkipOver(o, f, pos, n, u)
  BY SkipExists DEF SkipFun
<1> HIDE DEF u
<1>3. \A i \in 0..N : u[i] = IF i = 0 THEN s ELSE SkipBlock(u[i - 1], f)
  BY <1>2 DEF SkipOver
<1>4. N \in Nat /\ s \in B
  OBVIOUS
<1>5. 0 \in T
  <2>1. u[0] = s /\ 0 \in 0..N
    BY <1>3, <1>4
  <2>2. s.pos \in 0..Len(f)
    BY <1>4 DEF Skipping
  <2> HIDE DEF s, B
  <2> QED BY <1>4, <2>1, <2>2
<1>6. ASSUME NEW i \in 1..N, i - 1 \in T PROVE i \in T
  <2>1. u[i] = SkipBlock(u[i - 1], f) /\ u[i - 1] \in B /\ i \in 0..N
    BY <1>3, <1>4, <1>6
  <2> DEFINE x == u[i - 1]
             y == SkipBlock(x, f)
  <2>2. y \in B /\ (y.n = 0 \/ y.pos > x.pos)
    <3> HIDE DEF x
    <3> QED BY <2>1, SkipStep DEF x
  <2>3. x.n = 0 => y.n = 0
    <3>1. x.n = 0 => y = x
      BY DEF SkipBlock
    <3> HIDE DEF y, x
    <3> QED BY <3>1
  <2>4. x.pos \in Nat /\ y.pos \in Nat
    <3> HIDE DEF y, x
    <3> QED BY <1>4, <2>1, <2>2 DEF x, Skipping
  <2>5. x.n = 0 \/ x.pos >= i - 1
    BY <1>6
  <2> HIDE DEF x, y, B
  <2>6. y.n = 0 \/ y.pos >= i
    BY <2>2, <2>3, <2>4, <2>5
  <2> QED BY <2>1, <2>2, <2>6 DEF x, y
<1>7. N \in T
  <2>1. InductiveUpTo(N, T)
    <3> HIDE DEF T
    <3> QED BY <1>5, <1>6 DEF InductiveUpTo
  <2>2. N \in 0..N
    BY <1>4
  <2> HIDE DEF T
  <2> QED BY <1>4, <2>1, <2>2, IntervalInduction
<1> DEFINE r == u[N]
<1>8. r \in B /\ (r.n = 0 \/ r.pos >= N)
  BY <1>7
<1> HIDE DEF r
<1>9. /\ r.o \in Readers(o) /\ r.pos \in 0..N /\ r.n \in Nat /\ BlockOf(r.o, f)
      /\ Count(f, r.pos) + r.n = to /\ (r.n = 0 => r.pos = Start(f, to))
  BY <1>8 DEF Skipping
<1>10. r.n = 0
  <2> SUFFICES ASSUME r.n # 0 PROVE FALSE
    OBVIOUS
  <2>1. r.pos = N
    BY <1>4, <1>8, <1>9
  <2>2. Count(f, N) = Len(LineEnds(f))
    <3>1. SubSeq(f, 1, Len(f)) = f
      BY SubSeqFull
    <3> QED BY <3>1 DEF Count
  <2>3. LineEnds(f) \in Seq(Nat)
    BY EndsResult DEF EndsAre
  <2> QED BY <1>9, <2>1, <2>2, <2>3
<1> QED BY <1>1, <1>9, <1>10 DEF r

-----------------------------------------------------------------------------
(***************************************************************************)
(* The loop that reads a line.                                              *)
(***************************************************************************)

\* The end of the line that p is in, and the offset behind its newline.
Stop(f, p) == IF Count(f, p) < Len(LineEnds(f)) THEN LineEnds(f)[Count(f, p) + 1] - 1 ELSE Len(f)
Behind(f, p) == IF Count(f, p) < Len(LineEnds(f)) THEN LineEnds(f)[Count(f, p) + 1] ELSE Len(f)

\* On the way from p to the end of its line.
Reading(o, f, p) ==
  {s \in [o : Readers(o), pos : p..Len(f), text : Seq(Byte), done : BOOLEAN] :
     /\ BlockOf(s.o, f)
     /\ ~ s.done => s.text = SubSeq(f, p + 1, s.pos) /\ Count(f, s.pos) = Count(f, p)
     /\ s.done => s.text = SubSeq(f, p + 1, Stop(f, p)) /\ s.pos = Behind(f, p)}

\* A round of the loop reads on, or is done.
LEMMA ContentStep ==
  ASSUME NEW f \in Seq(Byte), NEW start \in 0..Len(f), NEW o, NEW s \in Reading(o, f, start)
  PROVE  LET t == ContentBlock(s, f)
         IN  t \in Reading(o, f, start) /\ (t.done \/ t.pos > s.pos)
<1> DEFINE t == ContentBlock(s, f)
           p == s.pos
           x == s.text
           r == Loaded(s.o, f, p)
           c == blockAt(r, p)
           ends == LineEnds(c)
           k == Count(f, p)
           RT == [o : Readers(o), pos : start..Len(f), text : Seq(Byte), done : BOOLEAN]
<1> SUFFICES t \in Reading(o, f, start) /\ (t.done \/ t.pos > p)
  OBVIOUS
<1>1. /\ s.o \in Readers(o) /\ p \in start..Len(f) /\ x \in Seq(Byte) /\ s.done \in BOOLEAN
      /\ BlockOf(s.o, f) /\ s \in RT
      /\ ~ s.done => x = SubSeq(f, start + 1, p) /\ k = Count(f, start)
  BY DEF Reading
<1>2. CASE s.done
  <2>1. t = s
    BY <1>2 DEF ContentBlock
  <2> HIDE DEF t
  <2> QED BY <1>2, <2>1
<1>3. CASE ~ s.done
  <2>0. x = SubSeq(f, start + 1, p) /\ k = Count(f, start)
    BY <1>1, <1>3
  <2>1. Len(f) \in Nat /\ Len(LineEnds(f)) \in Nat /\ p \in 0..Len(f)
    <3>1. LineEnds(f) \in Seq(Nat)
      BY EndsResult DEF EndsAre
    <3> QED BY <1>1, <3>1
  <2>2. /\ r \in Readers(o) /\ BlockOf(r, f)
        /\ c \in Seq(Byte) /\ p + Len(c) \in p..Len(f)
        /\ c = SubSeq(f, p + 1, p + Len(c))
        /\ p < Len(f) => Len(c) > 0
    <3> DEFINE so == s.o
    <3>1. so \in Readers(o) /\ BlockOf(so, f)
      BY <1>1
    <3> HIDE DEF so
    <3>2. LET y == Loaded(so, f, p)
              d == blockAt(y, p)
          IN  /\ y \in Readers(o) /\ BlockOf(y, f)
              /\ d \in Seq(Byte) /\ p + Len(d) \in p..Len(f)
              /\ d = SubSeq(f, p + 1, p + Len(d))
              /\ p < Len(f) => Len(d) > 0
      <4>1. p \in 0..Len(f)
        BY <2>1
      <4> HIDE DEF p
      <4> QED BY <3>1, <4>1, LoadedResult
    <3> QED BY <3>2 DEF so
  <2>3. PieceEnds(f, p, p + Len(c), c)
    <3> HIDE DEF p, c
    <3> QED BY <2>1, <2>2, ChunkEnds
  <2>4. /\ k \in Nat /\ Count(f, p + Len(c)) = k + Len(ends) /\ Len(ends) \in Nat
        /\ \A i \in 1..Len(ends) :
             /\ k + i <= Len(LineEnds(f)) /\ LineEnds(f)[k + i] = p + ends[i]
             /\ ends[i] \in 1..Len(c)
    BY <2>3 DEF PieceEnds
  <2>5. t = IF c = <<>> THEN [s EXCEPT !.o = r, !.done = TRUE]
            ELSE IF ends = <<>> THEN [s EXCEPT !.o = r, !.pos = @ + Len(c), !.text = @ \o c]
            ELSE [o |-> r, pos |-> p + ends[1], text |-> x \o SubSeq(c, 1, ends[1] - 1),
                  done |-> TRUE]
    BY <1>3 DEF ContentBlock
  <2>6. Len(c) \in Nat /\ (c = <<>> <=> Len(c) = 0)
    BY <2>2
  <2>7. CASE c = <<>>
    <3>1. p = Len(f)
      BY <2>1, <2>2, <2>6, <2>7
    <3>2. Count(f, Len(f)) = Len(LineEnds(f))
      <4>1. SubSeq(f, 1, Len(f)) = f
        BY SubSeqFull
      <4> QED BY <4>1 DEF Count
    <3>3. Stop(f, start) = p /\ Behind(f, start) = p
      <4>1. Count(f, start) = Len(LineEnds(f))
        BY <2>0, <3>1, <3>2
      <4> QED BY <2>1, <3>1, <4>1 DEF Stop, Behind
    <3>4. t = [s EXCEPT !.o = r, !.done = TRUE]
      BY <2>5, <2>7
    <3>5. x = SubSeq(f, start + 1, Stop(f, start))
      BY <2>0, <3>3
    <3> HIDE DEF t, r
    <3>6. t \in RT /\ t.o = r /\ t.done = TRUE /\ t.pos = p /\ t.text = x
      BY <1>1, <2>2, <3>4
    <3> HIDE DEF x, p
    <3> QED BY <2>2, <3>3, <3>5, <3>6 DEF Reading
  <2>8. CASE c # <<>> /\ ends = <<>>
    <3> DEFINE e == p + Len(c)
               y == x \o c
    <3>1. Len(ends) = 0
      <4>1. Len(<<>>) = 0
        OBVIOUS
      <4> QED BY <2>8, <4>1
    <3>2. e > p /\ e \in start..Len(f)
      BY <1>1, <2>1, <2>2, <2>6, <2>8
    <3>3. Count(f, e) = Count(f, start)
      BY <2>0, <2>4, <3>1
    <3>4. y = SubSeq(f, start + 1, e) /\ y \in Seq(Byte)
      <4>1. start + 1 \in 1..(Len(f) + 1) /\ p \in ((start + 1) - 1)..Len(f) /\ e \in p..Len(f)
        BY <1>1, <2>1, <3>2
      <4> HIDE DEF e, p, x, c
      <4>2. SubSeq(f, start + 1, p) \o SubSeq(f, p + 1, e) = SubSeq(f, start + 1, e)
        BY <4>1, ConcatAdjacentSubSeq
      <4>3. c = SubSeq(f, p + 1, e)
        BY <2>2 DEF e
      <4>4. x \o c = SubSeq(f, start + 1, e)
        BY <2>0, <4>2, <4>3
      <4>5. x \o c \in Seq(Byte)
        BY <1>1, <2>2
      <4> QED BY <4>4, <4>5
    <3>5. t = [s EXCEPT !.o = r, !.pos = e, !.text = y]
      BY <2>5, <2>8
    <3> HIDE DEF t, r, e, y
    <3>6. t \in RT /\ t.o = r /\ t.done = s.done /\ t.pos = e /\ t.text = y
      BY <1>1, <2>2, <3>2, <3>4, <3>5
    <3> QED BY <1>3, <2>2, <3>2, <3>3, <3>4, <3>6 DEF Reading
  <2>9. CASE c # <<>> /\ ends # <<>>
    <3> DEFINE m == ends[1] - 1
               e == p + ends[1]
               y == x \o SubSeq(c, 1, m)
    <3>1. 1 \in 1..Len(ends)
      <4>1. ends \in Seq(Nat)
        BY <2>2, EndsResult DEF EndsAre
      <4> HIDE DEF ends
      <4> QED BY <2>9, <4>1
    <3>2. ends[1] \in 1..Len(c) /\ k + 1 <= Len(LineEnds(f)) /\ LineEnds(f)[k + 1] = e
      BY <2>4, <3>1
    <3>3. e > p /\ e \in start..Len(f) /\ m \in 0..Len(c) /\ p + m \in p..Len(f) /\ p + m = e - 1
      BY <1>1, <2>1, <2>2, <2>6, <3>2, SMTT(20)
    <3>4. Stop(f, start) = p + m /\ Behind(f, start) = e
      <4>1. k < Len(LineEnds(f))
        BY <2>1, <2>4, <3>2
      <4> HIDE DEF k, m, e
      <4> QED BY <2>0, <3>2, <3>3, <4>1 DEF Stop, Behind
    <3>5. y = SubSeq(f, start + 1, p + m) /\ y \in Seq(Byte)
      <4> DEFINE d == p + m
                 l == p + Len(c)
      <4>0. start + 1 \in 1..(Len(f) + 1) /\ p \in ((start + 1) - 1)..Len(f) /\ d \in p..Len(f)
        BY <1>1, <2>1, <3>3
      <4>1. m \in 0..(l - p) /\ l \in p..Len(f)
        BY <2>1, <2>2, <2>6, <3>3
      <4> HIDE DEF d, p, x, c, m, l
      <4>2. SubSeq(f, start + 1, p) \o SubSeq(f, p + 1, d) = SubSeq(f, start + 1, d)
        BY <4>0, ConcatAdjacentSubSeq
      <4>3. SubSeq(c, 1, m) = SubSeq(f, p + 1, p + m)
        <5>1. c = SubSeq(f, p + 1, l)
          BY <2>2 DEF l
        <5> QED BY <2>1, <4>1, <5>1, PieceOfPiece
      <4>4. SubSeq(c, 1, m) = SubSeq(f, p + 1, d)
        BY <4>3 DEF d
      <4>5. x \o SubSeq(c, 1, m) = SubSeq(f, start + 1, d)
        BY <2>0, <4>2, <4>4
      <4>6. SubSeq(f, p + 1, d) \in Seq(Byte)
        BY <2>1, <4>0, PieceOf
      <4>7. x \o SubSeq(c, 1, m) \in Seq(Byte)
        <5>1. x \in Seq(Byte) /\ SubSeq(c, 1, m) \in Seq(Byte)
          BY <1>1, <4>4, <4>6
        <5> QED BY <5>1, ConcatProperties
      <4> QED BY <4>5, <4>7 DEF d
    <3>6. t = [o |-> r, pos |-> e, text |-> y, done |-> TRUE]
      BY <2>5, <2>9
    <3> HIDE DEF t, r, e, y
    <3>7. t \in RT /\ t.o = r /\ t.done = TRUE /\ t.pos = e /\ t.text = y
      BY <2>2, <3>3, <3>5, <3>6
    <3>8. y = SubSeq(f, start + 1, Stop(f, start))
      BY <3>4, <3>5
    <3> QED BY <2>2, <3>4, <3>7, <3>8 DEF Reading
  <2> QED BY <2>7, <2>8, <2>9
<1> QED BY <1>2, <1>3

ContentOver(o, f, pos, u) ==
  u = [i \in 0..(Len(f) + 1) |->
         IF i = 0 THEN [o |-> o, pos |-> pos, text |-> <<>>, done |-> FALSE]
         ELSE ContentBlock(u[i - 1], f)]

ContentFun(o, f, pos) == CHOOSE u : ContentOver(o, f, pos, u)

\* The function of the rounds exists.
LEMMA ContentExists ==
  ASSUME NEW f \in Seq(Byte), NEW pos \in 0..Len(f), NEW o,
         [o |-> o, pos |-> pos, text |-> <<>>, done |-> FALSE] \in Reading(o, f, pos)
  PROVE  \E u : ContentOver(o, f, pos, u)
<1> DEFINE B == Reading(o, f, pos)
           N == Len(f) + 1
           s == [o |-> o, pos |-> pos, text |-> <<>>, done |-> FALSE]
           F == [i \in 1..N |-> [x \in B |-> ContentBlock(x, f)]]
<1>1. N \in Nat
  OBVIOUS
<1>2. \A x \in B : ContentBlock(x, f) \in B
  BY ContentStep
<1>3. s \in B
  OBVIOUS
<1> HIDE DEF B, s, N
<1>4. F \in Stepper(N, B)
  BY <1>2 DEF Stepper
<1>5. \A i \in 1..N, x \in B : F[i][x] = ContentBlock(x, f)
  OBVIOUS
<1> HIDE DEF F
<1>6. PICK u \in [0..N -> B] : IsCourse(u, N, s, F)
  BY <1>1, <1>3, <1>4, CourseExists
<1>7. u[0] = s /\ \A i \in 1..N : u[i] = ContentBlock(u[i - 1], f)
  <2>1. \A i \in 1..N : u[i - 1] \in B
    BY <1>1
  <2> QED BY <1>5, <1>6, <2>1 DEF IsCourse
<1>8. \A i \in 0..N : u[i] = IF i = 0 THEN s ELSE ContentBlock(u[i - 1], f)
  <2>1. \A i \in 0..N : i = 0 \/ i \in 1..N
    BY <1>1
  <2> QED BY <1>7, <2>1
<1>9. u = [i \in 0..N |-> IF i = 0 THEN s ELSE ContentBlock(u[i - 1], f)]
  <2>1. u = [i \in 0..N |-> u[i]]
    BY <1>6
  <2> QED BY <1>8, <2>1
<1> QED BY <1>9 DEF ContentOver, N, s

\* The loop ends behind the line, and has read it.
LEMMA ContentResult ==
  ASSUME NEW f \in Seq(Byte), NEW pos \in 0..Len(f), NEW o, o \in Readers(o), BlockOf(o, f)
  PROVE  LET r == Content(o, f, pos)
         IN  /\ r.o \in Readers(o) /\ BlockOf(r.o, f) /\ r.text \in Seq(Byte)
             /\ r.text = SubSeq(f, pos + 1, Stop(f, pos)) /\ r.pos = Behind(f, pos)
<1> DEFINE B == Reading(o, f, pos)
           N == Len(f) + 1
           s == [o |-> o, pos |-> pos, text |-> <<>>, done |-> FALSE]
           u == ContentFun(o, f, pos)
           T == {i \in 0..N : u[i] \in B /\ (u[i].done \/ u[i].pos >= i)}
<1>1. Content(o, f, pos) = u[N]
  BY Zenon DEF Content, ContentFun, ContentOver
<1>2. s \in B
  <2>1. SubSeq(f, pos + 1, pos) = <<>> /\ <<>> \in Seq(Byte) /\ pos \in pos..Len(f)
    BY SubSeqEmpty
  <2> DEFINE z == <<>>
  <2>2. z \in Seq(Byte) /\ SubSeq(f, pos + 1, pos) = z
    BY <2>1
  <2> HIDE DEF z
  <2>3. /\ [o |-> o, pos |-> pos, text |-> z, done |-> FALSE] \in
             [o : Readers(o), pos : pos..Len(f), text : Seq(Byte), done : BOOLEAN]
    BY <2>1, <2>2
  <2>4. [o |-> o, pos |-> pos, text |-> z, done |-> FALSE] \in B
    BY <2>2, <2>3 DEF Reading
  <2> QED BY <2>4 DEF z
<1>3. ContentOver(o, f, pos, u)
  <2> HIDE DEF B
  <2>1. [o |-> o, pos |-> pos, text |-> <<>>, done |-> FALSE] \in Reading(o, f, pos)
    BY <1>2 DEF B
  <2> QED BY <2>1, ContentExists DEF ContentFun
<1> HIDE DEF u
<1>4. \A i \in 0..N : u[i] = IF i = 0 THEN s ELSE ContentBlock(u[i - 1], f)
  BY <1>3 DEF ContentOver
<1>5. N \in Nat /\ Len(f) \in Nat
  OBVIOUS
<1>6. 0 \in T
  <2>0. 0 \in 0..N
    BY <1>5
  <2>1. u[0] = s
    <3> HIDE DEF s, N
    <3> QED BY <1>4, <2>0
  <2>2. s.pos \in 0..Len(f)
    OBVIOUS
  <2> HIDE DEF s, B, N
  <2> QED BY <1>2, <1>5, <2>0, <2>1, <2>2
<1>7. ASSUME NEW i \in 1..N, i - 1 \in T PROVE i \in T
  <2>1. u[i] = ContentBlock(u[i - 1], f) /\ u[i - 1] \in B /\ i \in 0..N
    BY <1>4, <1>5, <1>7
  <2> DEFINE x == u[i - 1]
             y == ContentBlock(x, f)
  <2>2. y \in B /\ (y.done \/ y.pos > x.pos)
    <3> HIDE DEF x
    <3> QED BY <2>1, ContentStep DEF x
  <2>3. x.done => y.done
    <3>1. x.done => y = x
      BY DEF ContentBlock
    <3> HIDE DEF y, x
    <3> QED BY <3>1
  <2>4. x.pos \in Nat /\ y.pos \in Nat /\ x.done \in BOOLEAN /\ y.done \in BOOLEAN
    <3> HIDE DEF y, x
    <3> QED BY <1>5, <2>1, <2>2 DEF x, Reading
  <2>5. x.done \/ x.pos >= i - 1
    BY <1>7
  <2> HIDE DEF x, y, B, N
  <2>6. y.done \/ y.pos >= i
    BY <2>2, <2>3, <2>4, <2>5
  <2> QED BY <2>1, <2>2, <2>6 DEF x, y
<1>8. N \in T
  <2>1. InductiveUpTo(N, T)
    <3> HIDE DEF T
    <3> QED BY <1>6, <1>7 DEF InductiveUpTo
  <2>2. N \in 0..N
    BY <1>5
  <2> HIDE DEF T, N
  <2> QED BY <1>5, <2>1, <2>2, IntervalInduction
<1> DEFINE r == u[N]
<1>9. r \in B /\ (r.done \/ r.pos >= N)
  BY <1>8
<1> HIDE DEF r
<1>10. /\ r.o \in Readers(o) /\ r.pos \in pos..Len(f) /\ r.text \in Seq(Byte) /\ BlockOf(r.o, f)
       /\ r.done => r.text = SubSeq(f, pos + 1, Stop(f, pos)) /\ r.pos = Behind(f, pos)
  BY <1>9 DEF Reading
<1>11. r.done
  BY <1>5, <1>9, <1>10
<1> QED BY <1>1, <1>10, <1>11 DEF r

-----------------------------------------------------------------------------
(***************************************************************************)
(* The file: it grows behind the end it had when it was opened, and only    *)
(* when that is the end of a line.                                          *)
(***************************************************************************)

Grown(f, g) == \E t \in Seq(Byte) : f = g \o t /\ (t = <<>> \/ Complete(g))

\* The lines of a file are as many as it has ends, and one without an end.
LineCount(g) == IF g = <<>> \/ Complete(g) THEN Len(LineEnds(g)) ELSE Len(LineEnds(g)) + 1

\* Line n of the file as it was opened, found in the file as it is now.
LineAt(f, g, n) ==
  /\ Start(f, n) \in 0..Len(f) /\ Count(f, Start(f, n)) = n
  /\ SubSeq(f, Start(f, n) + 1, Stop(f, Start(f, n))) = LinesOf(g)[n + 1]
  /\ Behind(f, Start(f, n)) = IF n < Len(LineEnds(g)) THEN LineEnds(g)[n + 1] ELSE Len(g)

\* The starts of the lines of the file as it was opened are what they were.
OldEnds(f, g) ==
  /\ Len(LineEnds(g)) \in Nat /\ Len(LineEnds(g)) <= Len(LineEnds(f)) /\ Len(LineEnds(f)) \in Nat
  /\ \A k \in 1..Len(LineEnds(g)) : LineEnds(f)[k] = LineEnds(g)[k]
  /\ \A n \in 0..Len(LineEnds(g)) : Start(f, n) = Start(g, n)

\* What the file held when it was opened keeps its ends.
LEMMA GrownEnds ==
  ASSUME NEW g \in Seq(Byte), NEW f, Grown(f, g)
  PROVE  OldEnds(f, g) /\ f \in Seq(Byte)
<1>1. PICK t \in Seq(Byte) : f = g \o t
  BY DEF Grown
<1>2. EndsJoin(g, t, g \o t)
  BY EndsConcat
<1>3. EndsJoin(g, t, f)
  BY <1>1, <1>2
<1>4. LineEnds(g) \in Seq(Nat) /\ LineEnds(t) \in Seq(Nat)
  BY EndsResult DEF EndsAre
<1>5. /\ Len(LineEnds(f)) = Len(LineEnds(g)) + Len(LineEnds(t))
      /\ \A k \in 1..Len(LineEnds(g)) : LineEnds(f)[k] = LineEnds(g)[k]
  BY <1>3 DEF EndsJoin
<1>6. Len(LineEnds(g)) \in Nat /\ Len(LineEnds(t)) \in Nat
  BY <1>4
<1>7. \A n \in 0..Len(LineEnds(g)) : Start(f, n) = Start(g, n)
  BY <1>5, <1>6 DEF Start
<1>8. f \in Seq(Byte)
  BY <1>1
<1> QED BY <1>5, <1>6, <1>7, <1>8 DEF OldEnds

\* A piece of the file as it was opened is that piece of the file as it is now.
LEMMA GrownPiece ==
  ASSUME NEW g \in Seq(Byte), NEW f, Grown(f, g), NEW p \in 0..Len(g), NEW e \in p..Len(g)
  PROVE  SubSeq(f, p + 1, e) = SubSeq(g, p + 1, e) /\ Len(g) <= Len(f) /\ Len(g) \in Nat
<1>1. PICK t \in Seq(Byte) : f = g \o t
  BY DEF Grown
<1>2. /\ f \in Seq(Byte) /\ Len(g) \in Nat /\ Len(g) <= Len(f) /\ Len(f) \in Nat
      /\ \A i \in 1..Len(g) : f[i] = g[i]
  BY <1>1
<1> DEFINE a == SubSeq(f, p + 1, e)
           b == SubSeq(g, p + 1, e)
<1>3. a \in Seq(Byte) /\ Len(a) = e - p /\ \A i \in 1..(e - p) : a[i] = f[p + i]
  <2>1. p \in 0..Len(f) /\ e \in p..Len(f)
    BY <1>2
  <2> QED BY <1>2, <2>1, PieceOf
<1>4. b \in Seq(Byte) /\ Len(b) = e - p /\ \A i \in 1..(e - p) : b[i] = g[p + i]
  BY PieceOf
<1> HIDE DEF a, b
<1>5. \A i \in 1..(e - p) : a[i] = b[i]
  <2> TAKE i \in 1..(e - p)
  <2>1. p + i \in 1..Len(g)
    BY <1>2
  <2> QED BY <1>2, <1>3, <1>4, <2>1
<1>6. a = b
  BY <1>3, <1>4, <1>5, SeqEqual
<1> QED BY <1>2, <1>6 DEF a, b

\* The last newline of a file that ends in one is behind its last byte.
LEMMA CompleteEnds ==
  ASSUME NEW g \in Seq(Byte), Complete(g)
  PROVE  Len(LineEnds(g)) > 0 /\ LineEnds(g)[Len(LineEnds(g))] = Len(g)
<1> DEFINE E == LineEnds(g)
<1>1. /\ E \in Seq(Nat) /\ Len(E) \in Nat
      /\ \A k \in 1..Len(E) : E[k] \in 1..Len(g) /\ g[E[k]] = NL
      /\ \A k \in 1..Len(E), l \in 1..Len(E) : k < l => E[k] < E[l]
      /\ \A i \in 1..Len(g) : g[i] = NL => \E k \in 1..Len(E) : E[k] = i
  <2>1. EndsAre(g)
    BY EndsResult
  <2>2. E \in Seq(Nat)
    BY <2>1 DEF EndsAre
  <2> QED BY <2>1, <2>2 DEF EndsAre
<1>2. Len(g) \in Nat \ {0} /\ g[Len(g)] = NL
  <2>1. g # <<>> /\ Last(g) = NL
    BY DEF Complete
  <2> QED BY <2>1, FrontLast
<1> HIDE DEF E
<1>3. PICK k \in 1..Len(E) : E[k] = Len(g)
  BY <1>1, <1>2
<1>4. k = Len(E)
  <2> SUFFICES ASSUME k < Len(E) PROVE FALSE
    BY <1>1
  <2>1. Len(E) \in 1..Len(E)
    BY <1>1
  <2>2. E[k] < E[Len(E)] /\ E[Len(E)] \in 1..Len(g)
    BY <1>1, <2>1
  <2> QED BY <1>2, <1>3, <2>2
<1> QED BY <1>1, <1>3, <1>4 DEF E

\* The lines of a file, one by one.
LineIs(g, n) ==
  /\ n < Len(LineEnds(g)) =>
       LinesOf(g)[n + 1] = SubSeq(g, Start(g, n) + 1, LineEnds(g)[n + 1] - 1)
  /\ n = Len(LineEnds(g)) => LinesOf(g)[n + 1] = SubSeq(g, Start(g, n) + 1, Len(g))

\* The lines of a file lie between its ends.
LEMMA LinesResult ==
  ASSUME NEW g \in Seq(Byte)
  PROVE  /\ DOMAIN LinesOf(g) = 1..LineCount(g) /\ LineCount(g) \in Nat
         /\ \A n \in 0..(LineCount(g) - 1) : LineIs(g, n)
<1> DEFINE E == LineEnds(g)
           last == IF g = <<>> \/ Complete(g) THEN <<>> ELSE <<Len(g) + 1>>
           z == <<0>>
           a == z \o E
           ends == a \o last
<1>1. E \in Seq(Nat) /\ Len(E) \in Nat /\ Len(g) \in Nat
  <2>1. E \in Seq(Nat)
    BY EndsResult DEF EndsAre
  <2> QED BY <2>1
<1>2. LinesOf(g) = [i \in 1..(Len(ends) - 1) |-> SubSeq(g, ends[i] + 1, ends[i + 1] - 1)]
  BY DEF LinesOf
<1>3. last \in Seq(Nat) /\ Len(last) = (IF g = <<>> \/ Complete(g) THEN 0 ELSE 1)
      /\ (Len(last) = 1 => last[1] = Len(g) + 1)
  <2>1. Len(g) + 1 \in Nat
    BY <1>1
  <2>2. CASE g = <<>> \/ Complete(g)
    <3> DEFINE y == <<>>
    <3>1. y \in Seq(Nat) /\ Len(y) = 0
      OBVIOUS
    <3>2. last = y
      BY <2>2
    <3> HIDE DEF y, last
    <3> QED BY <2>2, <3>1, <3>2
  <2>3. CASE ~ (g = <<>> \/ Complete(g))
    <3> DEFINE m == Len(g) + 1
               y == <<m>>
    <3>0. m \in Nat
      BY <1>1
    <3> HIDE DEF m
    <3>1. y \in Seq(Nat) /\ Len(y) = 1 /\ y[1] = m
      BY <3>0
    <3>2. last = y
      BY <2>3 DEF m
    <3> HIDE DEF y, last
    <3> QED BY <2>3, <3>1, <3>2 DEF m
  <2> QED BY <2>2, <2>3
<1>4. z \in Seq(Nat) /\ Len(z) = 1 /\ z[1] = 0
  OBVIOUS
<1> HIDE DEF E, last, z
<1>5. /\ a \in Seq(Nat) /\ Len(a) = 1 + Len(E) /\ a[1] = 0
      /\ \A i \in 1..Len(E) : a[i + 1] = E[i]
  <2>0. IsJoint(Nat, z, E, a)
    BY <1>1, <1>4, JoinedIs
  <2> HIDE DEF a
  <2>1. a \in Seq(Nat) /\ Len(a) = 1 + Len(E)
    BY <1>1, <1>4, <2>0 DEF IsJoint
  <2>2. \A i \in 1..(1 + Len(E)) : a[i] = IF i <= 1 THEN z[i] ELSE E[i - 1]
    BY <1>1, <1>4, <2>0 DEF IsJoint
  <2>3. a[1] = 0
    BY <1>1, <1>4, <2>2
  <2>4. ASSUME NEW i \in 1..Len(E) PROVE a[i + 1] = E[i]
    <3>1. i + 1 \in 1..(1 + Len(E)) /\ ~ (i + 1 <= 1) /\ (i + 1) - 1 = i
      BY <1>1
    <3> QED BY <2>2, <3>1
  <2> QED BY <2>1, <2>3, <2>4
<1> HIDE DEF a
<1>6. /\ ends \in Seq(Nat) /\ Len(ends) = 1 + Len(E) + Len(last)
      /\ \A i \in 1..(1 + Len(E)) : ends[i] = a[i]
      /\ Len(last) = 1 => ends[Len(E) + 2] = Len(g) + 1
  <2>0. IsJoint(Nat, a, last, ends)
    BY <1>3, <1>5, JoinedIs
  <2> HIDE DEF ends
  <2>1. ends \in Seq(Nat) /\ Len(ends) = 1 + Len(E) + Len(last)
    BY <1>1, <1>3, <1>5, <2>0 DEF IsJoint
  <2>2. \A i \in 1..(Len(a) + Len(last)) : ends[i] = IF i <= Len(a) THEN a[i] ELSE last[i - Len(a)]
    BY <1>3, <1>5, <2>0 DEF IsJoint
  <2>3. \A i \in 1..(1 + Len(E)) : ends[i] = a[i]
    BY <1>1, <1>3, <1>5, <2>2, SMTT(20)
  <2>4. ASSUME Len(last) = 1 PROVE ends[Len(E) + 2] = Len(g) + 1
    <3>1. Len(E) + 2 \in 1..(Len(a) + Len(last)) /\ ~ (Len(E) + 2 <= Len(a)) /\ (Len(E) + 2) - Len(a) = 1
      BY <1>1, <1>5, <2>4
    <3> QED BY <1>3, <2>2, <2>4, <3>1
  <2> QED BY <2>1, <2>3, <2>4
<1> HIDE DEF ends
<1>7. LineCount(g) = Len(ends) - 1 /\ LineCount(g) \in Nat /\ LineCount(g) = Len(E) + Len(last)
  BY <1>1, <1>3, <1>6 DEF LineCount, E
<1>8. DOMAIN LinesOf(g) = 1..LineCount(g)
  BY <1>2, <1>7
<1>9. ASSUME NEW n \in 0..(LineCount(g) - 1) PROVE LineIs(g, n)
  <2>0. n \in Nat /\ n + 1 \in 1..LineCount(g) /\ n + 1 \in 1..(Len(ends) - 1) /\ (n + 1) + 1 = n + 2
    BY <1>7
  <2>1. LinesOf(g)[n + 1] = SubSeq(g, ends[n + 1] + 1, ends[n + 2] - 1)
    BY <1>2, <2>0
  <2>2. ends[n + 1] = Start(g, n)
    <3>1. n + 1 \in 1..(1 + Len(E))
      BY <1>1, <1>3, <1>7, <2>0
    <3>2. n = 0 \/ n \in 1..Len(E)
      BY <1>1, <3>1
    <3>3. CASE n = 0
      BY <1>5, <1>6, <3>1, <3>3 DEF Start
    <3>4. CASE n # 0
      BY <1>5, <1>6, <3>1, <3>2, <3>4 DEF Start, E
    <3> QED BY <3>3, <3>4
  <2>3. ASSUME n < Len(E) PROVE ends[n + 2] = E[n + 1]
    <3>1. n + 2 \in 1..(1 + Len(E)) /\ n + 1 \in 1..Len(E) /\ (n + 1) + 1 = n + 2
      BY <1>1, <2>0, <2>3
    <3> QED BY <1>5, <1>6, <3>1
  <2>4. ASSUME n = Len(E) PROVE ends[n + 2] - 1 = Len(g)
    <3>1. Len(last) = 1
      BY <1>1, <1>3, <1>7, <2>0, <2>4
    <3> QED BY <1>1, <1>6, <2>4, <3>1
  <2> QED BY <2>1, <2>2, <2>3, <2>4 DEF LineIs, E
<1> QED BY <1>7, <1>8, <1>9

\* What the ends of a file say of the starts of its lines.
LEMMA StartFacts ==
  ASSUME NEW g \in Seq(Byte)
  PROVE  /\ LineEnds(g) \in Seq(Nat) /\ Len(LineEnds(g)) \in Nat /\ Len(g) \in Nat
         /\ \A n \in 0..Len(LineEnds(g)) : Start(g, n) \in 0..Len(g) /\ Count(g, Start(g, n)) = n
         /\ \A n \in 0..(Len(LineEnds(g)) - 1) :
              LineEnds(g)[n + 1] \in 1..Len(g) /\ Start(g, n) < LineEnds(g)[n + 1]
         /\ \A n \in 0..Len(LineEnds(g)), k \in 1..Len(LineEnds(g)) :
              Start(g, n) < LineEnds(g)[k] => n < k
<1> DEFINE E == LineEnds(g)
<1>1. /\ E \in Seq(Nat) /\ Len(E) \in Nat /\ Len(g) \in Nat
      /\ \A k \in 1..Len(E) : E[k] \in 1..Len(g)
      /\ \A k \in 1..Len(E), l \in 1..Len(E) : k < l => E[k] < E[l]
  <2>1. EndsAre(g)
    BY EndsResult
  <2>2. E \in Seq(Nat)
    BY <2>1 DEF EndsAre
  <2> QED BY <2>1, <2>2 DEF EndsAre
<1>2. \A n \in 0..Len(E) : Start(g, n) \in 0..Len(g) /\ Count(g, Start(g, n)) = n
  BY CountStart
<1>3. \A n \in 0..Len(E) : Start(g, n) = IF n = 0 THEN 0 ELSE E[n]
  BY DEF Start
<1> HIDE DEF E
<1>4. ASSUME NEW n \in 0..(Len(E) - 1) PROVE E[n + 1] \in 1..Len(g) /\ Start(g, n) < E[n + 1]
  <2>1. n + 1 \in 1..Len(E) /\ n \in 0..Len(E) /\ (n = 0 \/ n \in 1..Len(E)) /\ n < n + 1
    BY <1>1
  <2>2. E[n + 1] \in 1..Len(g) /\ Start(g, n) = IF n = 0 THEN 0 ELSE E[n]
    BY <1>1, <1>3, <2>1
  <2>3. CASE n = 0
    BY <1>1, <2>2, <2>3
  <2>4. CASE n # 0
    BY <1>1, <2>1, <2>2, <2>4
  <2> QED BY <2>3, <2>4
<1>5. ASSUME NEW n \in 0..Len(E), NEW k \in 1..Len(E), Start(g, n) < E[k] PROVE n < k
  <2> SUFFICES ASSUME ~ (n < k) PROVE FALSE
    OBVIOUS
  <2>1. n \in 1..Len(E) /\ n # 0 /\ (k = n \/ k < n)
    BY <1>1
  <2>2. Start(g, n) = E[n] /\ E[n] \in 1..Len(g) /\ E[k] \in 1..Len(g)
    BY <1>1, <1>3, <2>1
  <2>3. k < n => E[k] < E[n]
    BY <1>1, <2>1
  <2> QED BY <1>1, <1>5, <2>1, <2>2, <2>3
<1> QED BY <1>1, <1>2, <1>4, <1>5 DEF E

\* The lines of the file as it was opened are in the file where they were.
LEMMA LineFound ==
  ASSUME NEW g \in Seq(Byte), NEW f, Grown(f, g), NEW n \in 0..(LineCount(g) - 1)
  PROVE  LineAt(f, g, n)
<1> DEFINE E == LineEnds(g)
           F == LineEnds(f)
           p == Start(g, n)
<1>0. LineIs(g, n) /\ LineCount(g) \in Nat
  BY LinesResult
<1>1. /\ f \in Seq(Byte) /\ Len(E) \in Nat /\ Len(E) <= Len(F) /\ Len(F) \in Nat
      /\ \A k \in 1..Len(E) : F[k] = E[k]
      /\ \A m \in 0..Len(E) : Start(f, m) = Start(g, m)
  BY GrownEnds DEF OldEnds
<1>2. /\ Len(g) \in Nat
      /\ \A m \in 0..Len(E) : Start(g, m) \in 0..Len(g)
      /\ \A m \in 0..(Len(E) - 1) : E[m + 1] \in 1..Len(g) /\ Start(g, m) < E[m + 1]
  BY StartFacts
<1>3. n \in 0..Len(E) /\ n \in Nat
  BY <1>0, <1>1 DEF LineCount
<1>4. p = Start(f, n) /\ p \in 0..Len(g)
  BY <1>1, <1>2, <1>3
<1>5. p \in 0..Len(f) /\ Count(f, p) = n
  <2>1. n \in 0..Len(F)
    BY <1>1, <1>3
  <2> QED BY <1>1, <1>4, <2>1, CountStart
<1> HIDE DEF E, F, p
<1>6. CASE n < Len(E)
  <2>1. n < Len(F) /\ n + 1 \in 1..Len(E) /\ n \in 0..(Len(E) - 1)
    BY <1>1, <1>3, <1>6
  <2>2. F[n + 1] = E[n + 1] /\ E[n + 1] \in 1..Len(g) /\ p < E[n + 1]
    BY <1>1, <1>2, <2>1 DEF p
  <2>3. Stop(f, p) = E[n + 1] - 1 /\ Behind(f, p) = E[n + 1]
    BY <1>5, <2>1, <2>2 DEF Stop, Behind, F
  <2> DEFINE e == E[n + 1] - 1
  <2>4. e \in p..Len(g)
    BY <1>2, <1>4, <2>2
  <2>5. SubSeq(f, p + 1, e) = SubSeq(g, p + 1, e)
    <3> HIDE DEF e
    <3> QED BY <1>4, <2>4, GrownPiece
  <2>6. LinesOf(g)[n + 1] = SubSeq(g, p + 1, e)
    BY <1>0, <1>6 DEF LineIs, E, p
  <2>7. SubSeq(f, p + 1, Stop(f, p)) = LinesOf(g)[n + 1]
    BY <2>3, <2>5, <2>6
  <2> QED BY <1>4, <1>5, <1>6, <2>3, <2>7 DEF LineAt, E
<1>7. CASE n = Len(E)
  <2>1. ~ Complete(g)
    BY <1>0, <1>1, <1>7 DEF LineCount, E
  <2>2. f = g
    <3>1. f = g \o <<>>
      BY <2>1 DEF Grown
    <3> QED BY <3>1, ConcatEmptySeq
  <2>3. F = E /\ ~ (n < Len(F))
    BY <1>1, <1>7, <2>2 DEF E, F
  <2>4. Stop(f, p) = Len(g) /\ Behind(f, p) = Len(g)
    BY <1>5, <2>2, <2>3 DEF Stop, Behind, F
  <2>5. LinesOf(g)[n + 1] = SubSeq(g, p + 1, Len(g))
    BY <1>0, <1>7 DEF LineIs, E, p
  <2>6. SubSeq(f, p + 1, Stop(f, p)) = LinesOf(g)[n + 1]
    BY <2>2, <2>4, <2>5
  <2>7. ~ (n < Len(E))
    BY <1>7, <2>3
  <2> QED BY <1>4, <1>5, <2>4, <2>6, <2>7 DEF LineAt, E
<1> QED BY <1>1, <1>3, <1>6, <1>7

\* The lines of a file are lines, as many as are counted.
LEMMA LinesAreText ==
  ASSUME NEW g \in Seq(Byte)
  PROVE  LinesOf(g) \in Seq(Text) /\ Len(LinesOf(g)) = LineCount(g)
<1> DEFINE E == LineEnds(g)
           L == LinesOf(g)
<1>1. DOMAIN L = 1..LineCount(g) /\ LineCount(g) \in Nat /\ \A n \in 0..(LineCount(g) - 1) : LineIs(g, n)
  BY LinesResult
<1>2. /\ E \in Seq(Nat) /\ Len(E) \in Nat /\ Len(g) \in Nat
      /\ \A n \in 0..Len(E) : Start(g, n) \in 0..Len(g)
      /\ \A n \in 0..(Len(E) - 1) : E[n + 1] \in 1..Len(g) /\ Start(g, n) < E[n + 1]
      /\ \A n \in 0..Len(E), k \in 1..Len(E) : Start(g, n) < E[k] => n < k
  BY StartFacts
<1>3. \A i \in 1..Len(g) : g[i] \in Byte /\ (g[i] = NL => \E k \in 1..Len(E) : E[k] = i)
  BY EndsResult, ElementOfSeq DEF EndsAre
<1>4. \A k \in 1..Len(E), l \in 1..Len(E) : k < l => E[k] < E[l]
  BY EndsResult DEF EndsAre
<1>5. LineCount(g) <= Len(E) + 1
  BY <1>2 DEF LineCount
<1> HIDE DEF E, L
<1>6. ASSUME NEW p \in 0..Len(g), NEW e \in p..Len(g), \A i \in (p + 1)..e : g[i] # NL
      PROVE  SubSeq(g, p + 1, e) \in Text
  <2>1. \A i \in (p + 1)..e : g[i] \in Byte \ {NL}
    <3> TAKE i \in (p + 1)..e
    <3>1. i \in 1..Len(g)
      BY <1>2
    <3> QED BY <1>3, <1>6, <3>1
  <2>2. p + 1 \in Int /\ e \in Int
    BY <1>2
  <2>3. SubSeq(g, p + 1, e) \in Seq(Byte \ {NL})
    BY <2>1, <2>2, SubSeqProperties
  <2> QED BY <2>3 DEF Text
<1>7. ASSUME NEW i \in 1..LineCount(g) PROVE L[i] \in Text
  <2> DEFINE n == i - 1
             p == Start(g, n)
  <2>1. n \in 0..(LineCount(g) - 1) /\ n + 1 = i /\ n \in 0..Len(E)
    BY <1>1, <1>2, <1>5
  <2>2. LineIs(g, n) /\ p \in 0..Len(g)
    BY <1>1, <1>2, <2>1
  <2> HIDE DEF n
  <2>3. CASE n < Len(E)
    <3> DEFINE e == E[n + 1] - 1
    <3>1. n \in 0..(Len(E) - 1) /\ n + 1 \in 1..Len(E) /\ n < n + 1
      BY <1>2, <2>1, <2>3
    <3>2. E[n + 1] \in 1..Len(g) /\ p < E[n + 1]
      BY <1>2, <3>1
    <3>3. e \in p..Len(g)
      BY <1>2, <2>2, <3>2
    <3>4. ASSUME NEW j \in (p + 1)..e, g[j] = NL PROVE FALSE
      <4>1. j \in 1..Len(g) /\ p < j /\ j < E[n + 1]
        BY <1>2, <2>2, <3>2
      <4>2. PICK k \in 1..Len(E) : E[k] = j
        BY <1>3, <3>4, <4>1
      <4>3. n < k
        BY <1>2, <2>1, <4>1, <4>2
      <4>4. k = n + 1 \/ n + 1 < k
        BY <2>1, <4>3
      <4>5. k # n + 1
        BY <4>1, <4>2
      <4>6. E[n + 1] < E[k]
        BY <1>4, <3>1, <4>4, <4>5
      <4> QED BY <1>2, <3>2, <4>1, <4>2, <4>6
    <3>5. SubSeq(g, p + 1, e) \in Text
      <4> HIDE DEF p, e
      <4> QED BY <1>6, <2>2, <3>3, <3>4
    <3>6. L[i] = SubSeq(g, p + 1, e)
      BY <2>1, <2>2, <2>3 DEF LineIs, E, L
    <3> QED BY <3>5, <3>6
  <2>4. CASE n = Len(E)
    <3>1. ASSUME NEW j \in (p + 1)..Len(g), g[j] = NL PROVE FALSE
      <4>1. j \in 1..Len(g) /\ p < j
        BY <1>2, <2>2
      <4>2. PICK k \in 1..Len(E) : E[k] = j
        BY <1>3, <3>1, <4>1
      <4>3. n < k
        BY <1>2, <2>1, <4>1, <4>2
      <4> QED BY <1>2, <2>4, <4>3
    <3>2. Len(g) \in p..Len(g)
      BY <1>2, <2>2
    <3>3. SubSeq(g, p + 1, Len(g)) \in Text
      <4> HIDE DEF p
      <4> QED BY <1>6, <2>2, <3>1, <3>2
    <3>4. L[i] = SubSeq(g, p + 1, Len(g))
      BY <2>1, <2>2, <2>4 DEF LineIs, E, L
    <3> QED BY <3>3, <3>4
  <2> QED BY <1>2, <2>1, <2>3, <2>4
<1>8. \E h : L = [i \in 1..LineCount(g) |-> h[i]]
  <2>1. L = [i \in DOMAIN L |-> L[i]]
    BY DEF L, LinesOf
  <2> QED BY <1>1, <2>1
<1>9. L \in [1..LineCount(g) -> Text]
  <2> HIDE DEF Text
  <2> QED BY <1>7, <1>8
<1>10. L \in Seq(Text) /\ Len(L) = LineCount(g)
  <2> HIDE DEF Text
  <2> QED BY <1>1, <1>9
<1> QED BY <1>10 DEF L

\* StartOf is the start of a line, and behind the last line the end.
LEMMA StartOfIs ==
  ASSUME opened \in Seq(Byte), NEW n \in Nat
  PROVE  StartOf(n) = IF n <= Len(LineEnds(opened)) THEN Start(opened, n) ELSE Len(opened)
<1> DEFINE E == LineEnds(opened)
           z == <<0>>
           a == z \o E
<1>1. E \in Seq(Nat) /\ Len(E) \in Nat
  BY StartFacts
<1>2. z \in Seq(Nat) /\ Len(z) = 1 /\ z[1] = 0
  OBVIOUS
<1>3. StartOf(n) = IF n < Len(a) THEN a[n + 1] ELSE Len(opened)
  BY DEF StartOf
<1> HIDE DEF E, z
<1>4. IsJoint(Nat, z, E, a)
  BY <1>1, <1>2, JoinedIs
<1> HIDE DEF a
<1>5. Len(a) = 1 + Len(E) /\ \A i \in 1..(1 + Len(E)) : a[i] = IF i <= 1 THEN z[i] ELSE E[i - 1]
  BY <1>1, <1>2, <1>4 DEF IsJoint
<1>6. ASSUME n <= Len(E) PROVE a[n + 1] = Start(opened, n)
  <2>1. n + 1 \in 1..(1 + Len(E)) /\ (n + 1) - 1 = n /\ (n + 1 <= 1 <=> n = 0)
    BY <1>1, <1>6
  <2>2. CASE n = 0
    BY <1>2, <1>5, <2>1, <2>2 DEF Start
  <2>3. CASE n # 0
    BY <1>5, <2>1, <2>3 DEF Start, E
  <2> QED BY <2>2, <2>3
<1> QED BY <1>1, <1>3, <1>5, <1>6 DEF E

-----------------------------------------------------------------------------
(***************************************************************************)
(* The list of the cache.                                                   *)
(***************************************************************************)

\* The functions from sets of line numbers.
Maps(S) == UNION {[D -> S] : D \in SUBSET Nat}

CacheT ==
  [m : Maps(Text), prev : Maps(Int), next : Maps(Int), head : Int, tail : Int, runes : Int]

\* A function of that kind.
LEMMA MapFacts ==
  ASSUME NEW S, NEW f \in Maps(S)
  PROVE  DOMAIN f \subseteq Nat /\ \A j \in DOMAIN f : f[j] \in S
BY DEF Maps

\* The map g is f with k mapped to v, and without k.
IsWith(S, f, k, v, g) ==
  /\ g \in Maps(S) /\ DOMAIN g = DOMAIN f \cup {k} /\ g[k] = v
  /\ \A j \in DOMAIN f : j # k => g[j] = f[j]

IsWithout(S, f, k, g) ==
  /\ g \in Maps(S) /\ DOMAIN g = DOMAIN f \ {k}
  /\ \A j \in DOMAIN f : j # k => g[j] = f[j]

\* With adds or changes one entry.
LEMMA WithIs ==
  ASSUME NEW S, NEW f \in Maps(S), NEW k \in Nat, NEW v \in S
  PROVE  IsWith(S, f, k, v, With(f, k, v))
<1>1. DOMAIN f \cup {k} \in SUBSET Nat /\ \A j \in DOMAIN f : f[j] \in S
  BY MapFacts
<1>2. With(f, k, v) \in [DOMAIN f \cup {k} -> S]
  BY <1>1 DEF With
<1>3. With(f, k, v) \in Maps(S)
  BY <1>1, <1>2, Zenon DEF Maps
<1>4. \A j \in DOMAIN f \cup {k} : With(f, k, v)[j] = IF j = k THEN v ELSE f[j]
  BY DEF With
<1> QED BY <1>2, <1>3, <1>4 DEF IsWith

\* Without removes one.
LEMMA WithoutIs ==
  ASSUME NEW S, NEW f \in Maps(S), NEW k
  PROVE  IsWithout(S, f, k, Without(f, k))
<1>1. DOMAIN f \ {k} \in SUBSET Nat /\ \A j \in DOMAIN f : f[j] \in S
  BY MapFacts
<1>2. Without(f, k) \in [DOMAIN f \ {k} -> S]
  BY <1>1 DEF Without
<1>3. Without(f, k) \in Maps(S)
  BY <1>1, <1>2, Zenon DEF Maps
<1>4. \A j \in DOMAIN f \ {k} : Without(f, k)[j] = f[j]
  BY DEF Without
<1> QED BY <1>2, <1>3, <1>4 DEF IsWithout

\* The element at a place of a list; Nil outside it.
At(s, i) == IF i \in 1..Len(s) THEN s[i] ELSE Nil

\* The links of the cache are those of a list.
Chain(c, s) ==
  /\ IsInjective(s) /\ c.head = At(s, 1) /\ c.tail = At(s, Len(s))
  /\ \A i \in 1..Len(s) :
       /\ s[i] \in DOMAIN c.prev /\ c.prev[s[i]] = At(s, i - 1)
       /\ s[i] \in DOMAIN c.next /\ c.next[s[i]] = At(s, i + 1)

\* An entry unlinked leaves the list, and its neighbours are linked.
LEMMA UnlinkResult ==
  ASSUME NEW c \in CacheT, NEW s \in Seq(Nat), Chain(c, s), NEW k \in 1..Len(s)
  PROVE  LET u == unlink(c, s[k])
         IN  /\ u \in CacheT /\ u.m = c.m /\ u.runes = c.runes
             /\ DOMAIN u.prev = DOMAIN c.prev /\ DOMAIN u.next = DOMAIN c.next
             /\ Chain(u, RemoveAt(s, k))
<1> DEFINE e == s[k]
           p == c.prev[e]
           n == c.next[e]
           a == IF n = Nil THEN c.prev ELSE With(c.prev, n, p)
           b == IF p = Nil THEN c.next ELSE With(c.next, p, n)
           pr == With(a, e, Nil)
           ne == With(b, e, Nil)
           hd == IF p = Nil /\ c.head = e THEN n ELSE c.head
           tl == IF n = Nil /\ c.tail = e THEN p ELSE c.tail
           u == unlink(c, e)
           t == RemoveAt(s, k)
           N == Len(s)
<1>1. u = [c EXCEPT !.prev = pr, !.next = ne, !.head = hd, !.tail = tl]
  BY DEF unlink
<1>2. N \in Nat /\ e \in Nat /\ \A i \in 1..N : s[i] \in Nat
  BY ElementOfSeq
<1>3. /\ IsInjective(s) /\ c.head = At(s, 1) /\ c.tail = At(s, N)
      /\ \A i \in 1..N :
           /\ s[i] \in DOMAIN c.prev /\ c.prev[s[i]] = At(s, i - 1)
           /\ s[i] \in DOMAIN c.next /\ c.next[s[i]] = At(s, i + 1)
  BY DEF Chain
<1>4. \A i, j \in 1..N : s[i] = s[j] => i = j
  <2>1. DOMAIN s = 1..N
    OBVIOUS
  <2> QED BY <1>3, <2>1 DEF IsInjective
<1>5. p = At(s, k - 1) /\ n = At(s, k + 1) /\ e \in DOMAIN c.prev /\ e \in DOMAIN c.next
  BY <1>3
<1>6. c.prev \in Maps(Int) /\ c.next \in Maps(Int) /\ c.head \in Int /\ c.tail \in Int
  BY DEF CacheT
<1>7. Nil \in Int /\ \A i \in Nat : i # Nil
  BY DEF Nil
<1>8. /\ p \in Int /\ (p # Nil => k - 1 \in 1..N /\ p = s[k - 1])
      /\ n \in Int /\ (n # Nil => k + 1 \in 1..N /\ n = s[k + 1])
  BY <1>2, <1>5, <1>7 DEF At
<1> HIDE DEF e, p, n
<1>9. /\ a \in Maps(Int) /\ DOMAIN a = DOMAIN c.prev
      /\ \A j \in DOMAIN c.prev : a[j] = IF n # Nil /\ j = n THEN p ELSE c.prev[j]
  <2>1. CASE n = Nil
    BY <1>6, <2>1
  <2>2. CASE n # Nil
    <3>1. n \in Nat /\ n \in DOMAIN c.prev
      BY <1>2, <1>3, <1>8, <2>2
    <3>2. IsWith(Int, c.prev, n, p, a)
      <4>1. IsWith(Int, c.prev, n, p, With(c.prev, n, p))
        BY <1>6, <1>8, <3>1, WithIs
      <4> QED BY <2>2, <4>1
    <3> HIDE DEF a
    <3> QED BY <2>2, <3>1, <3>2 DEF IsWith
  <2> QED BY <2>1, <2>2
<1>10. /\ b \in Maps(Int) /\ DOMAIN b = DOMAIN c.next
       /\ \A j \in DOMAIN c.next : b[j] = IF p # Nil /\ j = p THEN n ELSE c.next[j]
  <2>1. CASE p = Nil
    BY <1>6, <2>1
  <2>2. CASE p # Nil
    <3>1. p \in Nat /\ p \in DOMAIN c.next
      BY <1>2, <1>3, <1>8, <2>2
    <3>2. IsWith(Int, c.next, p, n, b)
      <4>1. IsWith(Int, c.next, p, n, With(c.next, p, n))
        BY <1>6, <1>8, <3>1, WithIs
      <4> QED BY <2>2, <4>1
    <3> HIDE DEF b
    <3> QED BY <2>2, <3>1, <3>2 DEF IsWith
  <2> QED BY <2>1, <2>2
<1> HIDE DEF a, b
<1>11. /\ pr \in Maps(Int) /\ DOMAIN pr = DOMAIN c.prev
       /\ \A j \in DOMAIN c.prev : j # e => pr[j] = IF n # Nil /\ j = n THEN p ELSE c.prev[j]
  <2>0. IsWith(Int, a, e, Nil, pr)
    BY <1>2, <1>7, <1>9, WithIs
  <2> HIDE DEF pr
  <2>1. /\ pr \in Maps(Int) /\ DOMAIN pr = DOMAIN a \cup {e}
        /\ \A j \in DOMAIN a : j # e => pr[j] = a[j]
    BY <2>0 DEF IsWith
  <2> QED BY <1>5, <1>9, <2>1
<1>12. /\ ne \in Maps(Int) /\ DOMAIN ne = DOMAIN c.next
       /\ \A j \in DOMAIN c.next : j # e => ne[j] = IF p # Nil /\ j = p THEN n ELSE c.next[j]
  <2>0. IsWith(Int, b, e, Nil, ne)
    BY <1>2, <1>7, <1>10, WithIs
  <2> HIDE DEF ne
  <2>1. /\ ne \in Maps(Int) /\ DOMAIN ne = DOMAIN b \cup {e}
        /\ \A j \in DOMAIN b : j # e => ne[j] = b[j]
    BY <2>0 DEF IsWith
  <2> QED BY <1>5, <1>10, <2>1
<1>13. hd \in Int /\ tl \in Int
  BY <1>6, <1>8
<1>14. /\ t \in Seq(Nat) /\ Len(t) = N - 1
       /\ \A j \in 1..(N - 1) : t[j] = IF j < k THEN s[j] ELSE s[j + 1]
  BY RemoveAtResult
<1>15. IsInjective(t)
  BY <1>3, RemoveKeeps
<1> HIDE DEF t, pr, ne
<1>21. \A i \in Int : /\ i < k => At(t, i) = At(s, i)
                      /\ i >= k => At(t, i) = At(s, i + 1)
  <2> TAKE i \in Int
  <2>1. CASE i \in 1..(N - 1)
    <3>1. i \in 1..Len(t) /\ i \in 1..N /\ i + 1 \in 1..N
      BY <1>2, <1>14, <2>1
    <3>2. At(t, i) = t[i] /\ At(s, i) = s[i] /\ At(s, i + 1) = s[i + 1]
      BY <3>1 DEF At
    <3> QED BY <1>2, <1>14, <2>1, <3>2
  <2>2. CASE i \notin 1..(N - 1)
    <3>1. i \notin 1..Len(t) /\ (i < k => i \notin 1..N) /\ (i >= k => i + 1 \notin 1..N)
      BY <1>2, <1>14, <2>2
    <3> QED BY <3>1 DEF At
  <2> QED BY <2>1, <2>2
<1>16. hd = At(t, 1)
  <2>1. CASE k = 1
    <3>1. p = Nil /\ c.head = e
      BY <1>2, <1>3, <1>5, <2>1 DEF At, e
    <3>2. hd = At(s, 2)
      BY <1>5, <2>1, <3>1
    <3> HIDE DEF hd
    <3> QED BY <1>21, <2>1, <3>2
  <2>2. CASE k # 1
    <3>1. p = s[k - 1] /\ p # Nil
      BY <1>2, <1>5, <1>7, <2>2 DEF At
    <3>2. hd = s[1]
      BY <1>2, <1>3, <3>1 DEF At
    <3>3. 1 \in 1..(N - 1) /\ 1 < k
      BY <1>2, <2>2
    <3> HIDE DEF hd
    <3> QED BY <1>14, <3>2, <3>3 DEF At
  <2> QED BY <2>1, <2>2
<1>17. tl = At(t, Len(t))
  <2>1. CASE k = N
    <3>1. n = Nil /\ c.tail = e
      BY <1>2, <1>3, <1>5, <2>1 DEF At, e
    <3>2. tl = At(s, N - 1)
      BY <1>5, <2>1, <3>1
    <3> DEFINE x == N - 1
    <3>3. x < k /\ x \in Int
      BY <1>2, <2>1
    <3> HIDE DEF tl, x
    <3>4. At(s, x) = At(t, x)
      BY <1>2, <1>21, <3>3
    <3> QED BY <1>14, <3>2, <3>4 DEF x
  <2>2. CASE k # N
    <3>1. n = s[k + 1] /\ n # Nil
      BY <1>2, <1>5, <1>7, <2>2 DEF At
    <3>2. tl = s[N]
      BY <1>2, <1>3, <3>1 DEF At
    <3>3. N - 1 \in 1..(N - 1) /\ ~ (N - 1 < k) /\ (N - 1) + 1 = N
      BY <1>2, <2>2
    <3> HIDE DEF tl
    <3> QED BY <1>14, <3>2, <3>3 DEF At
  <2> QED BY <2>1, <2>2
<1>18. ASSUME NEW i \in 1..(N - 1)
       PROVE  /\ t[i] \in DOMAIN pr /\ pr[t[i]] = At(t, i - 1)
              /\ t[i] \in DOMAIN ne /\ ne[t[i]] = At(t, i + 1)
  <2>1. CASE i < k
    <3>1. t[i] = s[i] /\ i \in 1..N /\ i # k
      BY <1>2, <1>14, <2>1
    <3>2. s[i] # e /\ s[i] \in DOMAIN c.prev /\ s[i] \in DOMAIN c.next
      BY <1>3, <1>4, <3>1 DEF e
    <3>3. ~ (n # Nil /\ s[i] = n)
      BY <1>2, <1>4, <1>8, <2>1, <3>1
    <3>4. pr[t[i]] = At(s, i - 1)
      BY <1>3, <1>11, <3>1, <3>2, <3>3
    <3>5. At(s, i - 1) = At(t, i - 1)
      <4> DEFINE x == i - 1
      <4>1. x < k /\ x \in Int
        BY <1>2, <2>1
      <4> HIDE DEF x
      <4>2. At(s, x) = At(t, x)
        BY <1>2, <1>21, <4>1
      <4> QED BY <4>2 DEF x
    <3>6. CASE i = k - 1
      <4>1. p = s[i] /\ p # Nil
        BY <1>2, <1>5, <1>7, <3>1, <3>6 DEF At
      <4>2. ne[t[i]] = n
        BY <1>12, <3>1, <3>2, <4>1
      <4>3. At(s, k + 1) = At(t, k)
        BY <1>21
      <4> QED BY <1>2, <1>5, <1>11, <1>12, <3>1, <3>2, <3>4, <3>5, <3>6, <4>2, <4>3
    <3>7. CASE i # k - 1
      <4>1. ~ (p # Nil /\ s[i] = p)
        BY <1>2, <1>4, <1>8, <3>1, <3>7
      <4>2. ne[t[i]] = At(s, i + 1)
        BY <1>3, <1>12, <3>1, <3>2, <4>1
      <4>3. At(s, i + 1) = At(t, i + 1)
        <5> DEFINE x == i + 1
        <5>1. x < k /\ x \in Int
          BY <1>2, <2>1, <3>7
        <5> HIDE DEF x
        <5>2. At(s, x) = At(t, x)
          BY <1>2, <1>21, <5>1
        <5> QED BY <5>2 DEF x
      <4> QED BY <1>11, <1>12, <3>1, <3>2, <3>4, <3>5, <4>2, <4>3
    <3> QED BY <3>6, <3>7
  <2>2. CASE ~ (i < k)
    <3> DEFINE j == i + 1
    <3>1. t[i] = s[j] /\ j \in 1..N /\ j # k /\ j - 1 = i
      BY <1>2, <1>14, <2>2
    <3> HIDE DEF j
    <3>2. s[j] # e /\ s[j] \in DOMAIN c.prev /\ s[j] \in DOMAIN c.next
      BY <1>3, <1>4, <3>1 DEF e
    <3>3. ~ (p # Nil /\ s[j] = p)
      BY <1>2, <1>4, <1>8, <2>2, <3>1, SMTT(20)
    <3>4. ne[t[i]] = At(s, j + 1)
      BY <1>3, <1>12, <3>1, <3>2, <3>3
    <3>5. At(s, j + 1) = At(t, i + 1)
      <4>1. i + 1 >= k /\ i + 1 \in Int
        BY <1>2, <2>2
      <4> QED BY <1>21, <4>1 DEF j
    <3>6. CASE i = k
      <4>1. n = s[j] /\ n # Nil
        BY <1>2, <1>5, <1>7, <3>1, <3>6 DEF At, j
      <4>2. pr[t[i]] = p
        BY <1>11, <3>1, <3>2, <4>1
      <4>3. At(s, k - 1) = At(t, k - 1)
        <5> DEFINE x == k - 1
        <5>1. x < k /\ x \in Int
          BY <1>2
        <5> HIDE DEF x
        <5>2. At(s, x) = At(t, x)
          BY <1>2, <1>21, <5>1
        <5> QED BY <5>2 DEF x
      <4> QED BY <1>5, <1>11, <1>12, <3>1, <3>2, <3>4, <3>5, <3>6, <4>2, <4>3
    <3>7. CASE i # k
      <4>1. ~ (n # Nil /\ s[j] = n)
        BY <1>2, <1>4, <1>8, <3>1, <3>7
      <4>2. pr[t[i]] = At(s, j - 1)
        BY <1>3, <1>11, <3>1, <3>2, <4>1
      <4>3. At(s, j - 1) = At(t, i - 1)
        <5>1. i - 1 >= k /\ i - 1 \in Int /\ (i - 1) + 1 = j - 1
          BY <1>2, <2>2, <3>1, <3>7
        <5> QED BY <1>21, <5>1
      <4> QED BY <1>11, <1>12, <3>1, <3>2, <3>4, <3>5, <4>2, <4>3
    <3> QED BY <3>6, <3>7
  <2> QED BY <2>1, <2>2
<1> HIDE DEF hd, tl, u
<1>19. /\ u \in CacheT /\ u.m = c.m /\ u.runes = c.runes
       /\ u.prev = pr /\ u.next = ne /\ u.head = hd /\ u.tail = tl
  BY <1>1, <1>11, <1>12, <1>13 DEF CacheT
<1>20. Chain(u, t)
  BY <1>14, <1>15, <1>16, <1>17, <1>18, <1>19 DEF Chain
<1> QED BY <1>11, <1>12, <1>19, <1>20 DEF u, t, e

IsInFront(s, e, t) ==
  /\ t \in Seq(Nat) /\ Len(t) = Len(s) + 1 /\ t[1] = e
  /\ \A j \in 2..(Len(s) + 1) : t[j] = s[j - 1]

\* A list with a new first element.
LEMMA InFront ==
  ASSUME NEW s \in Seq(Nat), NEW e \in Nat
  PROVE  IsInFront(s, e, InsertAt(s, 1, e))
<1> DEFINE t == InsertAt(s, 1, e)
           N == Len(s)
<1>0. N \in Nat
  OBVIOUS
<1>1. 1 \in 1..(N + 1)
  BY <1>0
<1>2. /\ t \in Seq(Nat) /\ Len(t) = N + 1
      /\ \A i \in 1..(N + 1) : t[i] = IF i < 1 THEN s[i] ELSE IF i = 1 THEN e ELSE s[i - 1]
  BY <1>1, InsertAtResult
<1> HIDE DEF t
<1>3. \A j \in 2..(N + 1) : j \in 1..(N + 1) /\ ~ (j < 1) /\ j # 1
  BY <1>0
<1>4. ~ (1 < 1)
  OBVIOUS
<1>5. t[1] = e
  BY <1>1, <1>2, <1>4
<1>6. \A j \in 2..(N + 1) : t[j] = s[j - 1]
  BY <1>2, <1>3
<1> QED BY <1>2, <1>5, <1>6 DEF t, IsInFront

\* An entry pushed to the front is the first of the list.
LEMMA PushResult ==
  ASSUME NEW c \in CacheT, NEW s \in Seq(Nat), Chain(c, s), NEW e \in Nat, e \notin ToSet(s)
  PROVE  LET u == pushFront(c, e)
         IN  /\ u \in CacheT /\ u.m = c.m /\ u.runes = c.runes
             /\ DOMAIN u.prev = DOMAIN c.prev \cup {e} /\ DOMAIN u.next = DOMAIN c.next \cup {e}
             /\ Chain(u, InsertAt(s, 1, e))
<1> DEFINE h == c.head
           a == With(c.prev, e, Nil)
           pr == IF h = Nil THEN a ELSE With(a, h, e)
           ne == With(c.next, e, h)
           tl == IF c.tail = Nil THEN e ELSE c.tail
           u == pushFront(c, e)
           t == InsertAt(s, 1, e)
           N == Len(s)
<1>1. u = [c EXCEPT !.prev = pr, !.next = ne, !.head = e, !.tail = tl]
  BY DEF pushFront
<1>2. N \in Nat /\ DOMAIN s = 1..N /\ \A i \in 1..N : s[i] \in Nat
  BY ElementOfSeq
<1>3. /\ IsInjective(s) /\ h = At(s, 1) /\ c.tail = At(s, N)
      /\ \A i \in 1..N :
           /\ s[i] \in DOMAIN c.prev /\ c.prev[s[i]] = At(s, i - 1)
           /\ s[i] \in DOMAIN c.next /\ c.next[s[i]] = At(s, i + 1)
  BY DEF Chain
<1>4. \A i, j \in 1..N : s[i] = s[j] => i = j
  BY <1>2, <1>3 DEF IsInjective
<1>5. \A i \in 1..N : s[i] # e
  BY <1>2 DEF ToSet
<1>6. c.prev \in Maps(Int) /\ c.next \in Maps(Int) /\ h \in Int /\ c.tail \in Int
  BY DEF CacheT
<1>7. Nil \in Int /\ \A i \in Nat : i # Nil
  BY DEF Nil
<1> HIDE DEF h
<1>8. IF N = 0 THEN h = Nil ELSE 1 \in 1..N /\ h = s[1] /\ h \in Nat /\ h # Nil /\ h # e /\ h \in DOMAIN c.prev
  <2>1. CASE N = 0
    BY <1>3, <2>1 DEF At
  <2>2. CASE N # 0
    <3>1. 1 \in 1..N
      BY <1>2, <2>2
    <3> QED BY <1>2, <1>3, <1>5, <1>7, <2>2, <3>1 DEF At
  <2> QED BY <2>1, <2>2
<1>9. /\ a \in Maps(Int) /\ DOMAIN a = DOMAIN c.prev \cup {e} /\ a[e] = Nil
      /\ \A j \in DOMAIN c.prev : j # e => a[j] = c.prev[j]
  <2>1. IsWith(Int, c.prev, e, Nil, a)
    BY <1>6, <1>7, WithIs
  <2> HIDE DEF a
  <2> QED BY <2>1 DEF IsWith
<1>10. /\ ne \in Maps(Int) /\ DOMAIN ne = DOMAIN c.next \cup {e} /\ ne[e] = h
       /\ \A j \in DOMAIN c.next : j # e => ne[j] = c.next[j]
  <2>1. IsWith(Int, c.next, e, h, ne)
    BY <1>6, WithIs
  <2> HIDE DEF ne
  <2> QED BY <2>1 DEF IsWith
<1> HIDE DEF a
<1>11. /\ pr \in Maps(Int) /\ DOMAIN pr = DOMAIN c.prev \cup {e} /\ pr[e] = Nil
       /\ \A j \in DOMAIN c.prev : j # e => pr[j] = IF N # 0 /\ j = h THEN e ELSE c.prev[j]
  <2>1. CASE N = 0
    BY <1>8, <1>9, <2>1
  <2>2. CASE N # 0
    <3>1. IsWith(Int, a, h, e, pr)
      <4>1. IsWith(Int, a, h, e, With(a, h, e))
        BY <1>8, <1>9, <2>2, WithIs
      <4> QED BY <1>8, <2>2, <4>1
    <3> HIDE DEF pr
    <3>2. /\ pr \in Maps(Int) /\ DOMAIN pr = DOMAIN a \cup {h} /\ pr[h] = e
          /\ \A j \in DOMAIN a : j # h => pr[j] = a[j]
      BY <3>1 DEF IsWith
    <3> QED BY <1>8, <1>9, <2>2, <3>2
  <2> QED BY <2>1, <2>2
<1>12. tl \in Int
  BY <1>6
<1>13. /\ t \in Seq(Nat) /\ Len(t) = N + 1 /\ t[1] = e
       /\ \A j \in 2..(N + 1) : t[j] = s[j - 1]
  BY InFront DEF IsInFront
<1>14. IsInjective(t)
  <2>1. 1 \in 1..(N + 1)
    BY <1>2
  <2> QED BY <1>3, <2>1, InsertKeeps
<1> HIDE DEF t, pr, ne
<1>15. \A i \in Int : i >= 1 => At(t, i + 1) = At(s, i)
  <2> TAKE i \in Int
  <2> HAVE i >= 1
  <2> DEFINE j == i + 1
  <2>1. (i \in 1..N <=> j \in 1..(N + 1)) /\ (i \in 1..N => j \in 2..(N + 1) /\ j - 1 = i)
    BY <1>2
  <2> HIDE DEF j
  <2>2. At(t, j) = At(s, i)
    BY <1>13, <2>1 DEF At
  <2> QED BY <2>2 DEF j
<1>16. At(t, 1) = e /\ At(t, 0) = Nil
  <2>1. 1 \in 1..(N + 1) /\ 0 \notin 1..(N + 1)
    BY <1>2
  <2> QED BY <1>13, <2>1 DEF At
<1>17. tl = At(t, Len(t))
  <2>1. CASE N = 0
    <3>1. c.tail = Nil
      BY <1>3, <2>1 DEF At
    <3> QED BY <1>13, <1>16, <2>1, <3>1
  <2>2. CASE N # 0
    <3>1. N >= 1 /\ N \in 1..N /\ N \in Int
      BY <1>2, <2>2
    <3>2. c.tail = s[N] /\ c.tail # Nil
      BY <1>2, <1>3, <1>7, <3>1 DEF At
    <3>3. At(t, N + 1) = At(s, N)
      BY <1>15, <3>1
    <3> QED BY <1>3, <1>13, <3>2, <3>3
  <2> QED BY <2>1, <2>2
<1>18. ASSUME NEW i \in 1..(N + 1)
       PROVE  /\ t[i] \in DOMAIN pr /\ pr[t[i]] = At(t, i - 1)
              /\ t[i] \in DOMAIN ne /\ ne[t[i]] = At(t, i + 1)
  <2>1. CASE i = 1
    <3>1. At(t, 2) = At(s, 1)
      BY <1>15
    <3>2. i - 1 = 0 /\ i + 1 = 2 /\ t[i] = e
      BY <1>13, <2>1
    <3> QED BY <1>3, <1>10, <1>11, <1>16, <3>1, <3>2
  <2>2. CASE i # 1
    <3> DEFINE j == i - 1
    <3>1. j \in 1..N /\ i \in 2..(N + 1) /\ j + 1 = i /\ j >= 1 /\ j \in Int /\ j + 1 >= 1 /\ (j + 1) + 1 = i + 1 /\ j + 1 \in Int
      BY <1>2, <2>2
    <3>2. t[i] = s[j] /\ s[j] # e /\ s[j] \in DOMAIN c.prev /\ s[j] \in DOMAIN c.next
      BY <1>3, <1>5, <1>13, <3>1
    <3> HIDE DEF j
    <3>3. ne[t[i]] = At(s, j + 1)
      BY <1>3, <1>10, <3>1, <3>2
    <3>4. At(s, j + 1) = At(t, i + 1)
      <4> DEFINE k == j + 1
      <4>1. k >= 1 /\ k \in Int /\ k + 1 = i + 1
        BY <3>1
      <4> HIDE DEF k
      <4>2. At(t, k + 1) = At(s, k)
        BY <1>15, <4>1
      <4> QED BY <4>1, <4>2 DEF k
    <3>5. CASE j = 1
      <4>1. s[j] = h /\ N # 0
        BY <1>2, <1>8, <3>1, <3>5
      <4>2. pr[t[i]] = e
        BY <1>11, <3>2, <4>1
      <4>3. At(t, j) = e
        BY <1>16, <3>5
      <4> QED BY <1>10, <1>11, <3>2, <3>3, <3>4, <4>2, <4>3 DEF j
    <3>6. CASE j # 1
      <4>1. ~ (N # 0 /\ s[j] = h)
        BY <1>2, <1>4, <1>8, <3>1, <3>6
      <4>2. pr[t[i]] = At(s, j - 1)
        BY <1>3, <1>11, <3>1, <3>2, <4>1
      <4>3. At(s, j - 1) = At(t, j)
        <5> DEFINE k == j - 1
        <5>1. k >= 1 /\ k \in Int /\ k + 1 = j
          BY <3>1, <3>6
        <5> HIDE DEF k
        <5>2. At(t, k + 1) = At(s, k)
          BY <1>15, <5>1
        <5> QED BY <5>1, <5>2 DEF k
      <4> QED BY <1>10, <1>11, <3>2, <3>3, <3>4, <4>2, <4>3 DEF j
    <3> QED BY <3>5, <3>6
  <2> QED BY <2>1, <2>2
<1> HIDE DEF tl, u
<1>19. /\ u \in CacheT /\ u.m = c.m /\ u.runes = c.runes
       /\ u.prev = pr /\ u.next = ne /\ u.head = e /\ u.tail = tl
  <2>1. pr \in Maps(Int) /\ ne \in Maps(Int) /\ tl \in Int /\ e \in Int
    BY <1>10, <1>11, <1>12
  <2> QED BY <1>1, <2>1 DEF CacheT
<1>20. Chain(u, t)
  BY <1>13, <1>14, <1>16, <1>17, <1>18, <1>19 DEF Chain
<1> QED BY <1>10, <1>11, <1>19, <1>20 DEF u, t

\* The entry that is read goes to the front.
LEMMA FrontResult ==
  ASSUME NEW c \in CacheT, NEW s \in Seq(Nat), Chain(c, s), NEW k \in 1..Len(s),
         ToSet(s) = DOMAIN c.prev, ToSet(s) = DOMAIN c.next
  PROVE  LET u == toFront(c, s[k])
         IN  /\ u \in CacheT /\ u.m = c.m /\ u.runes = c.runes
             /\ DOMAIN u.prev = ToSet(s) /\ DOMAIN u.next = ToSet(s)
             /\ Chain(u, s) \/ Chain(u, InsertAt(RemoveAt(s, k), 1, s[k]))
<1> DEFINE e == s[k]
           u == toFront(c, e)
           v == unlink(c, e)
           t == RemoveAt(s, k)
<1>1. u = IF c.head = e THEN c ELSE pushFront(v, e)
  BY DEF toFront
<1>2. CASE c.head = e
  <2> HIDE DEF u, e
  <2> QED BY <1>1, <1>2 DEF u, e
<1>3. CASE c.head # e
  <2>1. /\ v \in CacheT /\ v.m = c.m /\ v.runes = c.runes
        /\ DOMAIN v.prev = DOMAIN c.prev /\ DOMAIN v.next = DOMAIN c.next
        /\ Chain(v, t)
    BY UnlinkResult
  <2>2. t \in Seq(Nat)
    BY RemoveAtResult
  <2>3. ToSet(t) = ToSet(s) \ {e}
    BY RemoveKeeps DEF Chain
  <2>4. e \in Nat /\ e \in ToSet(s) /\ e \notin ToSet(t)
    <3>1. e \in ToSet(s)
      BY DEF ToSet
    <3> QED BY <2>3, <3>1
  <2> HIDE DEF e, v, t
  <2> DEFINE w == pushFront(v, e)
  <2>5. /\ w \in CacheT /\ w.m = v.m /\ w.runes = v.runes
        /\ DOMAIN w.prev = DOMAIN v.prev \cup {e} /\ DOMAIN w.next = DOMAIN v.next \cup {e}
        /\ Chain(w, InsertAt(t, 1, e))
    BY <2>1, <2>2, <2>4, PushResult
  <2> HIDE DEF w
  <2>6. u = w
    BY <1>1, <1>3 DEF w
  <2>7. DOMAIN w.prev = ToSet(s) /\ DOMAIN w.next = ToSet(s)
    BY <2>1, <2>4, <2>5
  <2> HIDE DEF u
  <2> QED BY <2>1, <2>5, <2>6, <2>7 DEF u, e, t
<1> QED BY <1>2, <1>3

-----------------------------------------------------------------------------
(***************************************************************************)
(* The characters of the cache.                                             *)
(***************************************************************************)

\* u sums the characters of the entries of a list.
Sums(c, s, u) ==
  /\ u \in [0..Len(s) -> Int] /\ u[0] = 0
  /\ \A i \in 1..Len(s) : u[i] = u[i - 1] + Len(c.m[s[i]])

RunesOver(c, s, u) ==
  u = [i \in 0..Len(s) |-> IF i = 0 THEN 0 ELSE u[i - 1] + Len(c.m[s[i]])]

RunesFun(c, s) == CHOOSE u : RunesOver(c, s, u)

\* The function behind RunesOf exists.
LEMMA SumExists ==
  ASSUME NEW c, NEW s \in Seq(Nat), \A i \in 1..Len(s) : Len(c.m[s[i]]) \in Nat
  PROVE  \E u : Sums(c, s, u) /\ RunesOver(c, s, u)
<1> DEFINE N == Len(s)
           Step(i, x) == x + Len(c.m[s[i]])
           F == [i \in 1..N |-> [x \in Int |-> Step(i, x)]]
<1>1. N \in Nat /\ 0 \in Int
  OBVIOUS
<1>2. \A i \in 1..N, x \in Int : Step(i, x) \in Int
  OBVIOUS
<1> HIDE DEF Step, N
<1>3. F \in Stepper(N, Int)
  BY <1>2 DEF Stepper
<1>4. \A i \in 1..N, x \in Int : F[i][x] = Step(i, x)
  OBVIOUS
<1> HIDE DEF F
<1>5. PICK u \in [0..N -> Int] : IsCourse(u, N, 0, F)
  BY <1>1, <1>3, CourseExists
<1>6. u[0] = 0 /\ \A i \in 1..N : u[i] = Step(i, u[i - 1])
  <2>1. \A i \in 1..N : u[i - 1] \in Int
    BY <1>1
  <2> QED BY <1>4, <1>5, <2>1 DEF IsCourse
<1>7. \A i \in 0..N : u[i] = IF i = 0 THEN 0 ELSE Step(i, u[i - 1])
  <2>1. \A i \in 0..N : i = 0 \/ i \in 1..N
    BY <1>1
  <2> QED BY <1>6, <2>1
<1>8. u = [i \in 0..N |-> IF i = 0 THEN 0 ELSE Step(i, u[i - 1])]
  <2>1. u = [i \in 0..N |-> u[i]]
    BY <1>5
  <2> QED BY <1>7, <2>1
<1>9. RunesOver(c, s, u)
  BY <1>8 DEF RunesOver, Step, N
<1>10. Sums(c, s, u)
  BY <1>5, <1>6 DEF Sums, Step, N
<1> QED BY <1>9, <1>10

\* The characters counted are the last of the sums, whoever sums.
LEMMA SumIs ==
  ASSUME NEW c, NEW s \in Seq(Nat), \A i \in 1..Len(s) : Len(c.m[s[i]]) \in Nat,
         NEW u, Sums(c, s, u)
  PROVE  RunesOf(c, s) = u[Len(s)] /\ u[Len(s)] \in Int
<1> DEFINE N == Len(s)
           v == RunesFun(c, s)
           T == {i \in 0..N : u[i] = v[i]}
<1>1. RunesOf(c, s) = v[N]
  BY Zenon DEF RunesOf, RunesFun, RunesOver
<1>2. RunesOver(c, s, v)
  BY SumExists DEF RunesFun
<1> HIDE DEF v
<1>3. \A i \in 0..N : v[i] = IF i = 0 THEN 0 ELSE v[i - 1] + Len(c.m[s[i]])
  BY <1>2 DEF RunesOver
<1>4. u \in [0..N -> Int] /\ u[0] = 0 /\ \A i \in 1..N : u[i] = u[i - 1] + Len(c.m[s[i]])
  BY DEF Sums
<1>5. N \in Nat /\ 0 \in 0..N /\ N \in 0..N /\ \A i \in 1..N : i \in 0..N /\ i # 0
  OBVIOUS
<1>6. 0 \in T
  BY <1>3, <1>4, <1>5
<1>7. ASSUME NEW i \in 1..N, i - 1 \in T PROVE i \in T
  BY <1>3, <1>4, <1>5, <1>7
<1>8. N \in T
  <2>1. InductiveUpTo(N, T)
    <3> HIDE DEF T
    <3> QED BY <1>6, <1>7 DEF InductiveUpTo
  <2> HIDE DEF T, N
  <2> QED BY <1>5, <2>1, IntervalInduction
<1> QED BY <1>1, <1>4, <1>5, <1>8

\* The count depends on the entries of the list alone.
LEMMA SameRunes ==
  ASSUME NEW c, NEW d, NEW s \in Seq(Nat), \A i \in 1..Len(s) : Len(c.m[s[i]]) \in Nat,
         \A i \in 1..Len(s) : d.m[s[i]] = c.m[s[i]]
  PROVE  RunesOf(d, s) = RunesOf(c, s)
<1>1. PICK u : Sums(c, s, u)
  BY SumExists
<1>2. Sums(d, s, u)
  BY <1>1 DEF Sums
<1>3. \A i \in 1..Len(s) : Len(d.m[s[i]]) \in Nat
  OBVIOUS
<1> QED BY <1>1, <1>2, <1>3, SumIs

\* The characters without one entry.
LEMMA RunesRemoved ==
  ASSUME NEW c, NEW s \in Seq(Nat), \A i \in 1..Len(s) : Len(c.m[s[i]]) \in Nat,
         NEW k \in 1..Len(s)
  PROVE  RunesOf(c, RemoveAt(s, k)) = RunesOf(c, s) - Len(c.m[s[k]])
<1> DEFINE N == Len(s)
           t == RemoveAt(s, k)
           w(i) == Len(c.m[s[i]])
           x == w(k)
<1>1. PICK u : Sums(c, s, u)
  BY SumExists
<1> DEFINE v == [i \in 0..(N - 1) |-> IF i < k THEN u[i] ELSE u[i + 1] - x]
<1>2. /\ t \in Seq(Nat) /\ Len(t) = N - 1
      /\ \A j \in 1..(N - 1) : t[j] = IF j < k THEN s[j] ELSE s[j + 1]
  BY RemoveAtResult
<1>3. N \in Nat /\ \A i \in 1..N : w(i) \in Nat
  OBVIOUS
<1>4. u \in [0..N -> Int] /\ u[0] = 0 /\ \A i \in 1..N : u[i] = u[i - 1] + w(i)
  BY <1>1 DEF Sums
<1>5. \A i \in 1..(N - 1) : Len(c.m[t[i]]) = IF i < k THEN w(i) ELSE w(i + 1)
  BY <1>2
<1> HIDE DEF t, w, N
<1>0. k \in 1..N
  BY DEF N
<1>6. \A i \in 0..N : u[i] \in Int
  BY <1>4
<1>7. x \in Nat
  BY <1>0, <1>3
<1> HIDE DEF x
<1>8. v \in [0..(N - 1) -> Int] /\ v[0] = 0
  <2>1. \A i \in 0..(N - 1) : u[i] \in Int /\ u[i + 1] \in Int
    <3> TAKE i \in 0..(N - 1)
    <3>1. i \in 0..N /\ i + 1 \in 0..N
      BY <1>3
    <3> QED BY <1>6, <3>1
  <2>2. 0 \in 0..(N - 1) /\ 0 < k
    BY <1>0, <1>3
  <2> QED BY <1>4, <1>7, <2>1, <2>2
<1>9. \A i \in 0..(N - 1) : v[i] = IF i < k THEN u[i] ELSE u[i + 1] - x
  OBVIOUS
<1> HIDE DEF v
<1>10. ASSUME NEW i \in 1..(N - 1) PROVE v[i] = v[i - 1] + Len(c.m[t[i]])
  <2>0. i - 1 \in 0..(N - 1) /\ i \in 0..(N - 1) /\ i \in 1..N /\ i + 1 \in 1..N /\ (i + 1) - 1 = i /\ (i - 1) + 1 = i
    BY <1>3
  <2>1. /\ u[i] \in Int /\ u[i - 1] \in Int /\ w(i) \in Nat /\ w(i + 1) \in Nat
        /\ u[i] = u[i - 1] + w(i) /\ u[i + 1] = u[i] + w(i + 1)
    <3>1. i \in 0..N /\ i - 1 \in 0..N
      BY <1>3
    <3> QED BY <1>3, <1>4, <1>6, <2>0, <3>1
  <2>2. CASE i < k
    <3>1. i - 1 < k
      BY <1>0, <1>3, <2>2
    <3> QED BY <1>5, <1>9, <2>0, <2>1, <2>2, <3>1
  <2>3. CASE i = k
    <3>1. i - 1 < k /\ ~ (i < k)
      BY <1>0, <1>3, <2>3
    <3>2. v[i] = u[i + 1] - x /\ v[i - 1] = u[i - 1] /\ Len(c.m[t[i]]) = w(i + 1)
      BY <1>5, <1>9, <2>0, <3>1
    <3>3. w(i) = x
      BY <2>3 DEF x
    <3> QED BY <1>7, <2>1, <3>2, <3>3
  <2>4. CASE i > k
    <3>1. ~ (i - 1 < k) /\ ~ (i < k)
      BY <1>0, <1>3, <2>4
    <3>2. v[i] = u[i + 1] - x /\ v[i - 1] = u[i] - x /\ Len(c.m[t[i]]) = w(i + 1)
      BY <1>5, <1>9, <2>0, <3>1
    <3> QED BY <1>7, <2>1, <3>2
  <2> QED BY <1>0, <1>3, <2>2, <2>3, <2>4
<1>11. Sums(c, t, v)
  BY <1>2, <1>8, <1>10 DEF Sums
<1>12. \A i \in 1..Len(t) : Len(c.m[t[i]]) \in Nat
  <2> TAKE i \in 1..Len(t)
  <2>1. i \in 1..N /\ i + 1 \in 1..N /\ i \in 1..(N - 1)
    BY <1>2, <1>3
  <2> QED BY <1>3, <1>5, <2>1
<1>13. RunesOf(c, t) = v[N - 1]
  BY <1>2, <1>11, <1>12, SumIs
<1>14. RunesOf(c, s) = u[N]
  BY <1>1, SumIs DEF N
<1>15. v[N - 1] = u[N] - x
  <2>0. N - 1 \in 0..(N - 1) /\ (N - 1) + 1 = N /\ N \in 1..N /\ N - 1 \in 0..N
    BY <1>0, <1>3
  <2>1. CASE N - 1 < k
    <3>1. k = N
      BY <1>0, <1>3, <2>1
    <3>2. u[N] = u[N - 1] + x
      BY <1>4, <2>0, <3>1 DEF x
    <3>3. u[N - 1] \in Int
      BY <1>6, <2>0
    <3>4. v[N - 1] = u[N - 1]
      BY <1>9, <2>0, <2>1
    <3> QED BY <1>7, <3>2, <3>3, <3>4
  <2>2. CASE ~ (N - 1 < k)
    BY <1>9, <2>0, <2>2
  <2> QED BY <2>1, <2>2
<1> QED BY <1>13, <1>14, <1>15 DEF t, x, w

\* The characters with one entry more.
LEMMA RunesInFront ==
  ASSUME NEW c, NEW s \in Seq(Nat), \A i \in 1..Len(s) : Len(c.m[s[i]]) \in Nat,
         NEW e \in Nat, Len(c.m[e]) \in Nat
  PROVE  RunesOf(c, InsertAt(s, 1, e)) = RunesOf(c, s) + Len(c.m[e])
<1> DEFINE N == Len(s)
           t == InsertAt(s, 1, e)
           w(i) == Len(c.m[s[i]])
           x == Len(c.m[e])
<1>1. PICK u : Sums(c, s, u)
  BY SumExists
<1> DEFINE v == [i \in 0..(N + 1) |-> IF i = 0 THEN 0 ELSE u[i - 1] + x]
<1>2. N \in Nat /\ \A i \in 1..N : w(i) \in Nat
  OBVIOUS
<1>3. /\ t \in Seq(Nat) /\ Len(t) = N + 1 /\ t[1] = e
      /\ \A j \in 2..(N + 1) : t[j] = s[j - 1]
  <2>1. IsInFront(s, e, t)
    BY InFront
  <2> HIDE DEF t
  <2> QED BY <2>1 DEF IsInFront
<1>4. u \in [0..N -> Int] /\ u[0] = 0 /\ \A i \in 1..N : u[i] = u[i - 1] + w(i)
  BY <1>1 DEF Sums
<1>5. \A j \in 2..(N + 1) : Len(c.m[t[j]]) = w(j - 1)
  BY <1>3
<1>6. x \in Nat
  OBVIOUS
<1> HIDE DEF t, x, w, N
<1>7. \A i \in 0..N : u[i] \in Int
  BY <1>4
<1>8. v \in [0..(N + 1) -> Int] /\ v[0] = 0
  <2>1. \A i \in 0..(N + 1) : i # 0 => u[i - 1] \in Int
    <3> TAKE i \in 0..(N + 1)
    <3> HAVE i # 0
    <3>1. i - 1 \in 0..N
      BY <1>2
    <3> QED BY <1>7, <3>1
  <2>2. 0 \in 0..(N + 1)
    BY <1>2
  <2> QED BY <1>6, <2>1, <2>2
<1>9. \A i \in 1..(N + 1) : v[i] = u[i - 1] + x
  BY <1>2
<1> HIDE DEF v
<1>10. ASSUME NEW i \in 1..(N + 1) PROVE v[i] = v[i - 1] + Len(c.m[t[i]])
  <2>1. CASE i = 1
    <3>1. i - 1 = 0 /\ v[i] = u[i - 1] + x
      BY <1>9, <2>1
    <3>2. Len(c.m[t[i]]) = x
      BY <1>3, <2>1 DEF x
    <3> QED BY <1>4, <1>6, <1>8, <3>1, <3>2
  <2>2. CASE i # 1
    <3> DEFINE j == i - 1
    <3>1. j \in 1..(N + 1) /\ j \in 1..N /\ i \in 2..(N + 1) /\ j - 1 \in 0..N /\ j \in 0..N
      BY <1>2, <2>2
    <3>2. v[i] = u[j] + x /\ Len(c.m[t[i]]) = w(j)
      BY <1>5, <1>9, <3>1
    <3> HIDE DEF j
    <3>3. v[j] = u[j - 1] + x /\ u[j] = u[j - 1] + w(j) /\ u[j - 1] \in Int /\ w(j) \in Nat
      BY <1>2, <1>4, <1>7, <1>9, <3>1
    <3>4. v[i] = v[j] + Len(c.m[t[i]])
      BY <1>6, <3>2, <3>3
    <3> QED BY <3>4 DEF j
  <2> QED BY <2>1, <2>2
<1>11. Sums(c, t, v)
  BY <1>3, <1>8, <1>10 DEF Sums
<1>12. \A i \in 1..Len(t) : Len(c.m[t[i]]) \in Nat
  <2> TAKE i \in 1..Len(t)
  <2>1. i = 1 \/ (i \in 2..(N + 1) /\ i - 1 \in 1..N)
    BY <1>2, <1>3
  <2>2. CASE i = 1
    BY <1>3, <1>6, <2>2 DEF x
  <2>3. CASE i # 1
    BY <1>2, <1>5, <2>1, <2>3
  <2> QED BY <2>2, <2>3
<1>13. RunesOf(c, t) = v[N + 1]
  BY <1>3, <1>11, <1>12, SumIs
<1>14. RunesOf(c, s) = u[N]
  BY <1>1, SumIs DEF N
<1>15. v[N + 1] = u[N] + x
  <2>1. N + 1 \in 1..(N + 1) /\ (N + 1) - 1 = N
    BY <1>2
  <2> QED BY <1>9, <2>1
<1> QED BY <1>13, <1>14, <1>15 DEF t, x

-----------------------------------------------------------------------------
(***************************************************************************)
(* The cache.                                                              *)
(***************************************************************************)

\* A cache whose list is s.
KeptBy(c, s) ==
  /\ c \in CacheT /\ s \in Seq(Nat) /\ Chain(c, s) /\ c.runes = RunesOf(c, s)
  /\ ToSet(s) = DOMAIN c.m /\ DOMAIN c.prev = ToSet(s) /\ DOMAIN c.next = ToSet(s)

\* What such a cache holds.
LEMMA KeptFacts ==
  ASSUME NEW c, NEW s, KeptBy(c, s)
  PROVE  /\ IsFiniteSet(DOMAIN c.m) /\ Cardinality(DOMAIN c.m) = Len(s) /\ Len(s) \in Nat
         /\ DOMAIN c.m \subseteq Nat
         /\ \A j \in DOMAIN c.m : c.m[j] \in Text /\ Len(c.m[j]) \in Nat
         /\ \A i \in 1..Len(s) : s[i] \in DOMAIN c.m /\ Len(c.m[s[i]]) \in Nat
<1>1. c \in CacheT /\ s \in Seq(Nat) /\ ToSet(s) = DOMAIN c.m /\ IsInjective(s)
  BY DEF KeptBy, Chain
<1>2. IsFiniteSet(DOMAIN c.m) /\ Cardinality(DOMAIN c.m) = Len(s) /\ Len(s) \in Nat
  BY <1>1, ListSize
<1>3. c.m \in Maps(Text)
  BY <1>1 DEF CacheT
<1>4. DOMAIN c.m \subseteq Nat /\ \A j \in DOMAIN c.m : c.m[j] \in Text
  BY <1>3, MapFacts
<1>5. \A x \in Text : Len(x) \in Nat
  BY DEF Text
<1>6. \A i \in 1..Len(s) : s[i] \in DOMAIN c.m
  BY <1>1 DEF ToSet
<1> QED BY <1>2, <1>4, <1>5, <1>6

\* The cache when the entry at the tail has been dropped.
LEMMA DropKept ==
  ASSUME NEW c, NEW s, KeptBy(c, s), s # <<>>
  PROVE  LET d == DropTail(c)
         IN  /\ KeptBy(d, RemoveAt(s, Len(s)))
             /\ DOMAIN d.m = DOMAIN c.m \ {s[Len(s)]}
             /\ \A j \in DOMAIN d.m : d.m[j] = c.m[j]
             /\ Len(RemoveAt(s, Len(s))) = Len(s) - 1
<1> DEFINE n == Len(s)
           e == s[n]
           u == unlink(c, e)
           d == DropTail(c)
           t == RemoveAt(s, n)
           mm == Without(c.m, e)
           pr == Without(u.prev, e)
           ne == Without(u.next, e)
           ru == c.runes - Len(c.m[e])
<1>1. /\ c \in CacheT /\ s \in Seq(Nat) /\ Chain(c, s) /\ c.runes = RunesOf(c, s)
      /\ ToSet(s) = DOMAIN c.m /\ DOMAIN c.prev = ToSet(s) /\ DOMAIN c.next = ToSet(s)
  BY DEF KeptBy
<1>2. n \in Nat /\ n \in 1..n
  BY <1>1
<1>3. /\ \A i \in 1..n : s[i] \in DOMAIN c.m /\ Len(c.m[s[i]]) \in Nat
      /\ \A j \in DOMAIN c.m : c.m[j] \in Text
  BY KeptFacts
<1>4. c.tail = e
  BY <1>1, <1>2 DEF Chain, At
<1>5. /\ u \in CacheT /\ u.m = c.m /\ u.runes = c.runes
      /\ DOMAIN u.prev = DOMAIN c.prev /\ DOMAIN u.next = DOMAIN c.next
      /\ Chain(u, t)
  BY <1>1, <1>2, UnlinkResult
<1>6. /\ t \in Seq(Nat) /\ Len(t) = n - 1
      /\ \A j \in 1..(n - 1) : t[j] = IF j < n THEN s[j] ELSE s[j + 1]
  BY <1>1, <1>2, RemoveAtResult
<1>7. ToSet(t) = ToSet(s) \ {e}
  BY <1>1, <1>2, RemoveKeeps DEF Chain
<1>8. RunesOf(c, t) = RunesOf(c, s) - Len(c.m[e])
  BY <1>1, <1>2, <1>3, RunesRemoved
<1>9. d = [u EXCEPT !.m = mm, !.prev = pr, !.next = ne, !.runes = ru]
  <2>1. d = [u EXCEPT !.m = Without(u.m, e), !.prev = pr, !.next = ne,
                      !.runes = u.runes - Len(c.m[e])]
    BY <1>4 DEF DropTail
  <2> QED BY <1>5, <2>1
<1> HIDE DEF n, e, u, d, t
<1>10. c.m \in Maps(Text) /\ u.prev \in Maps(Int) /\ u.next \in Maps(Int) /\ c.runes \in Int
       /\ u.head \in Int /\ u.tail \in Int
  BY <1>1, <1>5 DEF CacheT
<1>11. IsWithout(Text, c.m, e, mm) /\ IsWithout(Int, u.prev, e, pr) /\ IsWithout(Int, u.next, e, ne)
  BY <1>10, WithoutIs
<1> HIDE DEF mm, pr, ne
<1>12. /\ mm \in Maps(Text) /\ DOMAIN mm = DOMAIN c.m \ {e}
       /\ \A j \in DOMAIN c.m : j # e => mm[j] = c.m[j]
       /\ pr \in Maps(Int) /\ DOMAIN pr = DOMAIN u.prev \ {e}
       /\ \A j \in DOMAIN u.prev : j # e => pr[j] = u.prev[j]
       /\ ne \in Maps(Int) /\ DOMAIN ne = DOMAIN u.next \ {e}
       /\ \A j \in DOMAIN u.next : j # e => ne[j] = u.next[j]
  BY <1>11 DEF IsWithout
<1>13. Len(c.m[e]) \in Nat
  BY <1>2, <1>3 DEF e
<1>14. ru \in Int
  BY <1>10, <1>13
<1> HIDE DEF ru
<1>15. /\ d \in CacheT /\ d.m = mm /\ d.prev = pr /\ d.next = ne /\ d.runes = ru
       /\ d.head = u.head /\ d.tail = u.tail
  <2>1. mm \in Maps(Text) /\ pr \in Maps(Int) /\ ne \in Maps(Int)
    BY <1>12
  <2> QED BY <1>5, <1>9, <1>14, <2>1 DEF CacheT
<1>16. DOMAIN d.m = ToSet(t) /\ DOMAIN d.prev = ToSet(t) /\ DOMAIN d.next = ToSet(t)
  BY <1>1, <1>5, <1>7, <1>12, <1>15
<1>17. \A i \in 1..Len(t) : t[i] \in ToSet(t) /\ t[i] # e /\ t[i] \in DOMAIN c.m
  <2>1. \A i \in 1..Len(t) : t[i] \in ToSet(t)
    BY <1>6 DEF ToSet
  <2> QED BY <1>1, <1>7, <2>1
<1>18. Chain(d, t)
  <2>1. /\ IsInjective(t) /\ u.head = At(t, 1) /\ u.tail = At(t, Len(t))
        /\ \A i \in 1..Len(t) :
             /\ t[i] \in DOMAIN u.prev /\ u.prev[t[i]] = At(t, i - 1)
             /\ t[i] \in DOMAIN u.next /\ u.next[t[i]] = At(t, i + 1)
    BY <1>5 DEF Chain
  <2>2. \A i \in 1..Len(t) :
          /\ t[i] \in DOMAIN d.prev /\ d.prev[t[i]] = At(t, i - 1)
          /\ t[i] \in DOMAIN d.next /\ d.next[t[i]] = At(t, i + 1)
    BY <1>12, <1>15, <1>16, <1>17, <2>1
  <2> QED BY <1>15, <2>1, <2>2 DEF Chain
<1>19. \A j \in DOMAIN d.m : d.m[j] = c.m[j]
  BY <1>12, <1>15
<1>20. RunesOf(d, t) = RunesOf(c, t)
  <2>1. \A i \in 1..Len(t) : Len(c.m[t[i]]) \in Nat
    <3>1. \A x \in Text : Len(x) \in Nat
      BY DEF Text
    <3> QED BY <1>3, <1>17, <3>1
  <2>2. \A i \in 1..Len(t) : d.m[t[i]] = c.m[t[i]]
    BY <1>16, <1>17, <1>19
  <2> QED BY <1>6, <2>1, <2>2, SameRunes
<1>21. d.runes = RunesOf(d, t)
  BY <1>1, <1>8, <1>15, <1>20 DEF ru
<1>22. KeptBy(d, t)
  BY <1>6, <1>15, <1>16, <1>18, <1>21 DEF KeptBy
<1> QED BY <1>1, <1>6, <1>7, <1>16, <1>19, <1>22 DEF d, t, n, e

\* The caches that hold some of the entries of c.
Within(c) ==
  {d \in CacheT : /\ \E s : KeptBy(d, s)
                  /\ DOMAIN d.m \subseteq DOMAIN c.m
                  /\ \A j \in DOMAIN d.m : d.m[j] = c.m[j]}

EvictStep(d) == IF OverBudget(d) THEN DropTail(d) ELSE d

\* A round of the eviction keeps the cache, and makes it smaller or ends.
LEMMA EvictStepResult ==
  ASSUME NEW c, NEW d \in Within(c)
  PROVE  /\ EvictStep(d) \in Within(c)
         /\ Cardinality(DOMAIN d.m) \in Nat
         /\ OverBudget(d) => Cardinality(DOMAIN EvictStep(d).m) = Cardinality(DOMAIN d.m) - 1
         /\ Cardinality(DOMAIN d.m) = 0 => ~ OverBudget(d)
<1>1. PICK s : KeptBy(d, s)
  BY DEF Within
<1>2. Cardinality(DOMAIN d.m) = Len(s) /\ Len(s) \in Nat /\ s \in Seq(Nat)
  <2>1. s \in Seq(Nat)
    BY <1>1 DEF KeptBy
  <2> QED BY <1>1, <2>1, KeptFacts
<1>3. Cardinality(DOMAIN d.m) = 0 => ~ OverBudget(d)
  BY DEF OverBudget
<1>4. CASE ~ OverBudget(d)
  BY <1>2, <1>3, <1>4 DEF EvictStep
<1>5. CASE OverBudget(d)
  <2> DEFINE e == DropTail(d)
             t == RemoveAt(s, Len(s))
  <2>1. s # <<>>
    <3>1. Len(s) > 1
      BY <1>2, <1>5 DEF OverBudget
    <3> QED BY <1>2, <3>1
  <2>2. KeptBy(e, t) /\ DOMAIN e.m = DOMAIN d.m \ {s[Len(s)]}
    BY <1>1, <2>1, DropKept
  <2>3. \A j \in DOMAIN e.m : e.m[j] = d.m[j]
    BY <1>1, <2>1, DropKept
  <2>4. Len(t) = Len(s) - 1
    BY <1>1, <2>1, DropKept
  <2> HIDE DEF e, t
  <2>5. Cardinality(DOMAIN e.m) = Len(s) - 1
    BY <2>2, <2>4, KeptFacts
  <2>6. DOMAIN d.m \subseteq DOMAIN c.m /\ \A j \in DOMAIN d.m : d.m[j] = c.m[j]
    BY DEF Within
  <2>7. e \in CacheT
    BY <2>2 DEF KeptBy
  <2>8. e \in Within(c)
    BY <2>2, <2>3, <2>6, <2>7 DEF Within
  <2>9. EvictStep(d) = e
    BY <1>5 DEF EvictStep, e
  <2> QED BY <1>2, <1>3, <2>5, <2>8, <2>9
<1> QED BY <1>4, <1>5

EvictOver(c, u) ==
  u = [i \in 0..Cardinality(DOMAIN c.m) |->
         IF i = 0 THEN c
         ELSE IF OverBudget(u[i - 1]) THEN DropTail(u[i - 1])
         ELSE u[i - 1]]

EvictFun(c) == CHOOSE u : EvictOver(c, u)

\* The function of the rounds exists.
LEMMA EvictExists ==
  ASSUME NEW c, c \in Within(c)
  PROVE  \E u : EvictOver(c, u)
<1> DEFINE B == Within(c)
           N == Cardinality(DOMAIN c.m)
           F == [i \in 1..N |-> [x \in B |-> EvictStep(x)]]
<1>1. N \in Nat
  BY EvictStepResult
<1>2. \A x \in B : EvictStep(x) \in B
  BY EvictStepResult
<1>3. c \in B
  OBVIOUS
<1> HIDE DEF B, N
<1>4. F \in Stepper(N, B)
  BY <1>2 DEF Stepper
<1>5. \A i \in 1..N, x \in B : F[i][x] = EvictStep(x)
  OBVIOUS
<1> HIDE DEF F
<1>6. PICK u \in [0..N -> B] : IsCourse(u, N, c, F)
  BY <1>1, <1>3, <1>4, CourseExists
<1>7. u[0] = c /\ \A i \in 1..N : u[i] = EvictStep(u[i - 1])
  <2>1. \A i \in 1..N : u[i - 1] \in B
    BY <1>1
  <2> QED BY <1>5, <1>6, <2>1 DEF IsCourse
<1>8. \A i \in 0..N : u[i] = IF i = 0 THEN c ELSE EvictStep(u[i - 1])
  <2>1. \A i \in 0..N : i = 0 \/ i \in 1..N
    BY <1>1
  <2> QED BY <1>7, <2>1
<1>9. u = [i \in 0..N |-> IF i = 0 THEN c ELSE EvictStep(u[i - 1])]
  <2>1. u = [i \in 0..N |-> u[i]]
    BY <1>6
  <2> QED BY <1>8, <2>1
<1> QED BY <1>9 DEF EvictOver, EvictStep, N

\* Eviction ends within the budget, or with one entry.
LEMMA EvictResult ==
  ASSUME NEW c, c \in Within(c)
  PROVE  evict(c) \in Within(c) /\ ~ OverBudget(evict(c))
<1> DEFINE B == Within(c)
           N == Cardinality(DOMAIN c.m)
           u == EvictFun(c)
           T == {i \in 0..N : /\ u[i] \in B
                              /\ ~ OverBudget(u[i]) \/ Cardinality(DOMAIN u[i].m) <= N - i}
<1>1. evict(c) = u[N]
  BY Zenon DEF evict, EvictFun, EvictOver
<1>2. EvictOver(c, u)
  BY EvictExists DEF EvictFun
<1> HIDE DEF u
<1>3. \A i \in 0..N : u[i] = IF i = 0 THEN c ELSE EvictStep(u[i - 1])
  BY <1>2 DEF EvictOver, EvictStep
<1>4. N \in Nat
  BY EvictStepResult
<1>5. 0 \in T
  <2>1. 0 \in 0..N
    BY <1>4
  <2>2. u[0] = c
    BY <1>3, <2>1
  <2>3. N <= N - 0
    BY <1>4
  <2> QED BY <2>1, <2>2, <2>3
<1>6. ASSUME NEW i \in 1..N, i - 1 \in T PROVE i \in T
  <2> DEFINE x == u[i - 1]
             y == EvictStep(x)
             p == Cardinality(DOMAIN x.m)
             q == Cardinality(DOMAIN y.m)
  <2>1. u[i] = y /\ x \in B /\ i \in 0..N
    BY <1>3, <1>4, <1>6
  <2>2. ~ OverBudget(x) \/ p <= N - (i - 1)
    BY <1>6
  <2>3. y \in B
    <3> HIDE DEF x
    <3> QED BY <2>1, EvictStepResult
  <2>4. p \in Nat
    <3> HIDE DEF x
    <3> QED BY <2>1, EvictStepResult
  <2>5. OverBudget(x) => q = p - 1
    <3> HIDE DEF x
    <3> QED BY <2>1, EvictStepResult
  <2>6. ~ OverBudget(x) => y = x
    BY DEF EvictStep
  <2> HIDE DEF x, y
  <2>7. ~ OverBudget(y) \/ q <= N - i
    <3>1. CASE OverBudget(x)
      BY <1>4, <2>2, <2>4, <2>5, <3>1
    <3>2. CASE ~ OverBudget(x)
      BY <2>6, <3>2
    <3> QED BY <3>1, <3>2
  <2> HIDE DEF B
  <2> QED BY <2>1, <2>3, <2>7
<1>7. N \in T
  <2>1. InductiveUpTo(N, T)
    <3> HIDE DEF T
    <3> QED BY <1>5, <1>6 DEF InductiveUpTo
  <2>2. N \in 0..N
    BY <1>4
  <2> HIDE DEF T, N
  <2> QED BY <1>4, <2>1, <2>2, IntervalInduction
<1> DEFINE r == u[N]
<1>8. r \in B /\ (~ OverBudget(r) \/ Cardinality(DOMAIN r.m) <= N - N)
  BY <1>7
<1> HIDE DEF r
<1>9. Cardinality(DOMAIN r.m) \in Nat /\ (Cardinality(DOMAIN r.m) = 0 => ~ OverBudget(r))
  BY <1>8, EvictStepResult
<1>10. ~ OverBudget(r)
  BY <1>4, <1>8, <1>9
<1> QED BY <1>1, <1>8, <1>10 DEF r

\* The cache as its users see it: entries of the lines L, within the budget.
CacheIs(c, L) ==
  /\ c \in CacheT /\ \E s : KeptBy(c, s)
  /\ c.runes <= Budget \/ Cardinality(DOMAIN c.m) = 1
  /\ \A j \in DOMAIN c.m : j < Len(L) /\ c.m[j] = L[j + 1]

\* A new cache.
LEMMA NewCache ==
  ASSUME NEW L
  PROVE  CacheIs(newOrigCache, L)
<1> DEFINE z == <<>>
           c == [m |-> z, prev |-> z, next |-> z, head |-> Nil, tail |-> Nil, runes |-> 0]
<1>1. c = newOrigCache
  BY DEF newOrigCache
<1>2. DOMAIN z = {} /\ z \in Seq(Nat) /\ Len(z) = 0
  OBVIOUS
<1>3. \A S : z \in Maps(S)
  <2> TAKE S
  <2>1. z \in [{} -> S] /\ {} \in SUBSET Nat
    OBVIOUS
  <2> QED BY <2>1, Zenon DEF Maps
<1>4. Nil \in Int
  BY DEF Nil
<1> HIDE DEF z
<1>5. /\ c \in CacheT /\ c.m = z /\ c.prev = z /\ c.next = z /\ c.head = Nil /\ c.tail = Nil
      /\ c.runes = 0
  BY <1>3, <1>4 DEF CacheT
<1> HIDE DEF c
<1>6. ToSet(z) = {} /\ IsInjective(z)
  BY <1>2 DEF ToSet, IsInjective
<1>7. Chain(c, z)
  <2>1. \A i \in 1..0 : FALSE
    OBVIOUS
  <2> QED BY <1>2, <1>5, <1>6, <2>1 DEF Chain, At
<1>8. RunesOf(c, z) = 0
  <2>1. Sums(c, z, [i \in 0..0 |-> 0])
    <3>1. \A i \in 1..0 : FALSE
      OBVIOUS
    <3> QED BY <1>2, <3>1 DEF Sums
  <2> DEFINE u == [i \in 0..0 |-> 0]
  <2>2. \A i \in 1..Len(z) : Len(c.m[z[i]]) \in Nat
    BY <1>2
  <2>3. u[0] = 0
    OBVIOUS
  <2> HIDE DEF u
  <2>4. RunesOf(c, z) = u[Len(z)]
    BY <1>2, <2>1, <2>2, SumIs DEF u
  <2> QED BY <1>2, <2>3, <2>4
<1>9. KeptBy(c, z)
  BY <1>2, <1>5, <1>6, <1>7, <1>8 DEF KeptBy
<1>10. CacheIs(c, L)
  BY <1>2, <1>5, <1>9, OriginalAssumption DEF CacheIs
<1> QED BY <1>1, <1>10

\* An entry that is read keeps the cache.
LEMMA ReadKept ==
  ASSUME NEW c, NEW L, CacheIs(c, L), NEW e, Cached(c, e)
  PROVE  CacheIs(toFront(c, e), L)
<1> DEFINE d == toFront(c, e)
<1>1. PICK s : KeptBy(c, s)
  BY DEF CacheIs
<1>2. /\ c \in CacheT /\ s \in Seq(Nat) /\ Chain(c, s) /\ c.runes = RunesOf(c, s)
      /\ ToSet(s) = DOMAIN c.m /\ DOMAIN c.prev = ToSet(s) /\ DOMAIN c.next = ToSet(s)
  BY <1>1 DEF KeptBy
<1>3. PICK k \in 1..Len(s) : s[k] = e
  <2>1. e \in ToSet(s)
    BY <1>2 DEF Cached
  <2> QED BY <1>2, <2>1 DEF ToSet
<1> DEFINE a == RemoveAt(s, k)
           t == InsertAt(a, 1, e)
<1>4. /\ d \in CacheT /\ d.m = c.m /\ d.runes = c.runes
      /\ DOMAIN d.prev = ToSet(s) /\ DOMAIN d.next = ToSet(s)
      /\ Chain(d, s) \/ Chain(d, t)
  <2>1. LET u == toFront(c, s[k])
        IN  /\ u \in CacheT /\ u.m = c.m /\ u.runes = c.runes
            /\ DOMAIN u.prev = ToSet(s) /\ DOMAIN u.next = ToSet(s)
            /\ Chain(u, s) \/ Chain(u, InsertAt(RemoveAt(s, k), 1, s[k]))
    BY <1>2, FrontResult
  <2> QED BY <1>3, <2>1
<1>5. a \in Seq(Nat)
  BY <1>2, RemoveAtResult
<1>6. ToSet(a) = ToSet(s) \ {e} /\ IsInjective(a)
  BY <1>2, <1>3, RemoveKeeps DEF Chain
<1>7. e \in Nat /\ e \in ToSet(s)
  BY <1>2, <1>3 DEF ToSet
<1>8. \A i \in 1..Len(s) : Len(c.m[s[i]]) \in Nat
  BY <1>1, KeptFacts
<1>9. RunesOf(c, a) = RunesOf(c, s) - Len(c.m[e])
  BY <1>2, <1>3, <1>8, RunesRemoved
<1>10. \A j \in DOMAIN c.m : Len(c.m[j]) \in Nat
  BY <1>1, KeptFacts
<1>11. \A i \in 1..Len(a) : Len(c.m[a[i]]) \in Nat
  <2>1. \A i \in 1..Len(a) : a[i] \in ToSet(a)
    BY <1>5 DEF ToSet
  <2> QED BY <1>2, <1>6, <1>10, <2>1
<1> HIDE DEF d, a
<1>12. t \in Seq(Nat) /\ ToSet(t) = ToSet(s)
  <2>1. 1 \in 1..(Len(a) + 1)
    BY <1>5
  <2>2. t \in Seq(Nat)
    BY <1>5, <1>7, <2>1, InsertAtResult
  <2>3. ToSet(t) = ToSet(a) \cup {e}
    BY <1>5, <1>7, <2>1, InsertKeeps
  <2> QED BY <1>6, <1>7, <2>2, <2>3
<1>13. RunesOf(c, t) = RunesOf(c, a) + Len(c.m[e])
  <2>1. Len(c.m[e]) \in Nat
    BY <1>2, <1>7, <1>10
  <2> QED BY <1>5, <1>7, <1>11, <2>1, RunesInFront
<1> HIDE DEF t
<1>14. c.runes \in Int /\ Len(c.m[e]) \in Nat
  BY <1>2, <1>7, <1>10 DEF CacheT
<1>15. RunesOf(c, t) = c.runes
  BY <1>2, <1>9, <1>13, <1>14
<1>16. \E x : KeptBy(d, x)
  <2>1. CASE Chain(d, s)
    <3>1. RunesOf(d, s) = RunesOf(c, s)
      BY <1>2, <1>4, <1>8, SameRunes
    <3>2. KeptBy(d, s)
      BY <1>2, <1>4, <2>1, <3>1 DEF KeptBy
    <3> QED BY <3>2
  <2>2. CASE Chain(d, t)
    <3>1. \A i \in 1..Len(t) : Len(c.m[t[i]]) \in Nat
      <4>1. \A i \in 1..Len(t) : t[i] \in ToSet(t)
        BY <1>12 DEF ToSet
      <4> QED BY <1>2, <1>10, <1>12, <4>1
    <3>2. RunesOf(d, t) = RunesOf(c, t)
      BY <1>4, <1>12, <3>1, SameRunes
    <3>3. KeptBy(d, t)
      BY <1>2, <1>4, <1>12, <1>15, <2>2, <3>2 DEF KeptBy
    <3> QED BY <3>3
  <2> QED BY <1>4, <2>1, <2>2
<1> QED BY <1>4, <1>16 DEF CacheIs, d

\* The elements of a list with a new first one.
LEMMA FrontKeeps ==
  ASSUME NEW s \in Seq(Nat), NEW e \in Nat
  PROVE  InsertAt(s, 1, e) \in Seq(Nat) /\ ToSet(InsertAt(s, 1, e)) = ToSet(s) \cup {e}
<1>1. 1 \in 1..(Len(s) + 1)
  OBVIOUS
<1>2. InsertAt(s, 1, e) \in Seq(Nat)
  BY <1>1, InsertAtResult
<1>3. ToSet(InsertAt(s, 1, e)) = ToSet(s) \cup {e}
  BY <1>1, InsertKeeps
<1> QED BY <1>2, <1>3

\* A line that is put keeps the cache.
LEMMA PutKept ==
  ASSUME NEW c, NEW L, CacheIs(c, L), NEW e \in Nat, ~ Cached(c, e), e < Len(L),
         NEW x \in Text, x = L[e + 1]
  PROVE  CacheIs(put(c, e, x), L)
<1> DEFINE mm == With(c.m, e, x)
           ru == c.runes + Len(x)
           b == [c EXCEPT !.m = mm, !.runes = ru]
           d == pushFront(b, e)
           t(s) == InsertAt(s, 1, e)
<1>1. put(c, e, x) = evict(d)
  BY DEF put
<1>2. PICK s : KeptBy(c, s)
  BY DEF CacheIs
<1>3. /\ c \in CacheT /\ s \in Seq(Nat) /\ Chain(c, s) /\ c.runes = RunesOf(c, s)
      /\ ToSet(s) = DOMAIN c.m /\ DOMAIN c.prev = ToSet(s) /\ DOMAIN c.next = ToSet(s)
  BY <1>2 DEF KeptBy
<1>4. e \notin ToSet(s)
  BY <1>3 DEF Cached
<1>5. Len(x) \in Nat
  BY DEF Text
<1>6. c.m \in Maps(Text) /\ c.runes \in Int
  BY <1>3 DEF CacheT
<1>7. /\ mm \in Maps(Text) /\ DOMAIN mm = DOMAIN c.m \cup {e} /\ mm[e] = x
      /\ \A j \in DOMAIN c.m : j # e => mm[j] = c.m[j]
  <2>1. IsWith(Text, c.m, e, x, mm)
    BY <1>6, WithIs
  <2> HIDE DEF mm
  <2> QED BY <2>1 DEF IsWith
<1>8. ru \in Int
  BY <1>5, <1>6
<1> HIDE DEF mm, ru
<1>9. /\ b \in CacheT /\ b.m = mm /\ b.runes = ru /\ b.prev = c.prev /\ b.next = c.next
      /\ b.head = c.head /\ b.tail = c.tail
  <2>1. mm \in Maps(Text)
    BY <1>7
  <2> QED BY <1>3, <1>8, <2>1 DEF CacheT
<1> HIDE DEF b
<1>10. Chain(b, s)
  BY <1>3, <1>9 DEF Chain
<1>11. /\ d \in CacheT /\ d.m = b.m /\ d.runes = b.runes
       /\ DOMAIN d.prev = DOMAIN b.prev \cup {e} /\ DOMAIN d.next = DOMAIN b.next \cup {e}
       /\ Chain(d, t(s))
  BY <1>3, <1>4, <1>9, <1>10, PushResult
<1>12. t(s) \in Seq(Nat) /\ ToSet(t(s)) = ToSet(s) \cup {e}
  BY <1>3, FrontKeeps
<1>13. \A i \in 1..Len(s) : Len(c.m[s[i]]) \in Nat /\ s[i] \in DOMAIN c.m
  BY <1>2, KeptFacts
<1>14. RunesOf(c, s) = RunesOf(d, s)
  <2>1. \A i \in 1..Len(s) : d.m[s[i]] = c.m[s[i]]
    BY <1>3, <1>4, <1>7, <1>9, <1>11, <1>13
  <2> HIDE DEF d
  <2> QED BY <1>3, <1>13, <2>1, SameRunes
<1>15. \A i \in 1..Len(s) : Len(d.m[s[i]]) \in Nat
  BY <1>3, <1>4, <1>7, <1>9, <1>11, <1>13
<1> HIDE DEF d
<1>16. RunesOf(d, t(s)) = RunesOf(d, s) + Len(d.m[e])
  <2>1. Len(d.m[e]) \in Nat
    BY <1>5, <1>7, <1>9, <1>11
  <2> QED BY <1>3, <1>15, <2>1, RunesInFront
<1>17. d.runes = RunesOf(d, t(s))
  BY <1>3, <1>7, <1>9, <1>11, <1>14, <1>16 DEF ru
<1>18. KeptBy(d, t(s))
  <2> HIDE DEF t
  <2> QED BY <1>3, <1>7, <1>9, <1>11, <1>12, <1>17 DEF KeptBy
<1>19. d \in Within(d)
  BY <1>11, <1>18 DEF Within
<1> DEFINE f == evict(d)
<1>20. f \in Within(d) /\ ~ OverBudget(f)
  BY <1>19, EvictResult
<1> HIDE DEF f
<1>21. f \in CacheT /\ (\E y : KeptBy(f, y)) /\ DOMAIN f.m \subseteq DOMAIN d.m
       /\ \A j \in DOMAIN f.m : f.m[j] = d.m[j]
  BY <1>20 DEF Within
<1>22. \A j \in DOMAIN d.m : j < Len(L) /\ d.m[j] = L[j + 1]
  <2>1. \A j \in DOMAIN c.m : j < Len(L) /\ c.m[j] = L[j + 1]
    BY DEF CacheIs
  <2> QED BY <1>7, <1>9, <1>11, <2>1
<1>23. f.runes <= Budget \/ Cardinality(DOMAIN f.m) = 1
  <2>1. PICK y : KeptBy(f, y)
    BY <1>21
  <2>2. y \in Seq(Nat) /\ f.tail = At(y, Len(y)) /\ f.runes = RunesOf(f, y) /\ f.runes \in Int
    BY <2>1 DEF KeptBy, Chain, CacheT
  <2>3. Cardinality(DOMAIN f.m) = Len(y) /\ Len(y) \in Nat
    BY <2>1, KeptFacts
  <2>4. CASE Len(y) = 0
    <3>1. Sums(f, y, [i \in 0..0 |-> 0])
      <4>1. \A i \in 1..0 : FALSE
        OBVIOUS
      <4> QED BY <2>4, <4>1 DEF Sums
    <3> DEFINE u == [i \in 0..0 |-> 0]
    <3>2. \A i \in 1..Len(y) : Len(f.m[y[i]]) \in Nat
      BY <2>4
    <3>3. u[0] = 0
      OBVIOUS
    <3> HIDE DEF u
    <3>4. RunesOf(f, y) = u[Len(y)]
      BY <2>2, <3>1, <3>2, SumIs DEF u
    <3>5. f.runes = 0
      BY <2>2, <2>4, <3>3, <3>4
    <3> QED BY <3>5, OriginalAssumption
  <2>5. CASE Len(y) > 1
    <3>1. Len(y) \in 1..Len(y)
      BY <2>3, <2>5
    <3>2. f.tail = y[Len(y)] /\ y[Len(y)] \in Nat
      BY <2>2, <3>1 DEF At
    <3>3. f.tail # Nil
      BY <3>2 DEF Nil
    <3> QED BY <1>20, <2>2, <2>3, <2>5, <3>3, OriginalAssumption DEF OverBudget
  <2> QED BY <2>3, <2>4, <2>5
<1>24. CacheIs(f, L)
  BY <1>21, <1>22, <1>23 DEF CacheIs
<1> QED BY <1>1, <1>24 DEF f

-----------------------------------------------------------------------------
(***************************************************************************)
(* The reader of the file: its index, its cursor and the line it reads.    *)
(***************************************************************************)

\* The offset of a line of a file; behind the last line, its end.
StartIn(g, n) == IF n <= Len(LineEnds(g)) THEN Start(g, n) ELSE Len(g)

\* The reader of a file that was g when it was opened and is f now.
ReaderIs(o, f, g) ==
  /\ o \in [nlines : {LineCount(g)}, checkpoints : {newOriginal(g).checkpoints}, cache : CacheT,
            blockPos : Nat, blockBuf : Seq(Byte), seqLine : Nat, seqPos : Nat]
  /\ CacheIs(o.cache, LinesOf(g)) /\ BlockOf(o, f)
  /\ o.seqLine # 0 => o.seqLine <= LineCount(g) /\ o.seqPos = StartIn(g, o.seqLine)

\* The checkpoints are the starts of every Stride-th line.
CheckpointsAre(g, c) ==
  /\ \A j \in DOMAIN c : (j - 1) * Stride \in 0..Len(LineEnds(g)) /\ c[j] = Start(g, (j - 1) * Stride)
  /\ \A n \in 0..Len(LineEnds(g)) :
       /\ 1 + n \div Stride \in DOMAIN c /\ (n \div Stride) * Stride \in 0..n
       /\ c[1 + n \div Stride] = Start(g, (n \div Stride) * Stride)

\* The index built when the file is opened.
LEMMA CheckpointsResult ==
  ASSUME NEW g \in Seq(Byte)
  PROVE  CheckpointsAre(g, newOriginal(g).checkpoints)
<1> DEFINE E == LineEnds(g)
           c == newOriginal(g).checkpoints
<1>1. Stride \in Nat \ {0} /\ Len(E) \in Nat
  BY OriginalAssumption, StartFacts
<1>2. c = [j \in 1..(1 + Len(E) \div Stride) |-> IF j = 1 THEN 0 ELSE E[(j - 1) * Stride]]
  BY DEF newOriginal
<1> HIDE DEF c, E
<1>3. \A n \in Nat : /\ n \div Stride \in Nat
                     /\ (n \div Stride) * Stride \in 0..n
  <2> SUFFICES ASSUME NEW n \in Nat
               PROVE  n \div Stride \in Nat /\ (n \div Stride) * Stride \in 0..n
    OBVIOUS
  <2> DEFINE q == n \div Stride
  <2>1. q \in Int /\ Stride * q <= n
    BY <1>1, QuotientIs
  <2>2. 0 \div Stride = 0 /\ 0 \div Stride <= q
    <3>1. 0 \div Stride = 0
      BY <1>1
    <3> QED BY <1>1, <3>1, QuotientGrows
  <2> HIDE DEF q
  <2>3. q \in Nat
    BY <2>1, <2>2
  <2>4. Stride * q = q * Stride /\ q * Stride \in Nat
    BY <1>1, <2>3
  <2> QED BY <2>1, <2>3, <2>4 DEF q
<1>4. \A q \in Nat : q <= Len(E) \div Stride => q * Stride \in 0..Len(E)
  <2> TAKE q \in Nat
  <2> HAVE q <= Len(E) \div Stride
  <2> DEFINE m == Len(E) \div Stride
  <2>1. m \in Nat /\ m * Stride \in 0..Len(E)
    BY <1>1, <1>3
  <2> HIDE DEF m
  <2>2. Stride * q <= Stride * m
    BY <1>1, <2>1, TimesGrows DEF m
  <2>3. Stride * q = q * Stride /\ Stride * m = m * Stride /\ q * Stride \in Nat
    BY <1>1, <2>1
  <2> QED BY <1>1, <2>1, <2>2, <2>3
<1>5. \A q \in Nat : q <= Len(E) \div Stride =>
        1 + q \in DOMAIN c /\ c[1 + q] = Start(g, q * Stride)
  <2> SUFFICES ASSUME NEW q \in Nat, q <= Len(E) \div Stride
               PROVE  1 + q \in DOMAIN c /\ c[1 + q] = Start(g, q * Stride)
    OBVIOUS
  <2>1. 1 + q \in 1..(1 + Len(E) \div Stride) /\ (1 + q) - 1 = q
    BY <1>1, <1>3
  <2>2. 1 + q \in DOMAIN c /\ c[1 + q] = IF 1 + q = 1 THEN 0 ELSE E[q * Stride]
    BY <1>2, <2>1
  <2>3. 1 + q = 1 <=> q * Stride = 0
    <3>1. CASE q = 0
      BY <1>1, <3>1
    <3>2. CASE q # 0
      <4>1. Stride * 1 <= Stride * q /\ Stride * q = q * Stride
        BY <1>1, <3>2, TimesGrows
      <4> QED BY <1>1, <3>2, <4>1
    <3> QED BY <3>1, <3>2
  <2> QED BY <2>2, <2>3 DEF Start, E
<1>6. ASSUME NEW j \in DOMAIN c
      PROVE  (j - 1) * Stride \in 0..Len(E) /\ c[j] = Start(g, (j - 1) * Stride)
  <2>1. j \in 1..(1 + Len(E) \div Stride)
    BY <1>2
  <2>2. j - 1 \in Nat /\ j - 1 <= Len(E) \div Stride /\ 1 + (j - 1) = j
    BY <1>1, <1>3, <2>1
  <2> QED BY <1>4, <1>5, <2>2
<1>7. ASSUME NEW n \in 0..Len(E)
      PROVE  /\ 1 + n \div Stride \in DOMAIN c /\ (n \div Stride) * Stride \in 0..n
             /\ c[1 + n \div Stride] = Start(g, (n \div Stride) * Stride)
  <2> DEFINE m == Len(E)
  <2>1. n \in Nat /\ n <= m /\ n \in Int /\ m \in Int
    BY <1>1
  <2>2. n \div Stride <= m \div Stride
    <3> HIDE DEF m
    <3> QED BY <1>1, <2>1, QuotientGrows
  <2> QED BY <1>3, <1>5, <2>1, <2>2
<1> QED BY <1>6, <1>7 DEF CheckpointsAre, E, c

\* A file just opened.
LEMMA NewReader ==
  ASSUME NEW g \in Seq(Byte)
  PROVE  ReaderIs(newOriginal(g), g, g) /\ Grown(g, g)
<1> DEFINE o == newOriginal(g)
           c == o.checkpoints
<1>1. o = [nlines |-> LineCount(g), checkpoints |-> c, cache |-> newOrigCache,
           blockPos |-> 0, blockBuf |-> <<>>, seqLine |-> 0, seqPos |-> 0]
  BY DEF newOriginal, LineCount
<1> HIDE DEF o, c
<1>2. CacheIs(o.cache, LinesOf(g)) /\ o.cache \in CacheT
  <2>1. CacheIs(newOrigCache, LinesOf(g))
    BY NewCache
  <2> QED BY <1>1, <2>1 DEF CacheIs
<1>3. o \in [nlines : {LineCount(g)}, checkpoints : {c}, cache : CacheT,
             blockPos : Nat, blockBuf : Seq(Byte), seqLine : Nat, seqPos : Nat]
  <2>1. newOrigCache \in CacheT
    BY <1>1, <1>2
  <2>2. <<>> \in Seq(Byte)
    OBVIOUS
  <2> QED BY <1>1, <2>1, <2>2
<1>4. BlockOf(o, g)
  <2>1. SubSeq(g, 0 + 1, 0 + Len(<<>>)) = <<>> /\ Len(<<>>) = 0 /\ Len(g) \in Nat
    OBVIOUS
  <2>2. o.blockPos = 0 /\ o.blockBuf = <<>>
    BY <1>1
  <2> QED BY <2>1, <2>2 DEF BlockOf
<1>5. o.seqLine = 0
  BY <1>1
<1>6. Grown(g, g)
  <2>1. g = g \o <<>> /\ <<>> \in Seq(Byte)
    BY ConcatEmptySeq
  <2> QED BY <2>1 DEF Grown
<1> QED BY <1>2, <1>3, <1>4, <1>5, <1>6 DEF ReaderIs, o, c

\* Where the search for a line begins: at the cursor or at a checkpoint.
From(o, n) == IF CursorServes(o, n) THEN o.seqLine ELSE (n \div Stride) * Stride
FromPos(o, n) == IF CursorServes(o, n) THEN o.seqPos ELSE o.checkpoints[1 + n \div Stride]

\* The search begins at the start of a line not behind the one sought.
LEMMA SearchBegins ==
  ASSUME NEW g \in Seq(Byte), NEW f, Grown(f, g), NEW o, ReaderIs(o, f, g),
         NEW n \in 0..(LineCount(g) - 1)
  PROVE  /\ n \in 0..Len(LineEnds(f))
         /\ [o |-> o, pos |-> FromPos(o, n), n |-> n - From(o, n)] \in Skipping(o, f, n)
<1> DEFINE E == LineEnds(g)
           a == From(o, n)
           p == FromPos(o, n)
<1>1. /\ f \in Seq(Byte) /\ Len(E) \in Nat /\ Len(E) <= Len(LineEnds(f)) /\ Len(LineEnds(f)) \in Nat
      /\ \A m \in 0..Len(E) : Start(f, m) = Start(g, m)
  BY GrownEnds DEF OldEnds
<1>2. n \in 0..Len(E) /\ LineCount(g) \in Nat
  BY <1>1, LinesResult DEF LineCount
<1>3. n \in 0..Len(LineEnds(f))
  BY <1>1, <1>2
<1>4. a \in 0..n /\ p = Start(g, a)
  <2>1. CASE CursorServes(o, n)
    <3>1. a = o.seqLine /\ p = o.seqPos /\ o.seqLine # 0 /\ o.seqLine <= n
      BY <2>1 DEF CursorServes, From, FromPos
    <3>2. o.seqLine \in Nat /\ o.seqPos = StartIn(g, o.seqLine)
      BY <3>1 DEF ReaderIs
    <3> QED BY <1>1, <1>2, <3>1, <3>2 DEF StartIn
  <2>2. CASE ~ CursorServes(o, n)
    <3>1. a = (n \div Stride) * Stride /\ p = o.checkpoints[1 + n \div Stride]
      BY <2>2 DEF From, FromPos
    <3>2. o.checkpoints = newOriginal(g).checkpoints
      BY DEF ReaderIs
    <3>3. CheckpointsAre(g, o.checkpoints)
      BY <3>2, CheckpointsResult
    <3> QED BY <1>2, <3>1, <3>3 DEF CheckpointsAre
  <2> QED BY <2>1, <2>2
<1> HIDE DEF a, p
<1>5. a \in 0..Len(LineEnds(f)) /\ p = Start(f, a)
  <2>1. a \in 0..Len(E)
    BY <1>1, <1>2, <1>4
  <2> QED BY <1>1, <1>4, <2>1
<1>6. p \in 0..Len(f) /\ Count(f, p) = a
  BY <1>1, <1>5, CountStart
<1>7. o \in Readers(o) /\ BlockOf(o, f)
  BY DEF ReaderIs, Readers
<1>8. n - a \in Nat /\ a + (n - a) = n /\ (n - a = 0 => a = n)
  BY <1>2, <1>4
<1> DEFINE s == [o |-> o, pos |-> p, n |-> n - a]
<1>9. s \in [o : Readers(o), pos : 0..Len(f), n : Nat]
  BY <1>6, <1>7, <1>8
<1>10. s.o = o /\ s.pos = p /\ s.n = n - a
  OBVIOUS
<1> HIDE DEF s
<1>11. s \in Skipping(o, f, n)
  BY <1>5, <1>6, <1>7, <1>8, <1>9, <1>10 DEF Skipping
<1> QED BY <1>3, <1>11 DEF s, a, p

\* Readers of a reader of o are readers of o.
LEMMA SameReaders ==
  ASSUME NEW o, NEW r \in Readers(o)
  PROVE  Readers(r) = Readers(o) /\ r \in Readers(r)
<1>1. /\ r.nlines = o.nlines /\ r.checkpoints = o.checkpoints /\ r.cache = o.cache
      /\ r.seqLine = o.seqLine /\ r.seqPos = o.seqPos
  BY ReadersFacts
<1>2. Readers(r) = Readers(o)
  BY <1>1 DEF Readers
<1> QED BY <1>2

\* The line is found and read.
Got(o, f, n) == Content(Skip(o, f, FromPos(o, n), n - From(o, n)).o, f,
                        Skip(o, f, FromPos(o, n), n - From(o, n)).pos)

\* It finds the line, and ends where the next one starts.
LEMMA GotResult ==
  ASSUME NEW g \in Seq(Byte), NEW f, Grown(f, g), NEW o, ReaderIs(o, f, g),
         NEW n \in 0..(LineCount(g) - 1)
  PROVE  /\ Got(o, f, n).o \in Readers(o) /\ BlockOf(Got(o, f, n).o, f)
         /\ Got(o, f, n).text = LinesOf(g)[n + 1]
         /\ Got(o, f, n).pos = StartIn(g, n + 1)
<1> DEFINE there == Skip(o, f, FromPos(o, n), n - From(o, n))
           p == there.pos
           r == there.o
<1>1. f \in Seq(Byte) /\ Len(LineEnds(g)) \in Nat
  BY GrownEnds DEF OldEnds
<1>2. /\ n \in 0..Len(LineEnds(f))
      /\ [o |-> o, pos |-> FromPos(o, n), n |-> n - From(o, n)] \in Skipping(o, f, n)
  BY SearchBegins
<1>3. r \in Readers(o) /\ BlockOf(r, f) /\ p = Start(f, n)
  BY <1>1, <1>2, SkipResult
<1>4. Got(o, f, n) = Content(r, f, p)
  BY DEF Got
<1> HIDE DEF r, p
<1>5. LineAt(f, g, n)
  BY LineFound
<1>6. p \in 0..Len(f)
  BY <1>3, <1>5 DEF LineAt
<1>7. Readers(r) = Readers(o) /\ r \in Readers(r)
  BY <1>3, SameReaders
<1> DEFINE c == Content(r, f, p)
<1>8. /\ c.o \in Readers(r) /\ BlockOf(c.o, f)
      /\ c.text = SubSeq(f, p + 1, Stop(f, p)) /\ c.pos = Behind(f, p)
  BY <1>1, <1>3, <1>6, <1>7, ContentResult
<1> HIDE DEF c
<1>9. c.text = LinesOf(g)[n + 1]
  BY <1>3, <1>5, <1>8 DEF LineAt
<1>10. c.pos = IF n < Len(LineEnds(g)) THEN LineEnds(g)[n + 1] ELSE Len(g)
  BY <1>3, <1>5, <1>8 DEF LineAt
<1>11. n \in Nat /\ LineCount(g) \in Nat
  BY LinesResult
<1>12. c.pos = StartIn(g, n + 1)
  BY <1>1, <1>10, <1>11 DEF StartIn, Start
<1> QED BY <1>4, <1>7, <1>8, <1>9, <1>12 DEF c

\* The reader with the cursor and the cache it has after a line.
LEMMA ReaderAfter ==
  ASSUME NEW A, NEW C, NEW K, NEW B,
         NEW v \in [nlines : A, checkpoints : C, cache : K, blockPos : Nat, blockBuf : B,
                    seqLine : Nat, seqPos : Nat],
         NEW n \in Nat, NEW p \in Nat, NEW c \in K
  PROVE  LET q == [v EXCEPT !.seqLine = n, !.seqPos = p, !.cache = c]
         IN  /\ q \in [nlines : A, checkpoints : C, cache : K, blockPos : Nat, blockBuf : B,
                       seqLine : Nat, seqPos : Nat]
             /\ q.cache = c /\ q.seqLine = n /\ q.seqPos = p
             /\ q.blockPos = v.blockPos /\ q.blockBuf = v.blockBuf
OBVIOUS

\* What is read is the line, and the reader stays sound.
LEMMA ReadLineResult ==
  ASSUME NEW g \in Seq(Byte), NEW f, Grown(f, g), NEW o, ReaderIs(o, f, g),
         NEW n \in 0..(LineCount(g) - 1)
  PROVE  LET r == ReadLine(o, f, n)
         IN  r.text = LinesOf(g)[n + 1] /\ ReaderIs(r.o, f, g)
<1> DEFINE L == LinesOf(g)
           ReaderT == [nlines : {LineCount(g)}, checkpoints : {newOriginal(g).checkpoints},
                       cache : CacheT, blockPos : Nat, blockBuf : Seq(Byte),
                       seqLine : Nat, seqPos : Nat]
           r == ReadLine(o, f, n)
           b == Got(o, f, n)
           old == [text |-> o.cache.m[n], o |-> [o EXCEPT !.cache = toFront(@, n)]]
           new == [text |-> b.text,
                   o |-> [b.o EXCEPT !.seqLine = n + 1, !.seqPos = b.pos,
                                     !.cache = put(@, n, b.text)]]
<1>1. /\ o \in ReaderT /\ CacheIs(o.cache, L) /\ BlockOf(o, f)
      /\ o.seqLine # 0 => o.seqLine <= LineCount(g) /\ o.seqPos = StartIn(g, o.seqLine)
  BY DEF ReaderIs
<1>2. n \in Nat /\ LineCount(g) \in Nat /\ n + 1 \in 1..LineCount(g) /\ o.nlines = LineCount(g)
  BY <1>1, LinesResult
<1>3. r = IF Cached(o.cache, n) THEN old ELSE new
  <2>1. ~ (n < 0 \/ n >= o.nlines)
    BY <1>2
  <2> QED BY <2>1 DEF ReadLine, Got, From, FromPos
<1> HIDE DEF r
<1>4. CASE Cached(o.cache, n)
  <2> DEFINE c == toFront(o.cache, n)
             q == [o EXCEPT !.cache = c]
  <2>1. r.text = o.cache.m[n] /\ r.o = q
    BY <1>3, <1>4
  <2>2. r.text = L[n + 1]
    BY <1>1, <1>4, <2>1 DEF CacheIs, Cached
  <2>3. CacheIs(c, L) /\ c \in CacheT
    <3>1. CacheIs(c, L)
      BY <1>1, <1>4, ReadKept
    <3> QED BY <3>1 DEF CacheIs
  <2> HIDE DEF c
  <2>4. q \in ReaderT /\ q.cache = c
    BY <1>1, <2>3
  <2>5. q.blockPos = o.blockPos /\ q.blockBuf = o.blockBuf /\ q.seqLine = o.seqLine /\ q.seqPos = o.seqPos
    BY <1>1
  <2> HIDE DEF q
  <2>6. BlockOf(q, f)
    BY <1>1, <2>5 DEF BlockOf
  <2>7. ReaderIs(q, f, g)
    BY <1>1, <2>3, <2>4, <2>5, <2>6 DEF ReaderIs
  <2> QED BY <2>1, <2>2, <2>7 DEF r
<1>5. CASE ~ Cached(o.cache, n)
  <2> DEFINE c == put(b.o.cache, n, b.text)
             v == b.o
             q == [v EXCEPT !.seqLine = n + 1, !.seqPos = b.pos, !.cache = c]
  <2>1. r.text = b.text /\ r.o = q
    BY <1>3, <1>5
  <2>2. v \in Readers(o) /\ BlockOf(v, f) /\ b.text = L[n + 1] /\ b.pos = StartIn(g, n + 1)
    BY GotResult
  <2> HIDE DEF b, L
  <2>3. v.cache = o.cache /\ v \in ReaderT
    <3>1. v.cache = o.cache
      BY <2>2, ReadersFacts
    <3>2. v \in ReaderT
      BY <1>1, <2>2 DEF Readers
    <3> QED BY <3>1, <3>2
  <2>4. L \in Seq(Text) /\ Len(L) = LineCount(g)
    BY LinesAreText DEF L
  <2>5. b.text \in Text /\ n < Len(L)
    BY <1>2, <2>2, <2>4
  <2>6. CacheIs(c, L) /\ c \in CacheT
    <3>1. CacheIs(c, L)
      BY <1>1, <1>2, <1>5, <2>2, <2>3, <2>5, PutKept
    <3> QED BY <3>1 DEF CacheIs
  <2>7. b.pos \in Nat
    <3>1. /\ Len(LineEnds(g)) \in Nat /\ Len(g) \in Nat
          /\ \A m \in 0..Len(LineEnds(g)) : Start(g, m) \in 0..Len(g)
      BY StartFacts
    <3> QED BY <1>2, <2>2, <3>1 DEF StartIn
  <2> HIDE DEF c, v
  <2>8. q \in ReaderT /\ q.cache = c /\ q.seqLine = n + 1 /\ q.seqPos = b.pos
    <3>1. n + 1 \in Nat
      BY <1>2
    <3> QED BY <2>3, <2>6, <2>7, <3>1, ReaderAfter
  <2>9. q.blockPos = v.blockPos /\ q.blockBuf = v.blockBuf
    BY <2>3
  <2> HIDE DEF q
  <2>10. BlockOf(q, f)
    BY <2>2, <2>9 DEF BlockOf
  <2>11. ReaderIs(q, f, g)
    BY <1>2, <2>2, <2>6, <2>8, <2>10 DEF ReaderIs, L
  <2> QED BY <2>1, <2>2, <2>11 DEF r, L
<1> QED BY <1>4, <1>5

-----------------------------------------------------------------------------
(***************************************************************************)
(* The buffer that a list of references stands for.                        *)
(***************************************************************************)

LineOf(ref, added) == IF ref[1] THEN added[ref[2] + 1] ELSE LinesOf(opened)[ref[2] + 1]

Shown(s, added) == [i \in DOMAIN s |-> LineOf(s[i], added)]

\* BufferOf, by the list of references.
LEMMA BufferIs ==
  ASSUME NEW t, NEW s, Holds(t, s), NEW added
  PROVE  BufferOf(t, added) = Shown(s, added)
BY DEF BufferOf, Shown, LineOf, Holds

\* The references to n lines added and to the lines of the file.
RefsIn(n) == ({TRUE} \X (0..(n - 1))) \cup ({FALSE} \X (0..(LineCount(opened) - 1)))

\* Each line is in the list once.
Once(s, n) == s \in Seq(Ref) /\ IsInjective(s) /\ ToSet(s) \subseteq RefsIn(n)

\* The next line added has a reference of its own.
LEMMA RefsGrow ==
  ASSUME NEW n \in Nat
  PROVE  /\ <<TRUE, n>> \in Ref /\ <<TRUE, n>> \notin RefsIn(n) /\ <<TRUE, n>> \in RefsIn(n + 1)
         /\ RefsIn(n) \subseteq RefsIn(n + 1)
<1> DEFINE A == 0..(n - 1)
           B == 0..(n + 1 - 1)
           C == 0..(LineCount(opened) - 1)
<1>1. n \notin A /\ n \in B /\ A \subseteq B
  OBVIOUS
<1>2. /\ RefsIn(n) = ({TRUE} \X A) \cup ({FALSE} \X C)
      /\ RefsIn(n + 1) = ({TRUE} \X B) \cup ({FALSE} \X C)
  BY DEF RefsIn
<1> HIDE DEF A, B, C
<1>3. <<TRUE, n>> \in {TRUE} \X B
  BY <1>1
<1>4. <<TRUE, n>> \notin {TRUE} \X A /\ <<TRUE, n>> \notin {FALSE} \X C
  BY <1>1
<1>5. {TRUE} \X A \subseteq {TRUE} \X B
  BY <1>1
<1>6. <<TRUE, n>> \in Ref
  BY DEF Ref
<1> QED BY <1>2, <1>3, <1>4, <1>5, <1>6

\* The line of a reference, and that adding a line changes none.
LEMMA LineOfIs ==
  ASSUME opened \in Seq(Byte), NEW added \in Seq(Text), NEW ref \in RefsIn(Len(added)), NEW x \in Text
  PROVE  /\ LineOf(ref, added) \in Text
         /\ LineOf(ref, Append(added, x)) = LineOf(ref, added)
         /\ LineOf(<<TRUE, Len(added)>>, Append(added, x)) = x
<1> DEFINE n == Len(added)
<1>1. /\ n \in Nat /\ \A i \in 1..n : added[i] \in Text /\ Append(added, x)[i] = added[i]
      /\ Append(added, x)[n + 1] = x
  OBVIOUS
<1>2. LinesOf(opened) \in Seq(Text) /\ Len(LinesOf(opened)) = LineCount(opened)
  BY LinesAreText
<1>3. LineCount(opened) \in Nat
  BY LinesResult
<1>4. CASE ref[1] = TRUE /\ ref[2] \in 0..(n - 1)
  <2>1. ref[2] + 1 \in 1..n
    BY <1>1, <1>4
  <2> QED BY <1>1, <1>4, <2>1 DEF LineOf
<1>5. CASE ref[1] = FALSE /\ ref[2] \in 0..(LineCount(opened) - 1)
  <2>1. ref[2] + 1 \in 1..LineCount(opened)
    BY <1>3, <1>5
  <2>2. LinesOf(opened)[ref[2] + 1] \in Text
    BY <1>2, <2>1, ElementOfSeq
  <2> QED BY <1>1, <1>5, <2>2 DEF LineOf
<1>6. \/ ref[1] = TRUE /\ ref[2] \in 0..(n - 1)
      \/ ref[1] = FALSE /\ ref[2] \in 0..(LineCount(opened) - 1)
  BY DEF RefsIn
<1> QED BY <1>4, <1>5, <1>6

ShownIs(s, added, u) ==
  /\ u \in Seq(Text) /\ Len(u) = Len(s) /\ Len(s) \in Nat
  /\ \A i \in 1..Len(s) : u[i] = LineOf(s[i], added) /\ s[i] \in RefsIn(Len(added))

\* A list of references stands for a buffer of its length.
LEMMA ShownResult ==
  ASSUME opened \in Seq(Byte), NEW added \in Seq(Text), NEW s, Once(s, Len(added))
  PROVE  ShownIs(s, added, Shown(s, added))
<1> DEFINE u == Shown(s, added)
<1>1. Len(s) \in Nat /\ DOMAIN s = 1..Len(s)
  BY DEF Once
<1>2. \A i \in 1..Len(s) : s[i] \in RefsIn(Len(added))
  BY <1>1 DEF Once, ToSet
<1>3. DOMAIN u = 1..Len(s) /\ \A i \in 1..Len(s) : u[i] = LineOf(s[i], added)
  BY <1>1 DEF Shown
<1>4. \A i \in 1..Len(s) : LineOf(s[i], added) \in Text
  <2>1. <<>> \in Text
    BY DEF Text
  <2> QED BY <1>2, <2>1, LineOfIs
<1>5. u = [i \in 1..Len(s) |-> LineOf(s[i], added)]
  BY <1>1 DEF Shown
<1>6. u \in [1..Len(s) -> Text]
  BY <1>4, <1>5
<1> HIDE DEF u
<1>7. u \in Seq(Text) /\ Len(u) = Len(s)
  BY <1>1, <1>6
<1>8. ShownIs(s, added, u)
  BY <1>1, <1>2, <1>3, <1>7 DEF ShownIs
<1> QED BY <1>8 DEF u

\* Inserting the line added last keeps every line in the list once.
LEMMA OnceInserted ==
  ASSUME opened \in Seq(Byte), NEW n \in Nat, NEW s, Once(s, n), NEW k \in 1..(Len(s) + 1)
  PROVE  Once(InsertAt(s, k, <<TRUE, n>>), n + 1)
<1> DEFINE e == <<TRUE, n>>
           t == InsertAt(s, k, e)
<1>1. e \in Ref /\ e \notin RefsIn(n) /\ e \in RefsIn(n + 1)
  BY RefsGrow
<1>2. RefsIn(n) \subseteq RefsIn(n + 1)
  BY RefsGrow
<1> HIDE DEF e
<1>3. s \in Seq(Ref) /\ IsInjective(s) /\ ToSet(s) \subseteq RefsIn(n)
  BY DEF Once
<1>4. t \in Seq(Ref)
  BY <1>1, <1>3, InsertAtResult
<1>5. ToSet(t) = ToSet(s) \cup {e} /\ IsInjective(t)
  BY <1>1, <1>3, InsertKeeps
<1> HIDE DEF t
<1>6. Once(t, n + 1)
  BY <1>1, <1>2, <1>3, <1>4, <1>5 DEF Once
<1> QED BY <1>6 DEF t, e

\* So does taking one out.
LEMMA OnceRemoved ==
  ASSUME NEW n \in Nat, NEW s, Once(s, n), NEW k \in 1..Len(s)
  PROVE  Once(RemoveAt(s, k), n)
<1>1. s \in Seq(Ref) /\ IsInjective(s) /\ ToSet(s) \subseteq RefsIn(n)
  BY DEF Once
<1>2. RemoveAt(s, k) \in Seq(Ref)
  BY <1>1, RemoveAtResult
<1>3. ToSet(RemoveAt(s, k)) = ToSet(s) \ {s[k]} /\ IsInjective(RemoveAt(s, k))
  BY <1>1, RemoveKeeps
<1> QED BY <1>1, <1>2, <1>3 DEF Once

\* What is inserted into the list is inserted into the buffer.
LEMMA ShownInserted ==
  ASSUME opened \in Seq(Byte), NEW added \in Seq(Text), NEW s, Once(s, Len(added)),
         NEW k \in 1..(Len(s) + 1), NEW x \in Text
  PROVE  Shown(InsertAt(s, k, <<TRUE, Len(added)>>), Append(added, x))
           = InsertAt(Shown(s, added), k, x)
<1> DEFINE n == Len(added)
           e == <<TRUE, n>>
           more == Append(added, x)
           t == InsertAt(s, k, e)
           u == Shown(s, added)
           v == Shown(t, more)
           w == InsertAt(u, k, x)
<1>1. n \in Nat /\ more \in Seq(Text) /\ Len(more) = n + 1 /\ s \in Seq(Ref) /\ Len(s) \in Nat
  BY DEF Once
<1>2. Once(t, n + 1)
  BY <1>1, OnceInserted
<1>3. e \in Ref /\ LineOf(e, more) = x
  <2>1. e \in RefsIn(n + 1) /\ e \in Ref
    BY <1>1, RefsGrow
  <2>2. Len(more) = n + 1
    BY <1>1
  <2>3. more[n + 1] = x
    OBVIOUS
  <2> QED BY <2>1, <2>3 DEF LineOf
<1>4. \A ref \in RefsIn(n) : LineOf(ref, more) = LineOf(ref, added)
  BY LineOfIs
<1> HIDE DEF e, more, n
<1>5. ShownIs(s, added, u)
  BY ShownResult DEF n
<1>6. ShownIs(t, more, v)
  BY <1>1, <1>2, ShownResult
<1>7. IsInserted(Ref, s, k, e, t)
  BY <1>1, <1>3, InsertIs
<1> HIDE DEF u, v, t
<1>8. IsInserted(Text, u, k, x, w)
  <2>1. u \in Seq(Text) /\ k \in 1..(Len(u) + 1)
    BY <1>5 DEF ShownIs
  <2> QED BY <2>1, InsertIs
<1> HIDE DEF w
<1>9. /\ w \in Seq(Text) /\ Len(w) = Len(s) + 1
      /\ \A i \in 1..(Len(s) + 1) : w[i] = IF i < k THEN u[i] ELSE IF i = k THEN x ELSE u[i - 1]
      /\ \A i \in 1..Len(s) : u[i] = LineOf(s[i], added) /\ s[i] \in RefsIn(n)
  BY <1>5, <1>8 DEF ShownIs, IsInserted, n
<1>10. /\ v \in Seq(Text) /\ Len(v) = Len(s) + 1
       /\ \A i \in 1..(Len(s) + 1) : v[i] = LineOf(t[i], more)
       /\ \A i \in 1..(Len(s) + 1) : t[i] = IF i < k THEN s[i] ELSE IF i = k THEN e ELSE s[i - 1]
  BY <1>6, <1>7 DEF ShownIs, IsInserted
<1>11. ASSUME NEW i \in 1..Len(v) PROVE v[i] = w[i]
  <2>1. i \in 1..(Len(s) + 1)
    BY <1>10
  <2>2. CASE i < k
    <3>1. i \in 1..Len(s)
      BY <1>1, <2>1, <2>2
    <3>2. v[i] = LineOf(s[i], more) /\ w[i] = LineOf(s[i], added) /\ s[i] \in RefsIn(n)
      BY <1>9, <1>10, <2>1, <2>2, <3>1
    <3> QED BY <1>4, <3>2
  <2>3. CASE i = k
    BY <1>1, <1>3, <1>9, <1>10, <2>1, <2>3
  <2>4. CASE i > k
    <3> DEFINE j == i - 1
    <3>1. j \in 1..Len(s) /\ ~ (i < k) /\ i # k
      BY <1>1, <2>1, <2>4
    <3>2. v[i] = LineOf(s[j], more) /\ w[i] = u[j]
      BY <1>9, <1>10, <2>1, <3>1
    <3> HIDE DEF j
    <3>3. u[j] = LineOf(s[j], added) /\ s[j] \in RefsIn(n)
      BY <1>9, <3>1
    <3> QED BY <1>4, <3>2, <3>3
  <2> QED BY <1>1, <2>1, <2>2, <2>3, <2>4
<1>12. v = w
  BY <1>9, <1>10, <1>11, SeqEqual
<1> QED BY <1>12 DEF v, w, t, u, e, more, n

\* What is removed from the list is removed from the buffer.
LEMMA ShownRemoved ==
  ASSUME opened \in Seq(Byte), NEW added \in Seq(Text), NEW s, Once(s, Len(added)),
         NEW k \in 1..Len(s)
  PROVE  Shown(RemoveAt(s, k), added) = RemoveAt(Shown(s, added), k)
<1> DEFINE t == RemoveAt(s, k)
           u == Shown(s, added)
           v == Shown(t, added)
           w == RemoveAt(u, k)
<1>1. Len(added) \in Nat /\ s \in Seq(Ref) /\ Len(s) \in Nat
  BY DEF Once
<1>2. Once(t, Len(added))
  BY <1>1, OnceRemoved
<1>3. ShownIs(s, added, u) /\ ShownIs(t, added, v)
  BY <1>2, ShownResult
<1>4. /\ Len(t) = Len(s) - 1
      /\ \A j \in 1..(Len(s) - 1) : t[j] = IF j < k THEN s[j] ELSE s[j + 1]
  BY <1>1, RemoveAtResult
<1> HIDE DEF u, v, t
<1>5. /\ w \in Seq(Text) /\ Len(w) = Len(s) - 1
      /\ \A j \in 1..(Len(s) - 1) : w[j] = IF j < k THEN u[j] ELSE u[j + 1]
  <2>1. u \in Seq(Text) /\ k \in 1..Len(u) /\ Len(u) = Len(s)
    BY <1>3 DEF ShownIs
  <2>2. /\ w \in Seq(Text) /\ Len(w) = Len(u) - 1
        /\ \A j \in 1..(Len(u) - 1) : w[j] = IF j < k THEN u[j] ELSE u[j + 1]
    BY <2>1, RemoveAtResult
  <2> HIDE DEF w
  <2> QED BY <2>1, <2>2
<1> HIDE DEF w
<1>6. /\ v \in Seq(Text) /\ Len(v) = Len(s) - 1
      /\ \A j \in 1..(Len(s) - 1) : v[j] = LineOf(t[j], added)
      /\ \A i \in 1..Len(s) : u[i] = LineOf(s[i], added)
  BY <1>3, <1>4 DEF ShownIs
<1>7. ASSUME NEW j \in 1..Len(v) PROVE v[j] = w[j]
  <2>1. j \in 1..(Len(s) - 1) /\ j \in 1..Len(s) /\ j + 1 \in 1..Len(s)
    BY <1>1, <1>6
  <2> QED BY <1>4, <1>5, <1>6, <2>1
<1>8. v = w
  BY <1>5, <1>6, <1>7, SeqEqual
<1> QED BY <1>8 DEF v, w, t, u

\* What is replaced in the list is replaced in the buffer.
LEMMA ReplacedResult ==
  ASSUME opened \in Seq(Byte), NEW added \in Seq(Text), NEW s, Once(s, Len(added)),
         NEW k \in 1..Len(s), NEW x \in Text
  PROVE  /\ Once(ReplaceAt(s, k, <<TRUE, Len(added)>>), Len(added) + 1)
         /\ Shown(ReplaceAt(s, k, <<TRUE, Len(added)>>), Append(added, x))
              = ReplaceAt(Shown(s, added), k, x)
<1> DEFINE n == Len(added)
           e == <<TRUE, n>>
           r == RemoveAt(s, k)
           u == Shown(s, added)
           t == ReplaceAt(s, k, e)
<1>1. n \in Nat /\ s \in Seq(Ref) /\ Len(s) \in Nat /\ e \in Ref
  <2>1. n \in Nat
    OBVIOUS
  <2>2. s \in Seq(Ref) /\ Len(s) \in Nat
    BY DEF Once
  <2> HIDE DEF n
  <2> QED BY <2>1, <2>2, RefsGrow
<1>2. Once(r, n)
  BY <1>1, OnceRemoved
<1>3. k \in 1..(Len(r) + 1)
  <2>1. Len(r) = Len(s) - 1
    BY <1>1, RemoveAtResult
  <2> HIDE DEF r
  <2> QED BY <1>1, <2>1
<1>4. t = InsertAt(r, k, e)
  <2> HIDE DEF e
  <2> QED BY <1>1, InsertRemoved
<1>5. ShownIs(s, added, u)
  BY ShownResult
<1>6. Shown(r, added) = RemoveAt(u, k)
  BY ShownRemoved
<1> HIDE DEF t, r, u
<1>7. Once(t, n + 1)
  BY <1>1, <1>2, <1>3, <1>4, OnceInserted
<1>8. Shown(t, Append(added, x)) = InsertAt(Shown(r, added), k, x)
  BY <1>2, <1>3, <1>4, ShownInserted
<1>9. InsertAt(RemoveAt(u, k), k, x) = ReplaceAt(u, k, x)
  <2>1. u \in Seq(Text) /\ k \in 1..Len(u)
    BY <1>5 DEF ShownIs
  <2> QED BY <2>1, InsertRemoved
<1>10. Shown(t, Append(added, x)) = ReplaceAt(u, k, x)
  BY <1>6, <1>8, <1>9
<1> QED BY <1>7, <1>10 DEF t, u

-----------------------------------------------------------------------------
(***************************************************************************)
(* The inductive invariant, and the file as it is opened.                  *)
(***************************************************************************)

\* The reader is sound, the tree holds each line once, and the buffer of the
\* history is the one the tree stands for.
FileInv == opened \in Seq(Byte) /\ Grown(file, opened) /\ ReaderIs(orig, file, opened)
TreeInv == add \in Seq(Text) /\ Holds(root, Order(root)) /\ Once(Order(root), Len(add))
PagedInv == FileInv /\ TreeInv /\ lines = BufferOf(root, add)

\* What the invariant says of the buffer.
LEMMA BufferFacts ==
  ASSUME PagedInv
  PROVE  /\ lines = Shown(Order(root), add) /\ lines \in Seq(Text)
         /\ Len(lines) = Lines /\ Lines = Len(Order(root)) /\ Lines \in Nat
         /\ \A i \in 1..Lines : /\ Order(root)[i] \in RefsIn(Len(add))
                                /\ lines[i] = LineOf(Order(root)[i], add)
<1> DEFINE s == Order(root)
<1>1. opened \in Seq(Byte) /\ add \in Seq(Text) /\ Holds(root, s) /\ Once(s, Len(add))
      /\ lines = BufferOf(root, add)
  BY DEF PagedInv, FileInv, TreeInv
<1>2. Lines = Len(s)
  BY <1>1 DEF Lines, Holds
<1> HIDE DEF s
<1>3. lines = Shown(s, add)
  BY <1>1, BufferIs
<1>4. ShownIs(s, add, lines)
  BY <1>1, <1>3, ShownResult
<1> QED BY <1>2, <1>3, <1>4 DEF ShownIs, s

\* A read finds the line of the buffer, and keeps the reader sound.
LEMMA ReadResult ==
  ASSUME PagedInv, NEW lno \in Int
  PROVE  /\ Read(lno).text = Abstract!Get(lines, lno) /\ Read(lno).text \in Text
         /\ ReaderIs(Read(lno).o, file, opened)
<1> DEFINE s == Order(root)
<1>1. /\ lines \in Seq(Text) /\ Len(lines) = Lines /\ Lines = Len(s) /\ Lines \in Nat
      /\ \A i \in 1..Lines : s[i] \in RefsIn(Len(add)) /\ lines[i] = LineOf(s[i], add)
  BY BufferFacts
<1>2. opened \in Seq(Byte) /\ Grown(file, opened) /\ ReaderIs(orig, file, opened)
      /\ add \in Seq(Text) /\ IsTree(root) /\ lc(root) = Lines
  BY DEF PagedInv, FileInv, TreeInv, Holds, Lines
<1>3. CASE lno \notin 1..Lines
  <2>1. Read(lno) = [text |-> <<>>, o |-> orig]
    BY <1>3 DEF Read
  <2>2. Abstract!Get(lines, lno) = <<>>
    BY <1>1, <1>3 DEF Abstract!Get, Abstract!InRange
  <2>3. <<>> \in Text
    BY DEF Text
  <2> QED BY <1>2, <2>1, <2>2, <2>3
<1>4. CASE lno \in 1..Lines
  <2> DEFINE at == locate(root, lno - 1)
             n == at.sp.start + at.off
  <2>1. Abstract!Get(lines, lno) = lines[lno] /\ lines[lno] \in Text
    <3>1. lines[lno] \in Text
      BY <1>1, <1>4, ElementOfSeq
    <3> QED BY <1>1, <1>4, <3>1 DEF Abstract!Get, Abstract!InRange
  <2>2. Read(lno) = IF at.sp.fromAdd THEN [text |-> add[n + 1], o |-> orig]
                    ELSE ReadLine(orig, file, n)
    BY <1>4 DEF Read
  <2>3. Locates(at, root, lno - 1)
    <3>1. lno - 1 \in 0..(lc(root) - 1)
      BY <1>1, <1>2, <1>4
    <3> HIDE DEF at
    <3> QED BY <1>2, <3>1, LocateResult DEF at
  <2> HIDE DEF at
  <2>4. at.sp \in Span /\ s[lno] = <<at.sp.fromAdd, n>>
    <3>1. (lno - 1) + 1 = lno
      BY <1>1, <1>4
    <3> QED BY <2>3, <3>1 DEF Locates
  <2>5. s[lno] \in RefsIn(Len(add)) /\ lines[lno] = LineOf(s[lno], add)
    BY <1>1, <1>4
  <2>6. at.sp.fromAdd \in BOOLEAN
    BY <2>4 DEF Span
  <2> HIDE DEF n
  <2>7. CASE at.sp.fromAdd = TRUE
    <3>1. lines[lno] = add[n + 1]
      BY <2>4, <2>5, <2>7 DEF LineOf
    <3> QED BY <1>2, <2>1, <2>2, <2>7, <3>1
  <2>8. CASE at.sp.fromAdd = FALSE
    <3>1. n \in 0..(LineCount(opened) - 1)
      <4> DEFINE A == 0..(Len(add) - 1)
                 C == 0..(LineCount(opened) - 1)
      <4>1. <<FALSE, n>> \in ({TRUE} \X A) \cup ({FALSE} \X C)
        BY <2>4, <2>5, <2>8 DEF RefsIn
      <4> HIDE DEF A, C
      <4>2. n \in C
        BY <4>1
      <4> QED BY <4>2 DEF C
    <3>2. lines[lno] = LinesOf(opened)[n + 1]
      BY <2>4, <2>5, <2>8 DEF LineOf
    <3> DEFINE r == ReadLine(orig, file, n)
    <3>3. r.text = LinesOf(opened)[n + 1] /\ ReaderIs(r.o, file, opened)
      BY <1>2, <3>1, ReadLineResult
    <3>4. Read(lno) = r
      BY <2>2, <2>8
    <3> QED BY <2>1, <3>2, <3>3, <3>4
  <2> QED BY <2>6, <2>7, <2>8
<1> QED BY <1>3, <1>4

-----------------------------------------------------------------------------
(* The file is opened. *)

\* One span of the whole file, or none.
LEMMA OpenedTree ==
  ASSUME NEW n \in Nat, n = LineCount(opened), NEW p \in Prio, opened \in Seq(Byte),
         NEW sp, sp = [fromAdd |-> FALSE, start |-> 0, count |-> n],
         NEW t, t = IF n = 0 THEN NoNode ELSE newNode(sp, p)
  PROVE  Holds(t, Order(t)) /\ Once(Order(t), 0)
<1>1. CASE n = 0
  <2>1. IsTree(t) /\ Order(t) = <<>>
    BY <1>1, EmptyTree, EmptyOrder
  <2>2. <<>> \in Seq(Ref) /\ IsInjective(<<>>) /\ ToSet(<<>>) = {}
    BY DEF IsInjective, ToSet
  <2>3. Once(<<>>, 0)
    BY <2>2 DEF Once
  <2> QED BY <2>1, <2>3, HoldsOrder
<1>2. CASE n # 0
  <2>1. sp \in Span /\ sp.count = n /\ sp.fromAdd = FALSE /\ sp.start = 0
    BY <1>2 DEF Span
  <2>2. p \in Number /\ t = newNode(sp, p)
    BY <1>2 DEF Number
  <2>3. Holds(t, Refs(sp))
    BY <2>1, <2>2, NewNodeResult
  <2> DEFINE s == Refs(sp)
  <2>4. s \in Seq(Ref) /\ Len(s) = n /\ \A i \in 1..n : s[i] = <<FALSE, i - 1>>
    <3>1. s \in Seq(Ref) /\ Len(s) = n
      BY <2>1, RefsResult
    <3>2. \A i \in 1..n : s[i] = <<FALSE, 0 + i - 1>>
      BY <2>1, RefsResult
    <3>3. \A i \in 1..n : 0 + i - 1 = i - 1
      OBVIOUS
    <3> HIDE DEF s
    <3> QED BY <3>1, <3>2, <3>3
  <2> HIDE DEF s
  <2>5. IsInjective(s)
    <3>1. DOMAIN s = 1..n
      BY <2>4
    <3>2. \A i, j \in 1..n : s[i] = s[j] => i = j
      <4> TAKE i, j \in 1..n
      <4> HAVE s[i] = s[j]
      <4> DEFINE a == <<FALSE, i - 1>>
                 b == <<FALSE, j - 1>>
      <4>1. a[2] = i - 1 /\ b[2] = j - 1
        OBVIOUS
      <4>2. s[i] = a /\ s[j] = b
        BY <2>4
      <4> HIDE DEF a, b
      <4>3. a = b
        BY <4>2
      <4> QED BY <4>1, <4>3
    <3> QED BY <3>1, <3>2 DEF IsInjective
  <2>6. ToSet(s) \subseteq RefsIn(0)
    <3>1. DOMAIN s = 1..n
      BY <2>4
    <3>2. \A i \in 1..n : s[i] \in RefsIn(0)
      <4> TAKE i \in 1..n
      <4> DEFINE C == 0..(LineCount(opened) - 1)
      <4>1. i - 1 \in C
        OBVIOUS
      <4>2. {FALSE} \X C \subseteq RefsIn(0)
        BY DEF RefsIn
      <4> HIDE DEF C
      <4>3. <<FALSE, i - 1>> \in {FALSE} \X C
        BY <4>1
      <4> QED BY <2>4, <4>2, <4>3
    <3> QED BY <3>1, <3>2 DEF ToSet
  <2>7. Order(t) = s
    BY <2>3 DEF Holds, s
  <2> QED BY <2>3, <2>4, <2>5, <2>6, <2>7 DEF Once, s
<1> QED BY <1>1, <1>2

\* The invariant holds when the file has been opened.
LEMMA PagedInit ==
  ASSUME Init
  PROVE  PagedInv /\ answer = <<>>
<1>1. /\ opened = file /\ opened \in Seq(Byte) /\ orig = newOriginal(opened) /\ add = <<>>
      /\ lines = BufferOf(root, add) /\ answer = <<>>
  BY PagedAssumption DEF Init
<1>2. ReaderIs(orig, file, opened) /\ Grown(file, opened)
  BY <1>1, NewReader
<1>3. orig.nlines = LineCount(opened) /\ LineCount(opened) \in Nat
  BY <1>1, LinesResult DEF newOriginal, LineCount
<1> DEFINE n == LineCount(opened)
           sp == OrigSpan(orig)
<1>4. sp = [fromAdd |-> FALSE, start |-> 0, count |-> n]
  BY <1>3 DEF OrigSpan
<1>5. PICK p \in Prio : root = IF n = 0 THEN NoNode ELSE newNode(sp, p)
  BY <1>3 DEF Init
<1> HIDE DEF n, sp
<1>6. Holds(root, Order(root)) /\ Once(Order(root), 0)
  BY <1>1, <1>3, <1>4, <1>5, OpenedTree DEF n
<1>7. add \in Seq(Text) /\ Len(add) = 0
  BY <1>1
<1> QED BY <1>1, <1>2, <1>6, <1>7 DEF PagedInv, FileInv, TreeInv

-----------------------------------------------------------------------------
(***************************************************************************)
(* The steps.                                                              *)
(***************************************************************************)

\* The store at rest: what a read leaves alone.
LEMMA SameTree ==
  ASSUME TreeInv, lines = BufferOf(root, add), UNCHANGED <<opened, add, root, lines>>
  PROVE  TreeInv' /\ lines' = BufferOf(root, add)'
<1>1. TreeInv'
  BY DEF TreeInv, Once, RefsIn
<1>2. lines' = BufferOf(root, add)'
  BY DEF BufferOf, LinesOf
<1> QED BY <1>1, <1>2

\* A read keeps the invariant, and is the read of the plain store.
LEMMA GetKeeps ==
  ASSUME PagedInv, NEW lno \in LineNo, Get(lno)
  PROVE  PagedInv' /\ Abstract!LGet
<1>1. lno \in Int
  BY PagedAssumption
<1>2. /\ Read(lno).text = Abstract!Get(lines, lno)
      /\ ReaderIs(Read(lno).o, file, opened)
  BY <1>1, ReadResult
<1>3. answer' = Read(lno).text /\ orig' = Read(lno).o /\ UNCHANGED <<file, opened, add, root, lines>>
  BY DEF Get
<1>4. FileInv'
  BY <1>2, <1>3 DEF PagedInv, FileInv
<1>5. TreeInv' /\ lines' = BufferOf(root, add)'
  BY <1>3, SameTree DEF PagedInv
<1>6. Abstract!LGet
  BY <1>2, <1>3 DEF Abstract!LGet
<1> QED BY <1>4, <1>5, <1>6 DEF PagedInv

\* A file that ends in a newline grows.
LEMMA FileGrows ==
  ASSUME NEW g \in Seq(Byte), NEW f, Grown(f, g), Complete(f), NEW x \in Seq(Byte), NEW o, ReaderIs(o, f, g)
  PROVE  Grown(f \o x, g) /\ ReaderIs(o, f \o x, g)
<1> DEFINE h == f \o x
<1>1. f \in Seq(Byte)
  BY GrownEnds
<1>2. PICK t \in Seq(Byte) : f = g \o t /\ (t = <<>> \/ Complete(g))
  BY DEF Grown
<1>3. h = g \o (t \o x) /\ t \o x \in Seq(Byte)
  <2>1. (g \o t) \o x = g \o (t \o x)
    BY ConcatAssociative
  <2> QED BY <1>2, <2>1, ConcatProperties
<1>4. Complete(g)
  <2>1. CASE t = <<>>
    <3>1. f = g
      BY <1>2, <2>1, ConcatEmptySeq
    <3> QED BY <3>1
  <2> QED BY <1>2, <2>1
<1>5. Grown(h, f)
  BY DEF Grown
<1> HIDE DEF h
<1>6. Grown(h, g)
  BY <1>3, <1>4 DEF Grown
<1>7. BlockOf(o, h)
  <2> DEFINE p == o.blockPos
             n == Len(o.blockBuf)
             e == p + n
  <2>1. /\ p \in Nat /\ n \in Nat /\ Len(f) \in Nat /\ e <= Len(f)
        /\ o.blockBuf = SubSeq(f, p + 1, e)
    BY <1>1 DEF ReaderIs, BlockOf
  <2>2. p \in 0..Len(f) /\ e \in p..Len(f)
    BY <2>1, SMTT(20)
  <2> HIDE DEF p, e
  <2>3. SubSeq(h, p + 1, e) = SubSeq(f, p + 1, e) /\ Len(f) <= Len(h)
    BY <1>1, <1>5, <2>2, GrownPiece
  <2>4. Len(h) \in Nat
    BY <1>1 DEF h
  <2>5. e \in Int
    BY <2>2
  <2>6. o.blockBuf = SubSeq(h, p + 1, e) /\ e <= Len(h)
    BY <2>1, <2>3, <2>4, <2>5
  <2> QED BY <2>6 DEF BlockOf, p, e
<1>8. ReaderIs(o, h, g)
  BY <1>7 DEF ReaderIs
<1> QED BY <1>6, <1>8 DEF h

\* So does one whose line is then written behind the file.
LEMMA AppendKeepsStore ==
  ASSUME Unterminated = FALSE, PagedInv, NEW lno \in LineNo, AppendToFile(lno)
  PROVE  PagedInv' /\ Abstract!LGet
<1>1. lno \in Int
  BY PagedAssumption
<1> DEFINE r == Read(lno)
           x == r.text \o <<NL>>
<1>2. r.text = Abstract!Get(lines, lno) /\ r.text \in Text /\ ReaderIs(r.o, file, opened)
  BY <1>1, ReadResult
<1>3. /\ answer' = r.text /\ orig' = r.o /\ UNCHANGED <<opened, add, root, lines>>
      /\ file' = file \o r.text \o <<NL>> /\ Complete(file)
  BY DEF AppendToFile
<1> HIDE DEF r
<1>4. opened \in Seq(Byte) /\ Grown(file, opened) /\ file \in Seq(Byte)
  BY GrownEnds DEF PagedInv, FileInv
<1>5. r.text \in Seq(Byte) /\ <<NL>> \in Seq(Byte)
  <2>1. r.text \in Seq(Byte)
    BY <1>2, SeqMonotonic DEF Text
  <2>2. NL \in Byte
    BY DEF Byte
  <2> QED BY <2>1, <2>2
<1>6. x \in Seq(Byte)
  BY <1>5, ConcatProperties
<1>7. file' = file \o x
  <2>1. (file \o r.text) \o <<NL>> = file \o (r.text \o <<NL>>)
    <3> DEFINE a == r.text
               b == <<NL>>
    <3>1. a \in Seq(Byte) /\ b \in Seq(Byte)
      BY <1>5
    <3> HIDE DEF a, b
    <3>2. (file \o a) \o b = file \o (a \o b)
      BY <1>4, <3>1, ConcatAssociative
    <3> QED BY <3>2 DEF a, b
  <2> QED BY <1>3, <2>1
<1> HIDE DEF x
<1>8. Grown(file \o x, opened) /\ ReaderIs(r.o, file \o x, opened)
  BY <1>2, <1>3, <1>4, <1>6, FileGrows
<1>9. FileInv'
  BY <1>3, <1>4, <1>7, <1>8 DEF FileInv
<1>10. TreeInv' /\ lines' = BufferOf(root, add)'
  BY <1>3, SameTree DEF PagedInv
<1>11. Abstract!LGet
  BY <1>2, <1>3 DEF Abstract!LGet
<1> QED BY <1>9, <1>10, <1>11 DEF PagedInv

-----------------------------------------------------------------------------
(* The edits. *)

\* The file and its reader are left alone by an edit.
LEMMA SameReader ==
  ASSUME FileInv, UNCHANGED <<file, opened, orig>>
  PROVE  FileInv'
BY DEF FileInv

\* The lines of the references are those of the file as it was opened.
LEMMA SameLines ==
  ASSUME opened' = opened, Holds(root', Order(root'))
  PROVE  /\ Once(Order(root'), Len(add')) <=> Once(Order(root), Len(add))'
         /\ BufferOf(root', add') = Shown(Order(root'), add')
<1>1. Once(Order(root'), Len(add')) <=> Once(Order(root), Len(add))'
  BY DEF Once, RefsIn
<1>2. BufferOf(root', add') = Shown(Order(root'), add')
  BY DEF BufferOf, Shown, LineOf
<1> QED BY <1>1, <1>2

\* Insert keeps the invariant, and inserts.
LEMMA InsertKeepsStore ==
  ASSUME PagedInv, NEW lno \in LineNo, NEW line \in Edited, Insert(lno, line)
  PROVE  PagedInv' /\ Abstract!LInsert
<1> DEFINE s == Order(root)
           k == Clamp(lno - 1)
           n == k + 1
           u == InsertAt(s, n, NewRef)
<1>1. lno \in Int /\ line \in Text
  BY PagedAssumption
<1>2. /\ add' = Append(add, line) /\ lines' = BufferOf(root', add')
      /\ UNCHANGED <<file, opened, orig, answer>>
  BY DEF Insert
<1>3. PICK p, q \in Drawn(k), r \in Prio : root' = Between(split(root, k, p, q), r)
  BY DEF Insert
<1>4. p \in Number /\ q \in Number
  BY DEF Drawn, Number
<1>5. /\ opened \in Seq(Byte) /\ add \in Seq(Text) /\ Holds(root, s) /\ Once(s, Len(add))
      /\ FileInv
  BY DEF PagedInv, FileInv, TreeInv
<1>6. lines = Shown(s, add) /\ lines \in Seq(Text) /\ Len(lines) = Lines /\ Lines = Len(s) /\ Lines \in Nat
  BY BufferFacts
<1> HIDE DEF s
<1>7. k \in 0..Len(s) /\ n \in 1..(Len(s) + 1)
  BY <1>1, <1>6 DEF Clamp
<1>8. n = Abstract!Clamp(lines, lno)
  BY <1>1, <1>6 DEF Clamp, Abstract!Clamp
<1> HIDE DEF k
<1>9. Holds(root', u) /\ NewRef \in Ref
  BY <1>3, <1>4, <1>5, <1>7, InsertTree
<1> HIDE DEF n
<1>10. Once(u, Len(add) + 1)
  <2>1. Len(add) \in Nat
    BY <1>5
  <2> QED BY <1>5, <1>7, <2>1, OnceInserted DEF NewRef
<1>11. Shown(u, add') = InsertAt(lines, n, line)
  BY <1>1, <1>2, <1>5, <1>6, <1>7, ShownInserted DEF NewRef
<1> HIDE DEF u
<1>12. Order(root') = u /\ Holds(root', Order(root'))
  BY <1>9 DEF Holds
<1>13. add' \in Seq(Text) /\ Len(add') = Len(add) + 1
  BY <1>1, <1>2, <1>5
<1>14. Once(Order(root'), Len(add')) <=> Once(Order(root), Len(add))'
  BY <1>2, <1>12, SameLines
<1>15. TreeInv'
  BY <1>10, <1>12, <1>13, <1>14 DEF TreeInv
<1>16. lines' = InsertAt(lines, n, line)
  <2>1. BufferOf(root', add') = Shown(Order(root'), add')
    BY <1>2, <1>12, SameLines
  <2> QED BY <1>2, <1>11, <1>12, <2>1
<1>17. lines' = BufferOf(root, add)'
  BY <1>2 DEF BufferOf, LinesOf
<1>18. FileInv'
  BY <1>2, <1>5, SameReader
<1>19. Abstract!LInsert
  BY <1>2, <1>8, <1>16 DEF Abstract!LInsert, Abstract!InsertLine, InsertAt, Abstract!InsertAt
<1> QED BY <1>15, <1>17, <1>18, <1>19 DEF PagedInv

\* Delete keeps the invariant, and deletes, or nothing where there is no line.
LEMMA DeleteKeepsStore ==
  ASSUME PagedInv, NEW lno \in LineNo, Delete(lno)
  PROVE  PagedInv' /\ (Abstract!LDelete \/ UNCHANGED <<lines, answer>>)
<1> DEFINE s == Order(root)
           k == lno - 1
           u == RemoveAt(s, lno)
<1>1. lno \in Int
  BY PagedAssumption
<1>2. /\ lines' = BufferOf(root', add) /\ UNCHANGED <<file, opened, orig, add, answer>>
  BY DEF Delete
<1>3. /\ opened \in Seq(Byte) /\ add \in Seq(Text) /\ Holds(root, s) /\ Once(s, Len(add))
      /\ FileInv /\ TreeInv /\ lines = BufferOf(root, add)
  BY DEF PagedInv, FileInv, TreeInv
<1>4. lines = Shown(s, add) /\ lines \in Seq(Text) /\ Len(lines) = Lines /\ Lines = Len(s) /\ Lines \in Nat
  BY BufferFacts
<1>5. lines' = BufferOf(root, add)' /\ FileInv'
  <2>1. FileInv'
    BY <1>2, <1>3, SameReader
  <2>2. lines' = BufferOf(root, add)'
    BY <1>2 DEF BufferOf, LinesOf
  <2> QED BY <2>1, <2>2
<1> HIDE DEF s
<1>6. CASE lno \notin 1..Lines
  <2>1. root' = root
    BY <1>6 DEF Delete
  <2>2. lines' = lines
    BY <1>2, <1>3, <2>1 DEF BufferOf, LinesOf
  <2>3. TreeInv'
    BY <1>2, <1>3, <2>1, <2>2, SameTree
  <2> QED BY <1>2, <1>5, <2>2, <2>3 DEF PagedInv
<1>7. CASE lno \in 1..Lines
  <2>1. PICK p \in Drawn(k), q \in Drawn(lno) :
          LET cut == Cut(k, 1, p, q) IN root' = merge(cut[1], cut[2])
    BY <1>7 DEF Delete
  <2>2. p \in Number /\ q \in Number
    BY DEF Drawn, Number
  <2>3. k \in 0..(Len(s) - 1) /\ k + 1 = lno /\ lno \in 1..Len(s)
    BY <1>1, <1>4, <1>7
  <2> HIDE DEF k
  <2>4. LET cut == Cut(k, 1, p, q) IN Holds(merge(cut[1], cut[2]), RemoveAt(s, k + 1))
    BY <1>3, <2>2, <2>3, DeleteTree
  <2>5. Holds(root', u)
    BY <2>1, <2>3, <2>4
  <2>6. Once(u, Len(add))
    <3>1. Len(add) \in Nat
      BY <1>3
    <3> QED BY <1>3, <2>3, <3>1, OnceRemoved
  <2>7. Shown(u, add) = RemoveAt(lines, lno)
    BY <1>3, <1>4, <2>3, ShownRemoved
  <2> HIDE DEF u
  <2>8. Order(root') = u /\ Holds(root', Order(root'))
    BY <2>5 DEF Holds
  <2>9. Once(Order(root'), Len(add')) <=> Once(Order(root), Len(add))'
    BY <1>2, <2>8, SameLines
  <2>10. TreeInv'
    BY <1>2, <1>3, <2>6, <2>8, <2>9 DEF TreeInv
  <2>11. lines' = RemoveAt(lines, lno)
    <3>1. BufferOf(root', add') = Shown(Order(root'), add')
      BY <1>2, <2>8, SameLines
    <3> QED BY <1>2, <2>7, <2>8, <3>1
  <2>12. Abstract!LDelete
    BY <1>2, <1>4, <1>7, <2>11
       DEF Abstract!LDelete, Abstract!DeleteLine, Abstract!InRange, RemoveAt, Abstract!RemoveAt
  <2> QED BY <1>5, <2>10, <2>12 DEF PagedInv
<1> QED BY <1>6, <1>7

\* Set keeps the invariant, and sets, or nothing where there is no line.
LEMMA SetKeepsStore ==
  ASSUME PagedInv, NEW lno \in LineNo, NEW line \in Edited, Set(lno, line)
  PROVE  PagedInv' /\ (Abstract!LSet \/ UNCHANGED <<lines, answer>>)
<1> DEFINE s == Order(root)
           k == lno - 1
           u == ReplaceAt(s, lno, NewRef)
<1>1. lno \in Int /\ line \in Text
  BY PagedAssumption
<1>2. /\ lines' = BufferOf(root', add') /\ UNCHANGED <<file, opened, orig, answer>>
  BY DEF Set
<1>3. /\ opened \in Seq(Byte) /\ add \in Seq(Text) /\ Holds(root, s) /\ Once(s, Len(add))
      /\ FileInv /\ TreeInv /\ lines = BufferOf(root, add)
  BY DEF PagedInv, FileInv, TreeInv
<1>4. lines = Shown(s, add) /\ lines \in Seq(Text) /\ Len(lines) = Lines /\ Lines = Len(s) /\ Lines \in Nat
  BY BufferFacts
<1>5. lines' = BufferOf(root, add)' /\ FileInv'
  <2>1. FileInv'
    BY <1>2, <1>3, SameReader
  <2>2. lines' = BufferOf(root, add)'
    BY <1>2 DEF BufferOf, LinesOf
  <2> QED BY <2>1, <2>2
<1> HIDE DEF s
<1>6. CASE lno \notin 1..Lines
  <2>1. root' = root /\ add' = add
    BY <1>6 DEF Set
  <2>2. lines' = lines
    BY <1>2, <1>3, <2>1 DEF BufferOf, LinesOf
  <2>3. TreeInv'
    BY <1>2, <1>3, <2>1, <2>2, SameTree
  <2> QED BY <1>2, <1>5, <2>2, <2>3 DEF PagedInv
<1>7. CASE lno \in 1..Lines
  <2>1. add' = Append(add, line)
    BY <1>7 DEF Set
  <2>2. PICK p \in Drawn(k), q \in Drawn(lno), r \in Prio : root' = Between(Cut(k, 1, p, q), r)
    BY <1>7 DEF Set
  <2>3. p \in Number /\ q \in Number
    BY DEF Drawn, Number
  <2>4. k \in 0..(Len(s) - 1) /\ k + 1 = lno /\ lno \in 1..Len(s)
    BY <1>1, <1>4, <1>7
  <2> HIDE DEF k
  <2>5. Holds(root', ReplaceAt(s, k + 1, NewRef))
    BY <1>3, <2>2, <2>3, <2>4, ReplaceTree
  <2>6. Holds(root', u)
    BY <2>4, <2>5
  <2>7. Once(u, Len(add) + 1)
    BY <1>1, <1>3, <2>4, ReplacedResult DEF NewRef
  <2>8. Shown(u, add') = ReplaceAt(lines, lno, line)
    BY <1>1, <1>3, <1>4, <2>1, <2>4, ReplacedResult DEF NewRef
  <2> HIDE DEF u
  <2>9. Order(root') = u /\ Holds(root', Order(root'))
    BY <2>6 DEF Holds
  <2>10. add' \in Seq(Text) /\ Len(add') = Len(add) + 1
    BY <1>1, <1>3, <2>1
  <2>11. Once(Order(root'), Len(add')) <=> Once(Order(root), Len(add))'
    BY <1>2, <2>9, SameLines
  <2>12. TreeInv'
    BY <2>7, <2>9, <2>10, <2>11 DEF TreeInv
  <2>13. lines' = ReplaceAt(lines, lno, line)
    <3>1. BufferOf(root', add') = Shown(Order(root'), add')
      BY <1>2, <2>9, SameLines
    <3> QED BY <1>2, <2>8, <2>9, <3>1
  <2>14. Abstract!LSet
    BY <1>2, <1>4, <1>7, <2>13
       DEF Abstract!LSet, Abstract!SetLine, Abstract!InRange, ReplaceAt, Abstract!ReplaceAt
  <2> QED BY <1>5, <2>12, <2>14 DEF PagedInv
<1> QED BY <1>6, <1>7

-----------------------------------------------------------------------------
(***************************************************************************)
(* The theorems.                                                           *)
(***************************************************************************)

\* Every step keeps the invariant, and is a step of the plain store or none.
LEMMA PagedNext ==
  ASSUME Unterminated = FALSE, PagedInv, [Next]_vars
  PROVE  PagedInv' /\ [Abstract!LNext]_(Abstract!lvars)
<1>1. CASE UNCHANGED vars
  <2>1. UNCHANGED <<file, opened, orig, add, root, lines, answer>>
    BY <1>1 DEF vars
  <2>2. FileInv'
    BY <2>1 DEF PagedInv, FileInv
  <2>3. TreeInv' /\ lines' = BufferOf(root, add)'
    BY <2>1, SameTree DEF PagedInv
  <2> QED BY <2>1, <2>2, <2>3 DEF PagedInv, Abstract!lvars
<1>2. ASSUME NEW lno \in LineNo, Get(lno)
      PROVE  PagedInv' /\ [Abstract!LNext]_(Abstract!lvars)
  BY <1>2, GetKeeps DEF Abstract!LNext
<1>3. ASSUME NEW lno \in LineNo, NEW line \in Edited, Set(lno, line)
      PROVE  PagedInv' /\ [Abstract!LNext]_(Abstract!lvars)
  BY <1>3, SetKeepsStore DEF Abstract!LNext, Abstract!lvars
<1>4. ASSUME NEW lno \in LineNo, NEW line \in Edited, Insert(lno, line)
      PROVE  PagedInv' /\ [Abstract!LNext]_(Abstract!lvars)
  BY <1>4, InsertKeepsStore DEF Abstract!LNext
<1>5. ASSUME NEW lno \in LineNo, Delete(lno)
      PROVE  PagedInv' /\ [Abstract!LNext]_(Abstract!lvars)
  BY <1>5, DeleteKeepsStore DEF Abstract!LNext, Abstract!lvars
<1>6. ASSUME NEW lno \in LineNo, AppendToFile(lno)
      PROVE  PagedInv' /\ [Abstract!LNext]_(Abstract!lvars)
  BY <1>6, AppendKeepsStore DEF Abstract!LNext
<1> QED BY <1>1, <1>2, <1>3, <1>4, <1>5, <1>6 DEF Next

\* The invariant of the paged store, for every use of it, while no file grows
\* whose last line has no newline: the index, the cursor, the block and the
\* cache agree with the file as it was opened, and the tree with the buffer.
THEOREM PagedInvariant ==
  ASSUME Unterminated = FALSE
  PROVE  Spec => []PagedInv
<1>1. Init => PagedInv
  BY PagedInit
<1>2. PagedInv /\ [Next]_vars => PagedInv'
  BY PagedNext
<1> QED BY <1>1, <1>2, PTL DEF Spec

\* The tree of spans counts its lines rightly at every node, holds no empty span
\* and no line of the file or of the lines added twice, whatever numbers are
\* drawn and in whatever order spans are divided and trees merged (newSpanNode,
\* update, split and merge, engine/buffer/paged.go).
THEOREM TreeStaysSound ==
  ASSUME Unterminated = FALSE
  PROVE  Spec => []TreeSound
<1>1. PagedInv => TreeSound
  <2> SUFFICES ASSUME PagedInv PROVE TreeSound
    OBVIOUS
  <2>1. IsTree(root) /\ Once(Order(root), Len(add)) /\ add \in Seq(Text)
    BY DEF PagedInv, TreeInv, Holds
  <2>2. orig.nlines = LineCount(opened)
    BY DEF PagedInv, FileInv, ReaderIs
  <2>3. ASSUME NEW t \in Below(root) \ {NoNode} PROVE t.sp.count > 0 /\ t.lcount = Len(Order(t))
    <3>1. IsTree(t)
      BY <2>1, TreeBelow
    <3>2. t.sp.count \in Nat \ {0}
      BY <2>3, <3>1, TreeFacts
    <3>3. lc(t) = t.lcount
      BY <2>3 DEF lc
    <3>4. Len(Order(t)) = lc(t)
      BY <3>1, OrderCounts
    <3> QED BY <3>2, <3>3, <3>4
  <2>4. /\ IsInjective(Order(root))
        /\ ToSet(Order(root)) \subseteq ({TRUE} \X (0..(Len(add) - 1)))
                                  \cup ({FALSE} \X (0..(orig.nlines - 1)))
    BY <2>1, <2>2 DEF Once, RefsIn
  <2> QED BY <2>3, <2>4 DEF TreeSound
<1> QED BY <1>1, PagedInvariant, PTL

\* The checkpoints and the cursor are the offsets at which their lines start,
\* and the block is what the file holds, after any reads and though the file
\* grows under the reader (newOriginal, blockAt and ReadLine,
\* engine/buffer/original.go).
THEOREM CursorStaysSound ==
  ASSUME Unterminated = FALSE
  PROVE  Spec => []CursorSound
<1>1. PagedInv => CursorSound
  <2> SUFFICES ASSUME PagedInv PROVE CursorSound
    OBVIOUS
  <2>1. opened \in Seq(Byte) /\ ReaderIs(orig, file, opened)
    BY DEF PagedInv, FileInv
  <2>2. CheckpointsAre(opened, orig.checkpoints)
    <3>1. orig.checkpoints = newOriginal(opened).checkpoints
      BY <2>1 DEF ReaderIs
    <3> QED BY <2>1, <3>1, CheckpointsResult
  <2>3. /\ orig.nlines = LineCount(opened) /\ BlockOf(orig, file) /\ orig.seqLine \in Nat
        /\ orig.seqLine # 0 => orig.seqLine <= LineCount(opened)
                               /\ orig.seqPos = StartIn(opened, orig.seqLine)
    BY <2>1 DEF ReaderIs
  <2>4. \A n \in Nat : StartOf(n) = StartIn(opened, n)
    BY <2>1, StartOfIs DEF StartIn
  <2>5. ASSUME NEW j \in DOMAIN orig.checkpoints
        PROVE  orig.checkpoints[j] = StartOf((j - 1) * Stride)
    <3> DEFINE m == (j - 1) * Stride
    <3>1. m \in 0..Len(LineEnds(opened)) /\ orig.checkpoints[j] = Start(opened, m)
      BY <2>2 DEF CheckpointsAre
    <3> HIDE DEF m
    <3>2. m \in Nat /\ m <= Len(LineEnds(opened))
      BY <2>1, <3>1, StartFacts
    <3>3. StartOf(m) = Start(opened, m)
      BY <2>4, <3>2 DEF StartIn
    <3> QED BY <3>1, <3>3 DEF m
  <2>6. orig.seqLine # 0 => orig.seqLine <= orig.nlines /\ orig.seqPos = StartOf(orig.seqLine)
    BY <2>3, <2>4
  <2>7. orig.blockBuf = SubSeq(file, orig.blockPos + 1, orig.blockPos + Len(orig.blockBuf))
    BY <2>3 DEF BlockOf
  <2> QED BY <2>5, <2>6, <2>7 DEF CursorSound
<1> QED BY <1>1, PagedInvariant, PTL

\* The map and the list of the cache hold the same entries and agree in both
\* directions, the characters counted are those held and within the budget
\* unless one line alone exceeds it, and a cached line is the line of the file
\* (put, evict, pushFront and unlink, engine/buffer/original_cache.go).
THEOREM CacheStaysSound ==
  ASSUME Unterminated = FALSE
  PROVE  Spec => []CacheSound
<1>1. PagedInv => CacheSound
  <2> SUFFICES ASSUME PagedInv PROVE CacheSound
    OBVIOUS
  <2> DEFINE c == orig.cache
  <2>1. CacheIs(c, LinesOf(opened))
    BY DEF PagedInv, FileInv, ReaderIs
  <2> HIDE DEF c
  <2>2. PICK s : KeptBy(c, s)
    BY <2>1 DEF CacheIs
  <2>3. Cardinality(DOMAIN c.m) = Len(s) /\ Len(s) \in Nat
    BY <2>2, KeptFacts
  <2>4. /\ s \in Seq(Nat) /\ Chain(c, s) /\ c.runes = RunesOf(c, s) /\ ToSet(s) = DOMAIN c.m
    BY <2>2 DEF KeptBy
  <2>5. s \in [1..Len(s) -> DOMAIN c.m]
    BY <2>3, <2>4 DEF ToSet
  <2>6. Linked(c, s)
    BY <2>3, <2>4 DEF Linked, Chain, At
  <2>7. \E list \in [1..Cardinality(DOMAIN c.m) -> DOMAIN c.m] :
           Linked(c, list) /\ c.runes = RunesOf(c, list)
    BY <2>3, <2>4, <2>5, <2>6
  <2> QED BY <2>1, <2>7 DEF CacheSound, CacheIs, c
<1> QED BY <1>1, PagedInvariant, PTL

\* The store on disk is the plain sequence of lines that a buffer in memory is:
\* every Get, Set, Insert and Delete, at any line number, is that of buffer.Mem
\* (engine/buffer/paged.go against engine/buffer/mem.go).
THEOREM PagedImplementsStore ==
  ASSUME Unterminated = FALSE
  PROVE  Spec => ImplementsStore
<1>1. Init => Abstract!LInit
  <2> SUFFICES ASSUME Init PROVE Abstract!LInit
    OBVIOUS
  <2>1. PagedInv /\ answer = <<>>
    BY PagedInit
  <2>2. lines \in Seq(Text)
    BY <2>1, BufferFacts
  <2> QED BY <2>1, <2>2 DEF Abstract!LInit, Abstract!Buffer
<1>2. PagedInv /\ [Next]_vars => [Abstract!LNext]_(Abstract!lvars)
  BY PagedNext
<1> QED BY <1>1, <1>2, PagedInvariant, PTL DEF Spec, ImplementsStore, Abstract!LSpec
=============================================================================
