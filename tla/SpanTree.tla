------------------------------ MODULE SpanTree ------------------------------
(***************************************************************************)
(* The order of the lines of a paged store (engine/buffer/paged.go): a tree *)
(* of spans, each a run of lines of one source, the original or the lines   *)
(* added.  A node counts the lines of its subtree; positions are found by   *)
(* the counts alone.  The random priorities decide the shape of the tree;   *)
(* those of the two halves of a divided span are new, so that the tree need *)
(* not stay a heap.                                                         *)
(***************************************************************************)
EXTENDS Integers, Sequences

NoNode == <<>>

splitAt(sp, d) ==
  << [sp EXCEPT !.count = d],
     [fromAdd |-> sp.fromAdd, start |-> sp.start + d, count |-> sp.count - d] >>

lc(t) == IF t = NoNode THEN 0 ELSE t.lcount

update(t) == [t EXCEPT !.lcount = t.sp.count + lc(t.left) + lc(t.right)]

newNode(sp, prio) ==
  [sp |-> sp, prio |-> prio, left |-> NoNode, right |-> NoNode, lcount |-> sp.count]

\* Faulty variant: the right half of a divided span keeps the count of the whole.
divideUncounted(t, within, p, q) ==
  LET halves == splitAt(t.sp, within)
  IN  << update([newNode(halves[1], p) EXCEPT !.left = t.left]),
         [newNode(halves[2], q) EXCEPT !.right = t.right] >>

\* A node whose span is divided after its first "within" lines.
divide(t, within, p, q) ==
  LET halves == splitAt(t.sp, within)
  IN  << update([newNode(halves[1], p) EXCEPT !.left = t.left]),
         update([newNode(halves[2], q) EXCEPT !.right = t.right]) >>

\* A tree, all that is below it, and the empty tree.  Each node on a way down
\* holds a line, so that no way is longer than the lines are many.
Below(t) ==
  LET upto[n \in 0..lc(t)] ==
        LET above == IF n = 0 THEN {} ELSE upto[n - 1]
        IN  IF n = 0 THEN {t, NoNode}
            ELSE above \cup {x.left : x \in above \ {NoNode}} \cup {x.right : x \in above \ {NoNode}}
  IN  upto[lc(t)]

\* The tree of the first k lines and the tree of the rest; p and q are the
\* priorities drawn should a span be divided.
split(t, k, p, q) ==
  LET at[d \in Below(t) \X Int] ==
        LET x == d[1]
            j == d[2]
            ls == lc(x.left)
            l == at[<<x.left, j>>]
            r == at[<<x.right, j - ls - x.sp.count>>]
        IN  IF x = NoNode THEN <<NoNode, NoNode>>
            ELSE IF j <= ls THEN << l[1], update([x EXCEPT !.left = l[2]]) >>
            ELSE IF j >= ls + x.sp.count THEN << update([x EXCEPT !.right = r[1]]), r[2] >>
            ELSE divide(x, j - ls, p, q)
  IN  at[<<t, k>>]

\* One tree of the lines of a and, behind them, those of b.
merge(a, b) ==
  LET join[d \in Below(a) \X Below(b)] ==
        LET x == d[1]
            y == d[2]
        IN  IF x = NoNode THEN y
            ELSE IF y = NoNode THEN x
            ELSE IF x.prio > y.prio THEN update([x EXCEPT !.right = join[<<@, y>>]])
            ELSE update([y EXCEPT !.left = join[<<x, @>>]])
  IN  join[<<a, b>>]

\* The span that holds the line with k lines before it, and where in it (the
\* code fails where the tree ends, as what asks for a part of <<>> does).
locate(t, k) ==
  LET at[d \in Below(t) \X Int] ==
        LET x == d[1]
            j == d[2]
            ls == lc(x.left)
        IN  IF x = NoNode THEN <<>>
            ELSE IF j < ls THEN at[<<x.left, j>>]
            ELSE IF j < ls + x.sp.count THEN [sp |-> x.sp, off |-> j - ls]
            ELSE at[<<x.right, j - ls - x.sp.count>>]
  IN  at[<<t, k>>]

\* The lines of a tree from left to right, for the properties: for each the
\* source, TRUE for the lines added, and its number there, counted from 0.
Refs(sp) == [i \in 1..sp.count |-> <<sp.fromAdd, sp.start + i - 1>>]

Order(t) ==
  LET order[x \in Below(t)] ==
        IF x = NoNode THEN <<>> ELSE order[x.left] \o Refs(x.sp) \o order[x.right]
  IN  order[t]
=============================================================================
