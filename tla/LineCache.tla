----------------------------- MODULE LineCache -----------------------------
(***************************************************************************)
(* The cache of decoded lines (engine/buffer/original_cache.go): a map from *)
(* the number of a line in the original to its entry, and a doubly linked   *)
(* list of the entries, most recently used first.  An entry is known by its *)
(* line number, as the map holds one entry for each.  A cache is a record:  *)
(*   m            the entries of the map, line number -> characters         *)
(*   prev, next   the links of the entries in the list                      *)
(*   head, tail   its ends                                                  *)
(*   runes        the characters counted                                    *)
(***************************************************************************)
EXTENDS Integers, Sequences, SequencesExt, FiniteSets

CONSTANT Budget   \* origCacheRuneBudget

Nil == -1

newOrigCache == [m |-> <<>>, prev |-> <<>>, next |-> <<>>,
                 head |-> Nil, tail |-> Nil, runes |-> 0]

\* The function f with k mapped to v, and without k.
With(f, k, v) == [j \in DOMAIN f \cup {k} |-> IF j = k THEN v ELSE f[j]]
Without(f, k) == [j \in DOMAIN f \ {k} |-> f[j]]

pushFront(c, e) ==
  [c EXCEPT !.prev = IF c.head = Nil THEN With(@, e, Nil)
                     ELSE With(With(@, e, Nil), c.head, e),
            !.next = With(@, e, c.head),
            !.head = e,
            !.tail = IF @ = Nil THEN e ELSE @]

\* Faulty variant: the entry before the last is not made the tail.
unlinkKeepsTail(c, e) ==
  LET p == c.prev[e]
      n == c.next[e]
  IN  [c EXCEPT !.prev = IF n = Nil THEN @ ELSE With(@, n, p),
                !.next = IF p = Nil THEN @ ELSE With(@, p, n),
                !.head = IF @ = e THEN n ELSE @]

unlink(c, e) ==
  LET p == c.prev[e]
      n == c.next[e]
  IN  [c EXCEPT !.prev = With(IF n = Nil THEN @ ELSE With(@, n, p), e, Nil),
                !.next = With(IF p = Nil THEN @ ELSE With(@, p, n), e, Nil),
                !.head = IF p = Nil /\ @ = e THEN n ELSE @,
                !.tail = IF n = Nil /\ @ = e THEN p ELSE @]

toFront(c, e) == IF c.head = e THEN c ELSE pushFront(unlink(c, e), e)

\* The entry at the tail leaves the list and the map, and is garbage.
DropTail(c) ==
  LET t == c.tail
      u == unlink(c, t)
  IN  [u EXCEPT !.m = Without(@, t),
                !.prev = Without(@, t),
                !.next = Without(@, t),
                !.runes = @ - Len(c.m[t])]

OverBudget(c) == c.runes > Budget /\ Cardinality(DOMAIN c.m) > 1 /\ c.tail # Nil

\* Each round drops an entry: there are at most as many as entries.
evict(c) ==
  LET after[i \in 0..Cardinality(DOMAIN c.m)] ==
        IF i = 0 THEN c
        ELSE IF OverBudget(after[i - 1]) THEN DropTail(after[i - 1])
        ELSE after[i - 1]
  IN  after[Cardinality(DOMAIN c.m)]

Cached(c, oln) == oln \in DOMAIN c.m

put(c, oln, line) ==
  evict(IF Cached(c, oln)
          THEN toFront([c EXCEPT !.m[oln] = line, !.runes = @ + Len(line) - Len(c.m[oln])], oln)
          ELSE pushFront([c EXCEPT !.m = With(@, oln, line), !.runes = @ + Len(line)], oln))

\* The entries of the cache are those of the list, each once, linked in both
\* directions; and the characters they hold (for the properties).
Linked(c, list) ==
  LET n == Len(list)
      At(i) == IF i \in 1..n THEN list[i] ELSE Nil
  IN  /\ IsInjective(list) /\ ToSet(list) = DOMAIN c.m
      /\ c.head = At(1) /\ c.tail = At(n)
      /\ \A i \in 1..n : c.prev[list[i]] = At(i - 1) /\ c.next[list[i]] = At(i + 1)

RunesOf(c, list) ==
  LET upto[i \in 0..Len(list)] ==
        IF i = 0 THEN 0 ELSE upto[i - 1] + Len(c.m[list[i]])
  IN  upto[Len(list)]
=============================================================================
