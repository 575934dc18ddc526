------------------------------- MODULE Lists -------------------------------
(***************************************************************************)
(* Induction and recursion over 0..n, stated for sets and functions, what   *)
(* the operations on lists return, quotients, pieces of lists and lists put *)
(* together.  The library's induction theorems take an operator; what the   *)
(* proofs about loops need is obtained here from the well-foundedness of <  *)
(* on Nat: a set of counterexamples that has no least element is empty.     *)
(***************************************************************************)
EXTENDS Integers, SequencesExt, SequenceTheorems, FiniteSetTheorems, TLAPS

\* Every non-empty set of naturals has a least element.
LEMMA LeastElement ==
  ASSUME NEW T \in SUBSET Nat, T # {}
  PROVE  \E x \in T : \A y \in T : x <= y
<1> DEFINE R == {p \in Nat \X Nat : p[1] < p[2]}
<1>1. IsWellFoundedOn(R, Nat)
  BY NatLessThanWellFounded DEF OpToRel
<1>2. PICK x \in T : \A y \in T : ~ (<<y, x>> \in R)
  <2> HIDE DEF R
  <2> QED BY <1>1, WFMin
<1>3. \A y \in T : ~ (y < x)
  <2> TAKE y \in T
  <2>1. <<y, x>> \in Nat \X Nat /\ <<y, x>>[1] = y /\ <<y, x>>[2] = x
    OBVIOUS
  <2> QED BY <1>2, <2>1
<1> QED BY <1>3

\* T holds 0 and is closed under successor up to n.
InductiveUpTo(n, T) ==
  0 \in T /\ \A m \in 1..n : m - 1 \in T => m \in T

\* Induction along 0..n: such a set holds every number of the interval.
LEMMA IntervalInduction ==
  ASSUME NEW n \in Nat, NEW T, InductiveUpTo(n, T)
  PROVE  0..n \subseteq T
<1> DEFINE Bad == {m \in 0..n : m \notin T}
<1> SUFFICES ASSUME Bad # {} PROVE FALSE
  OBVIOUS
<1>1. PICK m \in Bad : \A k \in Bad : m <= k
  <2>1. Bad \in SUBSET Nat
    OBVIOUS
  <2> HIDE DEF Bad
  <2> QED BY <2>1, LeastElement
<1>2. m \in 1..n /\ m - 1 \in 0..n
  BY DEF InductiveUpTo
<1>3. m - 1 \notin Bad
  BY <1>1, <1>2
<1> QED BY <1>2, <1>3 DEF InductiveUpTo

\* The i-th step of an iteration in B is taken by the function F[i].
Stepper(n, B) == [1..n -> [B -> B]]

\* The course of the iteration from s: t[i] is reached after i steps.
IsCourse(t, n, s, F) ==
  t[0] = s /\ \A i \in 1..n : t[i] = F[i][t[i - 1]]

\* Recursion along 0..n: an iteration has a course, and it stays in B.
LEMMA CourseExists ==
  ASSUME NEW n \in Nat, NEW B, NEW s \in B, NEW F \in Stepper(n, B)
  PROVE  \E t \in [0..n -> B] : IsCourse(t, n, s, F)
<1> DEFINE Upto(m) == \E t \in [0..m -> B] : IsCourse(t, m, s, F)
           T == {m \in 0..n : Upto(m)}
<1>1. Upto(0)
  <2> DEFINE t == [i \in 0..0 |-> s]
  <2>1. t \in [0..0 -> B] /\ t[0] = s
    OBVIOUS
  <2>2. IsCourse(t, 0, s, F)
    BY <2>1 DEF IsCourse
  <2> HIDE DEF t
  <2> QED BY <2>1, <2>2
<1>2. ASSUME NEW m \in 1..n, Upto(m - 1)
      PROVE  Upto(m)
  <2>1. PICK t \in [0..(m - 1) -> B] : IsCourse(t, m - 1, s, F)
    BY <1>2
  <2> DEFINE u == [i \in 0..m |-> IF i = m THEN F[m][t[m - 1]] ELSE t[i]]
  <2>2. F[m][t[m - 1]] \in B
    BY <2>1 DEF Stepper
  <2>3. u \in [0..m -> B] /\ u[0] = s
    BY <2>1, <2>2 DEF IsCourse
  <2>4. \A i \in 1..m : u[i] = F[i][u[i - 1]]
    <3> TAKE i \in 1..m
    <3>1. CASE i = m
      <4>1. u[i - 1] = t[m - 1] /\ u[i] = F[m][t[m - 1]]
        BY <3>1
      <4> HIDE DEF u
      <4> QED BY <3>1, <4>1
    <3>2. CASE i # m
      <4>1. i \in 1..(m - 1) /\ u[i] = t[i] /\ u[i - 1] = t[i - 1]
        BY <3>2
      <4> QED BY <2>1, <4>1 DEF IsCourse
    <3> QED BY <3>1, <3>2
  <2>5. IsCourse(u, m, s, F)
    BY <2>3, <2>4 DEF IsCourse
  <2> HIDE DEF u
  <2> QED BY <2>3, <2>5
<1>3. InductiveUpTo(n, T)
  <2> HIDE DEF Upto
  <2> QED BY <1>1, <1>2 DEF InductiveUpTo
<1>4. n \in T
  <2> HIDE DEF T
  <2> QED BY <1>3, IntervalInduction
<1> QED BY <1>4

-----------------------------------------------------------------------------
(***************************************************************************)
(* Lists.                                                                   *)
(***************************************************************************)

\* All but the last element of a sequence, and the last one.
LEMMA FrontLast ==
  ASSUME NEW S, NEW s \in Seq(S), s # <<>>
  PROVE  /\ Front(s) \in Seq(S)
         /\ Len(Front(s)) = Len(s) - 1
         /\ Len(s) \in Nat \ {0}
         /\ \A i \in 1..(Len(s) - 1) : Front(s)[i] = s[i]
         /\ Last(s) = s[Len(s)]
         /\ Last(s) \in S
<1>1. Len(s) \in Nat \ {0}
  OBVIOUS
<1>2. Last(s) = s[Len(s)] /\ s[Len(s)] \in S
  BY <1>1 DEF Last
<1>3. /\ SubSeq(s, 1, Len(s) - 1) \in Seq(S)
      /\ Len(SubSeq(s, 1, Len(s) - 1)) = Len(s) - 1
      /\ \A i \in 1..(Len(s) - 1) : SubSeq(s, 1, Len(s) - 1)[i] = s[i]
  <2>1. Len(s) - 1 \in 0..Len(s)
    BY <1>1
  <2>2. SubSeq(s, 1, Len(s) - 1) \in Seq(S)
    BY <2>1
  <2>3. Len(SubSeq(s, 1, Len(s) - 1)) = Len(s) - 1
    <3>1. CASE Len(s) = 1
      <4>1. SubSeq(s, 1, 0) = <<>>
        BY SubSeqEmpty
      <4> QED BY <3>1, <4>1
    <3>2. CASE Len(s) > 1
      BY <1>1, <3>2
    <3> QED BY <1>1, <3>1, <3>2
  <2>4. ASSUME NEW i \in 1..(Len(s) - 1)
        PROVE  SubSeq(s, 1, Len(s) - 1)[i] = s[i]
    BY <1>1, <2>1
  <2> QED BY <2>2, <2>3, <2>4
<1> QED BY <1>1, <1>2, <1>3 DEF Front

\* An element taken out of a list: those before it stay, those behind it move up.
LEMMA RemoveAtResult ==
  ASSUME NEW S, NEW d \in Seq(S), NEW k \in 1..Len(d)
  PROVE  /\ RemoveAt(d, k) \in Seq(S)
         /\ Len(RemoveAt(d, k)) = Len(d) - 1
         /\ \A j \in 1..(Len(d) - 1) : RemoveAt(d, k)[j] = IF j < k THEN d[j] ELSE d[j + 1]
<1> DEFINE a == SubSeq(d, 1, k - 1)
           b == SubSeq(d, k + 1, Len(d))
<1>1. Len(d) \in Nat /\ \A i \in 1..Len(d) : d[i] \in S
  BY ElementOfSeq, LenProperties
<1>2. /\ a \in Seq(S) /\ Len(a) = k - 1
      /\ \A i \in 1..(k - 1) : a[i] = d[i]
  <2>1. \A i \in 1..(k - 1) : d[i] \in S
    BY <1>1
  <2> QED BY <1>1, <2>1, SubSeqProperties
<1>3. /\ b \in Seq(S) /\ Len(b) = Len(d) - k
      /\ \A i \in 1..(Len(d) - k) : b[i] = d[k + i]
  <2>1. \A i \in (k + 1)..Len(d) : d[i] \in S
    BY <1>1
  <2>2. /\ b \in Seq(S)
        /\ Len(b) = IF k + 1 <= Len(d) THEN Len(d) - (k + 1) + 1 ELSE 0
        /\ \A i \in 1..(Len(d) - (k + 1) + 1) : b[i] = d[(k + 1) + i - 1]
    BY <1>1, <2>1, SubSeqProperties
  <2> HIDE DEF b
  <2>3. Len(d) - (k + 1) + 1 = Len(d) - k /\ k \in Nat /\ k <= Len(d)
    BY <1>1
  <2>4. Len(b) = Len(d) - k
    <3>1. CASE k + 1 <= Len(d)
      BY <2>2, <2>3, <3>1
    <3>2. CASE k = Len(d)
      <4>1. ~ (k + 1 <= Len(d)) /\ Len(d) - k = 0
        BY <1>1, <3>2
      <4> QED BY <2>2, <4>1
    <3>3. k + 1 <= Len(d) \/ k = Len(d)
      <4>1. \A m, n \in Nat : m <= n => m + 1 <= n \/ m = n
        OBVIOUS
      <4> QED BY <1>1, <2>3, <4>1
    <3> QED BY <3>1, <3>2, <3>3
  <2>5. ASSUME NEW i \in 1..(Len(d) - k) PROVE b[i] = d[k + i]
    <3>1. (k + 1) + i - 1 = k + i
      BY <2>3
    <3> QED BY <2>2, <2>3, <3>1
  <2> QED BY <2>2, <2>4, <2>5
<1>4. RemoveAt(d, k) = a \o b
  BY DEF RemoveAt
<1> HIDE DEF a, b
<1>5. /\ a \o b \in Seq(S) /\ Len(a \o b) = Len(d) - 1
      /\ \A j \in 1..(Len(d) - 1) :
           (a \o b)[j] = IF j <= k - 1 THEN a[j] ELSE b[j - (k - 1)]
  BY <1>1, <1>2, <1>3, ConcatProperties
<1>6. ASSUME NEW j \in 1..(Len(d) - 1)
      PROVE  (a \o b)[j] = IF j < k THEN d[j] ELSE d[j + 1]
  <2>1. CASE j < k
    BY <1>1, <1>2, <1>5, <2>1
  <2>2. CASE j >= k
    <3>1. j - (k - 1) \in 1..(Len(d) - k) /\ k + (j - (k - 1)) = j + 1
      BY <1>1, <2>2
    <3> QED BY <1>1, <1>3, <1>5, <2>2, <3>1
  <2>3. j < k \/ j >= k
    BY <1>1
  <2> QED BY <2>1, <2>2, <2>3
<1> QED BY <1>4, <1>5, <1>6

\* An element put in at place k: those before it stay, those from k on move down.
LEMMA InsertAtResult ==
  ASSUME NEW S, NEW s \in Seq(S), NEW k \in 1..(Len(s) + 1), NEW x \in S
  PROVE  /\ InsertAt(s, k, x) \in Seq(S)
         /\ Len(InsertAt(s, k, x)) = Len(s) + 1
         /\ \A i \in 1..(Len(s) + 1) :
              InsertAt(s, k, x)[i] = IF i < k THEN s[i] ELSE IF i = k THEN x ELSE s[i - 1]
<1> DEFINE a == SubSeq(s, 1, k - 1)
           b == SubSeq(s, k, Len(s))
           c == a \o <<x>>
<1>1. Len(s) \in Nat /\ \A i \in 1..Len(s) : s[i] \in S
  BY ElementOfSeq, LenProperties
<1>2. /\ a \in Seq(S) /\ Len(a) = k - 1
      /\ \A i \in 1..(k - 1) : a[i] = s[i]
  <2>1. \A i \in 1..(k - 1) : s[i] \in S
    BY <1>1
  <2> QED BY <1>1, <2>1, SubSeqProperties
<1>3. /\ b \in Seq(S) /\ Len(b) = Len(s) - k + 1
      /\ \A i \in 1..(Len(s) - k + 1) : b[i] = s[k + i - 1]
  <2>1. \A i \in k..Len(s) : s[i] \in S
    BY <1>1
  <2>2. /\ b \in Seq(S)
        /\ Len(b) = IF k <= Len(s) THEN Len(s) - k + 1 ELSE 0
        /\ \A i \in 1..(Len(s) - k + 1) : b[i] = s[k + i - 1]
    BY <1>1, <2>1, SubSeqProperties
  <2> HIDE DEF b
  <2>3. k > Len(s) => Len(s) - k + 1 = 0
    BY <1>1
  <2> QED BY <1>1, <2>2, <2>3
<1> HIDE DEF a, b
<1>4. /\ c \in Seq(S) /\ Len(c) = k
      /\ \A i \in 1..(k - 1) : c[i] = a[i]
      /\ c[k] = x
  <2>1. <<x>> \in Seq(S) /\ Len(<<x>>) = 1 /\ <<x>>[1] = x
    OBVIOUS
  <2> QED BY <1>1, <1>2, <2>1, ConcatProperties
<1> HIDE DEF c
<1>5. /\ c \o b \in Seq(S) /\ Len(c \o b) = Len(s) + 1
      /\ \A i \in 1..(Len(s) + 1) :
           (c \o b)[i] = IF i <= k THEN c[i] ELSE b[i - k]
  <2>1. /\ c \o b \in Seq(S) /\ Len(c \o b) = Len(c) + Len(b)
        /\ \A i \in 1..(Len(c) + Len(b)) :
             (c \o b)[i] = IF i <= Len(c) THEN c[i] ELSE b[i - Len(c)]
    BY <1>3, <1>4, ConcatProperties
  <2>2. Len(c) + Len(b) = Len(s) + 1
    BY <1>1, <1>3, <1>4
  <2> QED BY <1>4, <2>1, <2>2
<1>6. ASSUME NEW i \in 1..(Len(s) + 1)
      PROVE  (c \o b)[i] = IF i < k THEN s[i] ELSE IF i = k THEN x ELSE s[i - 1]
  <2>1. CASE i < k
    <3>1. i \in 1..(k - 1) /\ i <= k
      BY <1>1, <2>1
    <3> QED BY <1>2, <1>4, <1>5, <2>1, <3>1
  <2>2. CASE i = k
    BY <1>1, <1>4, <1>5, <2>2
  <2>3. CASE i > k
    <3>1. i - k \in 1..(Len(s) - k + 1) /\ k + (i - k) - 1 = i - 1
      BY <1>1, <2>3
    <3> QED BY <1>1, <1>3, <1>5, <2>3, <3>1
  <2>4. i < k \/ i = k \/ i > k
    BY <1>1
  <2> QED BY <2>1, <2>2, <2>3, <2>4
<1>7. InsertAt(s, k, x) = c \o b
  BY DEF InsertAt, a, b, c
<1> QED BY <1>5, <1>6, <1>7

\* The elements of a list with one put in, and that it has none twice.
LEMMA InsertKeeps ==
  ASSUME NEW S, NEW s \in Seq(S), NEW k \in 1..(Len(s) + 1), NEW x \in S
  PROVE  /\ ToSet(InsertAt(s, k, x)) = ToSet(s) \cup {x}
         /\ IsInjective(s) /\ x \notin ToSet(s) => IsInjective(InsertAt(s, k, x))
<1> DEFINE t == InsertAt(s, k, x)
<1>1. /\ t \in Seq(S) /\ Len(t) = Len(s) + 1
      /\ \A i \in 1..(Len(s) + 1) :
           t[i] = IF i < k THEN s[i] ELSE IF i = k THEN x ELSE s[i - 1]
  BY InsertAtResult
<1> HIDE DEF t
<1>2. Len(s) \in Nat /\ DOMAIN s = 1..Len(s) /\ DOMAIN t = 1..(Len(s) + 1)
  BY <1>1
<1>3. ASSUME NEW i \in 1..(Len(s) + 1), i # k
      PROVE  \E j \in 1..Len(s) : t[i] = s[j] /\ j = IF i < k THEN i ELSE i - 1
  BY <1>1, <1>2, <1>3
<1>4. ToSet(t) \subseteq ToSet(s) \cup {x}
  <2> SUFFICES ASSUME NEW i \in 1..(Len(s) + 1) PROVE t[i] \in ToSet(s) \cup {x}
    BY <1>2 DEF ToSet
  <2>1. CASE i = k
    BY <1>1, <2>1
  <2>2. CASE i # k
    BY <1>2, <1>3, <2>2 DEF ToSet
  <2> QED BY <2>1, <2>2
<1>5. ToSet(s) \subseteq ToSet(t)
  <2> SUFFICES ASSUME NEW j \in 1..Len(s) PROVE s[j] \in ToSet(t)
    BY <1>2 DEF ToSet
  <2>1. CASE j < k
    <3>1. j \in 1..(Len(s) + 1) /\ t[j] = s[j]
      BY <1>1, <1>2, <2>1
    <3> QED BY <1>2, <3>1 DEF ToSet
  <2>2. CASE j >= k
    <3>1. j + 1 \in 1..(Len(s) + 1) /\ t[j + 1] = s[j]
      BY <1>1, <1>2, <2>2
    <3> QED BY <1>2, <3>1 DEF ToSet
  <2> QED BY <1>2, <2>1, <2>2
<1>6. x \in ToSet(t)
  <2>1. t[k] = x /\ k \in 1..(Len(s) + 1)
    BY <1>1, <1>2
  <2> QED BY <1>2, <2>1 DEF ToSet
<1>7. ASSUME IsInjective(s), x \notin ToSet(s) PROVE IsInjective(t)
  <2> SUFFICES ASSUME NEW i \in 1..(Len(s) + 1), NEW j \in 1..(Len(s) + 1), t[i] = t[j]
               PROVE  i = j
    BY <1>2 DEF IsInjective
  <2>1. CASE i = k \/ j = k
    <3>1. t[k] = x
      BY <1>1, <1>2
    <3>2. \A m \in 1..(Len(s) + 1) : m # k => t[m] # x
      BY <1>2, <1>3, <1>7 DEF ToSet
    <3> QED BY <2>1, <3>1, <3>2
  <2>2. CASE i # k /\ j # k
    <3>1. PICK a \in 1..Len(s) : t[i] = s[a] /\ a = IF i < k THEN i ELSE i - 1
      BY <1>3, <2>2
    <3>2. PICK b \in 1..Len(s) : t[j] = s[b] /\ b = IF j < k THEN j ELSE j - 1
      BY <1>3, <2>2
    <3>3. a = b
      BY <1>2, <1>7, <3>1, <3>2 DEF IsInjective
    <3> QED BY <1>2, <2>2, <3>1, <3>2, <3>3
  <2> QED BY <2>1, <2>2
<1> QED BY <1>4, <1>5, <1>6, <1>7 DEF t

\* The elements of a list with one taken out.
LEMMA RemoveKeeps ==
  ASSUME NEW S, NEW s \in Seq(S), NEW k \in 1..Len(s), IsInjective(s)
  PROVE  /\ ToSet(RemoveAt(s, k)) = ToSet(s) \ {s[k]}
         /\ IsInjective(RemoveAt(s, k))
<1> DEFINE t == RemoveAt(s, k)
<1>1. /\ t \in Seq(S) /\ Len(t) = Len(s) - 1
      /\ \A i \in 1..(Len(s) - 1) : t[i] = IF i < k THEN s[i] ELSE s[i + 1]
  BY RemoveAtResult
<1> HIDE DEF t
<1>2. Len(s) \in Nat /\ DOMAIN s = 1..Len(s) /\ DOMAIN t = 1..(Len(s) - 1)
  BY <1>1
<1>3. ASSUME NEW i \in 1..(Len(s) - 1)
      PROVE  \E j \in 1..Len(s) : /\ t[i] = s[j] /\ j # k
                                  /\ j = IF i < k THEN i ELSE i + 1
  BY <1>1, <1>2
<1>4. ToSet(t) \subseteq ToSet(s) \ {s[k]}
  <2> SUFFICES ASSUME NEW i \in 1..(Len(s) - 1) PROVE t[i] \in ToSet(s) \ {s[k]}
    BY <1>2 DEF ToSet
  <2>1. PICK j \in 1..Len(s) : t[i] = s[j] /\ j # k
    BY <1>3
  <2> QED BY <1>2, <2>1 DEF ToSet, IsInjective
<1>5. ASSUME NEW j \in 1..Len(s), s[j] # s[k] PROVE s[j] \in ToSet(t)
  <2>1. CASE j < k
    <3>1. j \in 1..(Len(s) - 1) /\ t[j] = s[j]
      BY <1>1, <1>2, <2>1
    <3> QED BY <1>2, <3>1 DEF ToSet
  <2>2. CASE j > k
    <3>1. j - 1 \in 1..(Len(s) - 1) /\ t[j - 1] = s[j]
      BY <1>1, <1>2, <2>2
    <3> QED BY <1>2, <3>1 DEF ToSet
  <2>3. j # k
    BY <1>5
  <2> QED BY <1>2, <2>1, <2>2, <2>3
<1>6. IsInjective(t)
  <2> SUFFICES ASSUME NEW i \in 1..(Len(s) - 1), NEW j \in 1..(Len(s) - 1), t[i] = t[j]
               PROVE  i = j
    BY <1>2 DEF IsInjective
  <2>1. PICK a \in 1..Len(s) : t[i] = s[a] /\ a = IF i < k THEN i ELSE i + 1
    BY <1>3
  <2>2. PICK b \in 1..Len(s) : t[j] = s[b] /\ b = IF j < k THEN j ELSE j + 1
    BY <1>3
  <2>3. a = b
    BY <1>2, <2>1, <2>2 DEF IsInjective
  <2> QED BY <1>2, <2>1, <2>2, <2>3
<1> QED BY <1>2, <1>4, <1>5, <1>6 DEF t, ToSet

\* The elements of a list with one more at its end.
LEMMA AppendKeeps ==
  ASSUME NEW S, NEW s \in Seq(S), NEW x \in S
  PROVE  /\ ToSet(Append(s, x)) = ToSet(s) \cup {x}
         /\ IsInjective(s) /\ x \notin ToSet(s) => IsInjective(Append(s, x))
<1> DEFINE t == Append(s, x)
<1>1. /\ Len(s) \in Nat /\ DOMAIN s = 1..Len(s) /\ DOMAIN t = 1..(Len(s) + 1)
      /\ \A i \in 1..Len(s) : t[i] = s[i]
      /\ t[Len(s) + 1] = x
  OBVIOUS
<1> HIDE DEF t
<1>2. ToSet(t) = ToSet(s) \cup {x}
  BY <1>1 DEF ToSet
<1>3. IsInjective(s) /\ x \notin ToSet(s) => IsInjective(t)
  BY <1>1 DEF ToSet, IsInjective
<1> QED BY <1>2, <1>3 DEF t

\* The elements of a list with one replaced by a new one.
LEMMA ReplaceKeeps ==
  ASSUME NEW S, NEW s \in Seq(S), NEW x \in ToSet(s), NEW y \in S \ ToSet(s)
  PROVE  /\ ReplaceAll(s, x, y) \in Seq(S)
         /\ Len(ReplaceAll(s, x, y)) = Len(s)
         /\ ToSet(ReplaceAll(s, x, y)) = (ToSet(s) \ {x}) \cup {y}
         /\ IsInjective(s) => IsInjective(ReplaceAll(s, x, y))
<1> DEFINE t == ReplaceAll(s, x, y)
<1>1. Len(s) \in Nat /\ DOMAIN s = 1..Len(s) /\ \A i \in 1..Len(s) : s[i] \in S
  OBVIOUS
<1>2. t \in Seq(S) /\ Len(t) = Len(s)
  BY <1>1 DEF ReplaceAll
<1>3. \A i \in 1..Len(s) : t[i] = IF s[i] = x THEN y ELSE s[i]
  BY DEF ReplaceAll
<1>4. DOMAIN t = 1..Len(s)
  BY <1>2
<1> HIDE DEF t
<1>5. ToSet(t) = (ToSet(s) \ {x}) \cup {y}
  BY <1>1, <1>3, <1>4 DEF ToSet
<1>6. IsInjective(s) => IsInjective(t)
  BY <1>1, <1>3, <1>4 DEF ToSet, IsInjective
<1> QED BY <1>2, <1>5, <1>6 DEF t

\* The set of a list is finite, and as large as the list if none is twice in it.
LEMMA ListSize ==
  ASSUME NEW S, NEW s \in Seq(S)
  PROVE  /\ IsFiniteSet(ToSet(s))
         /\ IsInjective(s) => Cardinality(ToSet(s)) = Len(s)
<1>1. Len(s) \in Nat /\ DOMAIN s = 1..Len(s) /\ s \in [1..Len(s) -> ToSet(s)]
  BY DEF ToSet
<1>2. s \in Surjection(1..Len(s), ToSet(s))
  BY <1>1 DEF ToSet, Surjection
<1>3. IsFiniteSet(1..Len(s)) /\ Cardinality(1..Len(s)) = Len(s)
  BY <1>1, FS_Interval
<1>4. /\ IsFiniteSet(ToSet(s))
      /\ Cardinality(ToSet(s)) = Cardinality(1..Len(s)) <=> s \in Injection(1..Len(s), ToSet(s))
  BY <1>2, <1>3, FS_Surjection
<1>5. IsInjective(s) => s \in Injection(1..Len(s), ToSet(s))
  BY <1>1 DEF IsInjective, Injection
<1> QED BY <1>3, <1>4, <1>5

-----------------------------------------------------------------------------
(***************************************************************************)
(* The extremes of a finite set of integers.                                *)
(***************************************************************************)

\* It has a greatest and a least element.
LEMMA Extremes ==
  ASSUME NEW T \in SUBSET Int, T # {}, IsFiniteSet(T)
  PROVE  /\ Max(T) \in T /\ \A y \in T : y <= Max(T)
         /\ Min(T) \in T /\ \A y \in T : Min(T) <= y
<1> DEFINE n == Cardinality(T)
<1>1. /\ n \in Nat
      /\ \E f \in [1..n -> T] : \A y \in T : \E i \in 1..n : f[i] = y
  BY FS_CardinalityType DEF ExistsBijection, Bijection, Surjection
<1> HIDE DEF n
<1>0. PICK f \in [1..n -> T] : \A y \in T : \E i \in 1..n : f[i] = y
  BY <1>1
<1> DEFINE Upto(m) == m > 0 =>
             /\ \E i \in 1..m : \A j \in 1..m : f[j] <= f[i]
             /\ \E i \in 1..m : \A j \in 1..m : f[i] <= f[j]
           U == {m \in 0..n : Upto(m)}
<1>2. InductiveUpTo(n, U)
  <2>1. Upto(0)
    OBVIOUS
  <2>2. ASSUME NEW m \in 1..n, Upto(m - 1) PROVE Upto(m)
    <3>1. \A i \in 1..m : f[i] \in Int /\ (i \in 1..(m - 1) \/ i = m)
      <4>1. \A i \in 1..m : i \in 1..n /\ (i \in 1..(m - 1) \/ i = m)
        BY <1>1
      <4> QED BY <4>1
    <3>2. CASE m = 1
      <4>1. m \in 1..m /\ \A j \in 1..m : j = m
        BY <3>2
      <4> QED BY <3>1, <4>1, <3>2
    <3>3. CASE m > 1
      <4>1. PICK a \in 1..(m - 1) : \A j \in 1..(m - 1) : f[j] <= f[a]
        BY <2>2, <3>3
      <4>2. PICK b \in 1..(m - 1) : \A j \in 1..(m - 1) : f[b] <= f[j]
        BY <2>2, <3>3
      <4>3. a \in 1..m /\ b \in 1..m /\ m \in 1..m
        OBVIOUS
      <4>4. \E i \in 1..m : \A j \in 1..m : f[j] <= f[i]
        <5>1. CASE f[m] <= f[a]
          <6> WITNESS a \in 1..m
          <6> QED BY <3>1, <4>1, <4>3, <5>1
        <5>2. CASE f[a] <= f[m]
          <6> WITNESS m \in 1..m
          <6>1. ASSUME NEW j \in 1..(m - 1) PROVE f[j] <= f[m]
            <7>1. f[j] <= f[a] /\ f[j] \in Int /\ f[a] \in Int /\ f[m] \in Int
              BY <1>1, <3>1, <4>1, <4>3
            <7> QED BY <5>2, <7>1
          <6> QED BY <3>1, <6>1
        <5>3. f[m] <= f[a] \/ f[a] <= f[m]
          BY <3>1, <4>3
        <5> QED BY <5>1, <5>2, <5>3
      <4>5. \E i \in 1..m : \A j \in 1..m : f[i] <= f[j]
        <5>1. CASE f[b] <= f[m]
          <6> WITNESS b \in 1..m
          <6> QED BY <3>1, <4>2, <4>3, <5>1
        <5>2. CASE f[m] <= f[b]
          <6> WITNESS m \in 1..m
          <6>1. ASSUME NEW j \in 1..(m - 1) PROVE f[m] <= f[j]
            <7>1. f[b] <= f[j] /\ f[j] \in Int /\ f[b] \in Int /\ f[m] \in Int
              BY <1>1, <3>1, <4>2, <4>3
            <7> QED BY <5>2, <7>1
          <6> QED BY <3>1, <6>1
        <5>3. f[m] <= f[b] \/ f[b] <= f[m]
          BY <3>1, <4>3
        <5> QED BY <5>1, <5>2, <5>3
      <4> QED BY <4>4, <4>5
    <3> QED BY <3>2, <3>3
  <2> HIDE DEF Upto
  <2> QED BY <1>1, <2>1, <2>2 DEF InductiveUpTo
<1>3. n \in U
  <2> HIDE DEF U
  <2> QED BY <1>1, <1>2, IntervalInduction
<1>4. n > 0
  <2>1. PICK y \in T : TRUE
    OBVIOUS
  <2> QED BY <1>0, <1>1, <2>1
<1>5. \E x \in T : \A y \in T : x >= y
  <2>1. PICK i \in 1..n : \A j \in 1..n : f[j] <= f[i]
    BY <1>3, <1>4
  <2>2. f[i] \in T /\ \A y \in T : f[i] >= y
    BY <1>0, <1>1, <2>1
  <2> QED BY <2>2
<1>6. \E x \in T : \A y \in T : x =< y
  <2>1. PICK i \in 1..n : \A j \in 1..n : f[i] <= f[j]
    BY <1>3, <1>4
  <2>2. f[i] \in T /\ \A y \in T : f[i] =< y
    BY <1>0, <1>1, <2>1
  <2> QED BY <2>2
<1>7. Max(T) \in T /\ \A y \in T : Max(T) >= y
  BY <1>5 DEF Max
<1>8. Min(T) \in T /\ \A y \in T : Min(T) =< y
  BY <1>6 DEF Min
<1> QED BY <1>7, <1>8

\* Of two integers.
LEMMA TwoExtremes ==
  ASSUME NEW a \in Int, NEW b \in Int
  PROVE  /\ Max({a, b}) = IF a >= b THEN a ELSE b
         /\ Min({a, b}) = IF a <= b THEN a ELSE b
<1>1. IsFiniteSet({a, b})
  <2>1. IsFiniteSet({a}) /\ {a, b} = {a} \cup {b}
    BY FS_Singleton
  <2> QED BY <2>1, FS_AddElement
<1>2. {a, b} \in SUBSET Int /\ {a, b} # {}
  OBVIOUS
<1>3. /\ Max({a, b}) \in {a, b} /\ \A y \in {a, b} : y <= Max({a, b})
      /\ Min({a, b}) \in {a, b} /\ \A y \in {a, b} : Min({a, b}) <= y
  <2> DEFINE T == {a, b}
  <2> HIDE DEF T
  <2> QED BY <1>1, <1>2, Extremes DEF T
<1> QED BY <1>3

\* A number and the values of a function.
WithValues(a, f) == {a} \cup {f[x] : x \in DOMAIN f}

\* If the function is on a finite set, they have extremes.
LEMMA ExtremesOf ==
  ASSUME NEW S, IsFiniteSet(S), NEW f \in [S -> Int], NEW a \in Int
  PROVE  /\ WithValues(a, f) \in SUBSET Int
         /\ Max(WithValues(a, f)) \in WithValues(a, f)
         /\ \A y \in WithValues(a, f) : y <= Max(WithValues(a, f))
         /\ Min(WithValues(a, f)) \in WithValues(a, f)
         /\ \A y \in WithValues(a, f) : Min(WithValues(a, f)) <= y
<1> DEFINE U == {f[x] : x \in S}
           T == WithValues(a, f)
<1>1. f \in Surjection(S, U)
  BY DEF Surjection
<1>2. IsFiniteSet(U)
  <2> HIDE DEF U
  <2> QED BY <1>1, FS_Surjection
<1>3. T = U \cup {a} /\ T \in SUBSET Int /\ T # {}
  BY DEF WithValues
<1>4. IsFiniteSet(T)
  <2> HIDE DEF U
  <2> QED BY <1>2, <1>3, FS_AddElement
<1> HIDE DEF T
<1>5. /\ Max(T) \in T /\ \A y \in T : y <= Max(T)
      /\ Min(T) \in T /\ \A y \in T : Min(T) <= y
  BY <1>3, <1>4, Extremes
<1> QED BY <1>3, <1>5 DEF T

-----------------------------------------------------------------------------
(* Quotients. *)

\* A product grows with its factors.
LEMMA TimesGrows ==
  ASSUME NEW n \in Nat, NEW a \in Int, NEW b \in Int, a <= b
  PROVE  n * a <= n * b
<1>1. b - a \in Nat
  OBVIOUS
<1>2. \A m, k \in Nat : m * k \in Nat
  OBVIOUS
<1>3. n * (b - a) \in Nat
  BY <1>1, <1>2
<1>4. n * (b - a) = n * b - n * a /\ n * a \in Int /\ n * b \in Int
  OBVIOUS
<1> QED BY <1>3, <1>4

\* What the quotient is.
LEMMA QuotientIs ==
  ASSUME NEW a \in Int, NEW n \in Nat \ {0}
  PROVE  /\ a \div n \in Int
         /\ n * (a \div n) <= a /\ a < n * (a \div n) + n
OBVIOUS

\* And what is the quotient.
LEMMA QuotientOf ==
  ASSUME NEW a \in Int, NEW n \in Nat \ {0}, NEW q \in Int,
         n * q <= a, a < n * q + n
  PROVE  a \div n = q
<1> DEFINE r == a \div n
<1>1. r \in Int /\ n * r <= a /\ a < n * r + n
  BY QuotientIs
<1> HIDE DEF r
<1>2. /\ n * q \in Int /\ n * r \in Int
      /\ n * (q + 1) = n * q + n /\ n * (r + 1) = n * r + n
  BY <1>1
<1>3. CASE q < r
  <2>1. n * (q + 1) <= n * r
    BY <1>1, <1>3, TimesGrows
  <2> QED BY <1>1, <1>2, <2>1
<1>4. CASE r < q
  <2>1. n * (r + 1) <= n * q
    BY <1>1, <1>4, TimesGrows
  <2> QED BY <1>1, <1>2, <2>1
<1> QED BY <1>1, <1>3, <1>4 DEF r

\* It grows with what is divided.
LEMMA QuotientGrows ==
  ASSUME NEW a \in Int, NEW b \in Int, NEW n \in Nat \ {0}, a <= b
  PROVE  a \div n <= b \div n
<1> DEFINE q == a \div n
           r == b \div n
<1>1. /\ q \in Int /\ n * q <= a /\ a < n * q + n
      /\ r \in Int /\ n * r <= b /\ b < n * r + n
  BY QuotientIs
<1> HIDE DEF q, r
<1>2. CASE r < q
  <2>1. n * (r + 1) <= n * q
    BY <1>1, <1>2, TimesGrows
  <2>2. n * (r + 1) = n * r + n /\ n * r \in Int /\ n * q \in Int
    BY <1>1
  <2> QED BY <1>1, <2>1, <2>2
<1> QED BY <1>1, <1>2 DEF q, r

-----------------------------------------------------------------------------
(* Pieces of lists, and lists put together. *)

\* A text grows by the bytes of its tail, one at a time.
LEMMA PrefixGrows ==
  ASSUME NEW S, NEW t \in Seq(S), NEW j \in 1..Len(t)
  PROVE  /\ SubSeq(t, 1, j) = Append(SubSeq(t, 1, j - 1), t[j])
         /\ SubSeq(t, 1, j - 1) \in Seq(S) /\ Len(SubSeq(t, 1, j - 1)) = j - 1
         /\ t[j] \in S
<1> DEFINE a == SubSeq(t, 1, j)
           b == SubSeq(t, 1, j - 1)
<1>1. Len(t) \in Nat /\ \A i \in 1..Len(t) : t[i] \in S
  BY ElementOfSeq, LenProperties
<1>2. a \in Seq(S) /\ Len(a) = j /\ \A i \in 1..j : a[i] = t[i]
  <2>1. \A i \in 1..j : t[i] \in S
    BY <1>1
  <2>2. /\ a \in Seq(S)
        /\ Len(a) = IF 1 <= j THEN j - 1 + 1 ELSE 0
        /\ \A i \in 1..(j - 1 + 1) : a[i] = t[1 + i - 1]
    BY <1>1, <2>1, SubSeqProperties
  <2> HIDE DEF a
  <2> QED BY <2>2
<1>3. b \in Seq(S) /\ Len(b) = j - 1 /\ \A i \in 1..(j - 1) : b[i] = t[i]
  <2>1. \A i \in 1..(j - 1) : t[i] \in S
    BY <1>1
  <2>2. /\ b \in Seq(S)
        /\ Len(b) = IF 1 <= j - 1 THEN (j - 1) - 1 + 1 ELSE 0
        /\ \A i \in 1..((j - 1) - 1 + 1) : b[i] = t[1 + i - 1]
    BY <1>1, <2>1, SubSeqProperties
  <2> HIDE DEF b
  <2>3. (j - 1) - 1 + 1 = j - 1 /\ Len(b) = j - 1
    BY <1>1, <2>2
  <2>4. ASSUME NEW i \in 1..(j - 1) PROVE b[i] = t[i]
    <3>1. b[i] = t[1 + i - 1] /\ 1 + i - 1 = i
      BY <1>1, <2>2, <2>3
    <3> QED BY <3>1
  <2> QED BY <2>2, <2>3, <2>4
<1>4. t[j] \in S
  BY <1>1
<1> HIDE DEF a, b
<1>5. /\ Append(b, t[j]) \in Seq(S) /\ Len(Append(b, t[j])) = j
      /\ \A i \in 1..j : Append(b, t[j])[i] = a[i]
  BY <1>2, <1>3, <1>4
<1>6. a = Append(b, t[j])
  BY <1>2, <1>5, SeqEqual
<1> QED BY <1>3, <1>4, <1>6 DEF a, b

\* A piece of a text.
LEMMA PieceOf ==
  ASSUME NEW S, NEW f \in Seq(S), NEW p \in 0..Len(f), NEW e \in p..Len(f)
  PROVE  /\ SubSeq(f, p + 1, e) \in Seq(S) /\ Len(SubSeq(f, p + 1, e)) = e - p
         /\ \A i \in 1..(e - p) : SubSeq(f, p + 1, e)[i] = f[p + i]
<1>1. Len(f) \in Nat /\ \A i \in 1..Len(f) : f[i] \in S
  BY ElementOfSeq, LenProperties
<1>2. \A i \in (p + 1)..e : f[i] \in S
  BY <1>1
<1> DEFINE c == SubSeq(f, p + 1, e)
<1>3. /\ c \in Seq(S)
      /\ Len(c) = IF p + 1 <= e THEN e - (p + 1) + 1 ELSE 0
      /\ \A i \in 1..(e - (p + 1) + 1) : c[i] = f[(p + 1) + i - 1]
  <2>1. p + 1 \in Int /\ e \in Int
    BY <1>1
  <2> QED BY <1>2, <2>1, SubSeqProperties
<1> HIDE DEF c
<1>4. Len(c) = e - p
  BY <1>1, <1>3
<1>5. ASSUME NEW i \in 1..(e - p) PROVE c[i] = f[p + i]
  <2>1. i \in 1..(e - (p + 1) + 1) /\ (p + 1) + i - 1 = p + i
    BY <1>1
  <2> QED BY <1>3, <2>1
<1> QED BY <1>3, <1>4, <1>5 DEF c

\* The start of a piece of a text.
LEMMA PieceOfPiece ==
  ASSUME NEW S, NEW f \in Seq(S), NEW p \in 0..Len(f), NEW e \in p..Len(f),
         NEW c, c = SubSeq(f, p + 1, e), NEW m \in 0..(e - p)
  PROVE  SubSeq(c, 1, m) = SubSeq(f, p + 1, p + m)
<1>0. Len(f) \in Nat /\ p \in Nat /\ e \in Nat /\ m \in Nat
  OBVIOUS
<1>1. c \in Seq(S) /\ Len(c) = e - p /\ \A i \in 1..(e - p) : c[i] = f[p + i]
  BY PieceOf
<1> DEFINE a == SubSeq(c, 0 + 1, m)
           b == SubSeq(f, p + 1, p + m)
<1>2. a \in Seq(S) /\ Len(a) = m - 0 /\ \A i \in 1..(m - 0) : a[i] = c[0 + i]
  <2>1. 0 \in 0..Len(c) /\ m \in 0..Len(c)
    BY <1>0, <1>1
  <2> QED BY <1>1, <2>1, PieceOf
<1>3. b \in Seq(S) /\ Len(b) = (p + m) - p /\ \A i \in 1..((p + m) - p) : b[i] = f[p + i]
  <2> DEFINE n == p + m
  <2>1. n \in p..Len(f)
    BY <1>0
  <2> HIDE DEF n
  <2>2. /\ SubSeq(f, p + 1, n) \in Seq(S) /\ Len(SubSeq(f, p + 1, n)) = n - p
        /\ \A i \in 1..(n - p) : SubSeq(f, p + 1, n)[i] = f[p + i]
    BY <2>1, PieceOf
  <2> QED BY <2>2 DEF n
<1>4. (p + m) - p = m /\ m - 0 = m /\ 0 + 1 = 1
  BY <1>0
<1> HIDE DEF a, b
<1>5. ASSUME NEW i \in 1..m PROVE a[i] = b[i]
  <2>1. i \in 1..(e - p) /\ 0 + i = i
    BY <1>0
  <2> QED BY <1>1, <1>2, <1>3, <1>4, <2>1
<1>6. a = b
  BY <1>2, <1>3, <1>4, <1>5, SeqEqual
<1> QED BY <1>4, <1>6 DEF a, b

\* Two lists put together.
IsJoint(S, a, b, c) ==
  /\ c \in Seq(S) /\ Len(c) = Len(a) + Len(b)
  /\ \A i \in 1..(Len(a) + Len(b)) : c[i] = IF i <= Len(a) THEN a[i] ELSE b[i - Len(a)]

\* Concatenation puts them together.
LEMMA JoinedIs ==
  ASSUME NEW S, NEW a \in Seq(S), NEW b \in Seq(S)
  PROVE  IsJoint(S, a, b, a \o b)
BY ConcatProperties DEF IsJoint

\* An element of three lists put together.
LEMMA PieceAt ==
  ASSUME NEW S, NEW a \in Seq(S), NEW b \in Seq(S), NEW c \in Seq(S)
  PROVE  /\ a \o b \o c \in Seq(S) /\ Len(a \o b \o c) = Len(a) + Len(b) + Len(c)
         /\ \A i \in 1..Len(a) : (a \o b \o c)[i] = a[i]
         /\ \A i \in 1..Len(b) : (a \o b \o c)[Len(a) + i] = b[i]
         /\ \A i \in 1..Len(c) : (a \o b \o c)[Len(a) + Len(b) + i] = c[i]
<1> DEFINE e == a \o b
<1>1. /\ e \in Seq(S) /\ Len(e) = Len(a) + Len(b)
      /\ \A i \in 1..(Len(a) + Len(b)) : e[i] = IF i <= Len(a) THEN a[i] ELSE b[i - Len(a)]
  BY ConcatProperties
<1>2. Len(a) \in Nat /\ Len(b) \in Nat /\ Len(c) \in Nat
  OBVIOUS
<1> HIDE DEF e
<1>3. /\ e \o c \in Seq(S) /\ Len(e \o c) = Len(e) + Len(c)
      /\ \A i \in 1..(Len(e) + Len(c)) : (e \o c)[i] = IF i <= Len(e) THEN e[i] ELSE c[i - Len(e)]
  <2>1. e \in Seq(S) /\ c \in Seq(S)
    BY <1>1
  <2> QED BY <2>1, ConcatProperties
<1>4. ASSUME NEW i \in 1..Len(a) PROVE (e \o c)[i] = a[i]
  BY <1>1, <1>2, <1>3
<1>5. ASSUME NEW i \in 1..Len(b) PROVE (e \o c)[Len(a) + i] = b[i]
  <2>1. (e \o c)[Len(a) + i] = e[Len(a) + i]
    <3>1. Len(a) + i \in 1..(Len(e) + Len(c)) /\ Len(a) + i <= Len(e)
      BY <1>1, <1>2
    <3> QED BY <1>3, <3>1
  <2>2. e[Len(a) + i] = b[(Len(a) + i) - Len(a)] /\ (Len(a) + i) - Len(a) = i
    <3>1. /\ Len(a) + i \in 1..(Len(a) + Len(b)) /\ ~ (Len(a) + i <= Len(a))
          /\ (Len(a) + i) - Len(a) = i
      BY <1>2
    <3> QED BY <1>1, <3>1
  <2> QED BY <2>1, <2>2
<1>6. ASSUME NEW i \in 1..Len(c) PROVE (e \o c)[Len(a) + Len(b) + i] = c[i]
  <2>1. (e \o c)[Len(e) + i] = c[(Len(e) + i) - Len(e)] /\ (Len(e) + i) - Len(e) = i
    BY <1>1, <1>2, <1>3
  <2> QED BY <1>1, <2>1
<1> QED BY <1>1, <1>2, <1>3, <1>4, <1>5, <1>6 DEF e

IsInserted(S, s, k, x, t) ==
  /\ t \in Seq(S) /\ Len(t) = Len(s) + 1
  /\ \A i \in 1..(Len(s) + 1) : t[i] = IF i < k THEN s[i] ELSE IF i = k THEN x ELSE s[i - 1]

\* An element inserted.
LEMMA InsertIs ==
  ASSUME NEW S, NEW s \in Seq(S), NEW k \in 1..(Len(s) + 1), NEW x \in S
  PROVE  IsInserted(S, s, k, x, InsertAt(s, k, x))
BY InsertAtResult DEF IsInserted

ThreeJoined(S, a, b, c, u) ==
  /\ u \in Seq(S) /\ Len(u) = Len(a) + Len(b) + Len(c)
  /\ \A i \in 1..Len(a) : u[i] = a[i]
  /\ \A i \in 1..Len(b) : u[Len(a) + i] = b[i]
  /\ \A i \in 1..Len(c) : u[Len(a) + Len(b) + i] = c[i]

\* Three lists put together.
LEMMA ThreeAre ==
  ASSUME NEW S, NEW a \in Seq(S), NEW b \in Seq(S), NEW c \in Seq(S)
  PROVE  ThreeJoined(S, a, b, c, a \o b \o c)
<1> DEFINE u == a \o b \o c
<1>1. /\ u \in Seq(S) /\ Len(u) = Len(a) + Len(b) + Len(c)
      /\ \A i \in 1..Len(a) : u[i] = a[i]
      /\ \A i \in 1..Len(b) : u[Len(a) + i] = b[i]
      /\ \A i \in 1..Len(c) : u[Len(a) + Len(b) + i] = c[i]
  BY PieceAt
<1> HIDE DEF u
<1>2. ThreeJoined(S, a, b, c, u)
  BY <1>1 DEF ThreeJoined
<1> QED BY <1>2 DEF u

\* Lists put together, by name.
Joint(a, b) == a \o b
Spliced(a, e, b) == a \o <<e>> \o b

\* An element between two lists is inserted.
LEMMA SplicedIs ==
  ASSUME NEW S, NEW a \in Seq(S), NEW b \in Seq(S), NEW e \in S
  PROVE  Spliced(a, e, b) = InsertAt(Joint(a, b), Len(a) + 1, e)
<1> DEFINE k == Len(a) + 1
           s == a \o b
           t == InsertAt(s, k, e)
           u == a \o <<e>> \o b
<1>1. IsJoint(S, a, b, s)
  BY JoinedIs
<1> HIDE DEF s
<1>2. Len(a) \in Nat /\ Len(b) \in Nat /\ <<e>> \in Seq(S) /\ Len(<<e>>) = 1 /\ <<e>>[1] = e
  OBVIOUS
<1>3. s \in Seq(S) /\ Len(s) = Len(a) + Len(b) /\ k \in 1..(Len(s) + 1)
  BY <1>1, <1>2 DEF IsJoint
<1>4. /\ t \in Seq(S) /\ Len(t) = Len(s) + 1
      /\ \A i \in 1..(Len(s) + 1) : t[i] = IF i < k THEN s[i] ELSE IF i = k THEN e ELSE s[i - 1]
  <2>1. IsInserted(S, s, k, e, t)
    <3> HIDE DEF k
    <3> QED BY <1>3, InsertIs
  <2> QED BY <2>1 DEF IsInserted
<1>5. /\ u \in Seq(S) /\ Len(u) = Len(a) + 1 + Len(b)
      /\ \A i \in 1..Len(a) : u[i] = a[i]
      /\ \A i \in 1..Len(<<e>>) : u[Len(a) + i] = <<e>>[i]
      /\ \A i \in 1..Len(b) : u[Len(a) + Len(<<e>>) + i] = b[i]
  <2> DEFINE m == <<e>>
  <2>1. m \in Seq(S) /\ Len(m) = 1
    BY <1>2
  <2>2. ThreeJoined(S, a, m, b, a \o m \o b)
    <3> HIDE DEF m
    <3> QED BY <2>1, ThreeAre
  <2> HIDE DEF u
  <2>3. ThreeJoined(S, a, m, b, u)
    BY <2>2 DEF u
  <2> QED BY <2>1, <2>3 DEF ThreeJoined
<1> HIDE DEF t, u
<1>6. u[k] = e
  BY <1>2, <1>5
<1>7. \A i \in 1..Len(b) : u[k + i] = b[i]
  BY <1>2, <1>5
<1>8. ASSUME NEW i \in 1..Len(t) PROVE t[i] = u[i]
  <2>1. CASE i < k
    <3>1. i \in 1..Len(a) /\ i \in 1..(Len(a) + Len(b))
      BY <1>2, <1>3, <1>4, <2>1
    <3>2. u[i] = a[i] /\ s[i] = a[i]
      BY <1>1, <1>2, <1>5, <3>1 DEF IsJoint
    <3> QED BY <1>3, <1>4, <2>1, <3>2
  <2>2. CASE i = k
    BY <1>3, <1>4, <1>6, <2>2
  <2>3. CASE i > k
    <3> DEFINE j == i - k
    <3>1. j \in 1..Len(b) /\ i = k + j /\ i - 1 \in 1..(Len(a) + Len(b)) /\ i - 1 - Len(a) = j
      BY <1>2, <1>3, <1>4, <2>3
    <3>2. s[i - 1] = b[j]
      BY <1>1, <1>2, <2>3, <3>1 DEF IsJoint
    <3>3. u[i] = b[j]
      <4> HIDE DEF j, k
      <4> QED BY <1>7, <3>1
    <3>4. t[i] = s[i - 1]
      BY <1>2, <1>3, <1>4, <2>3
    <3> QED BY <3>2, <3>3, <3>4
  <2> QED BY <1>2, <1>4, <2>1, <2>2, <2>3
<1>9. Len(t) = Len(u)
  BY <1>2, <1>3, <1>4, <1>5
<1> HIDE DEF k
<1>10. t = u
  BY <1>4, <1>5, <1>8, <1>9, SeqEqual
<1> QED BY <1>10 DEF t, u, k, s, Spliced, Joint

\* Leaving out the middle of three lists, one element, removes it.
LEMMA TakenOut ==
  ASSUME NEW S, NEW a \in Seq(S), NEW c \in Seq(S), NEW d \in Seq(S), Len(c) = 1
  PROVE  Joint(a, d) = RemoveAt(Joint(a, Joint(c, d)), Len(a) + 1)
<1> DEFINE b == c \o d
           s == a \o b
           k == Len(a) + 1
           t == RemoveAt(s, k)
           u == a \o d
<1>1. IsJoint(S, c, d, b)
  BY JoinedIs
<1>2. b \in Seq(S) /\ Len(b) = 1 + Len(d)
  BY <1>1 DEF IsJoint
<1>3. IsJoint(S, a, b, s)
  <2> HIDE DEF b
  <2> QED BY <1>2, JoinedIs
<1>4. IsJoint(S, a, d, u)
  BY JoinedIs
<1>5. Len(a) \in Nat /\ Len(d) \in Nat
  OBVIOUS
<1> HIDE DEF b, u, s
<1>6. s \in Seq(S) /\ Len(s) = Len(a) + 1 + Len(d) /\ k \in 1..Len(s)
  BY <1>2, <1>3, <1>5 DEF IsJoint
<1>7. /\ t \in Seq(S) /\ Len(t) = Len(s) - 1
      /\ \A j \in 1..(Len(s) - 1) : t[j] = IF j < k THEN s[j] ELSE s[j + 1]
  <2> HIDE DEF k
  <2> QED BY <1>6, RemoveAtResult
<1> HIDE DEF t
<1>8. u \in Seq(S) /\ Len(u) = Len(t)
  BY <1>4, <1>5, <1>6, <1>7 DEF IsJoint
<1>9. ASSUME NEW i \in 1..Len(t) PROVE t[i] = u[i]
  <2>1. CASE i < k
    <3>1. i \in 1..(Len(a) + Len(b)) /\ i \in 1..(Len(a) + Len(d)) /\ i <= Len(a)
      BY <1>2, <1>5, <1>6, <1>7, <2>1
    <3>2. u[i] = a[i] /\ s[i] = a[i]
      BY <1>3, <1>4, <3>1 DEF IsJoint
    <3> QED BY <1>6, <1>7, <2>1, <3>2
  <2>2. CASE ~ (i < k)
    <3> DEFINE j == i - Len(a)
    <3>1. /\ j \in 1..Len(d) /\ i \in 1..(Len(a) + Len(d)) /\ ~ (i <= Len(a))
          /\ i + 1 \in 1..(Len(a) + Len(b)) /\ ~ (i + 1 <= Len(a)) /\ i + 1 - Len(a) = j + 1
          /\ j + 1 \in 1..(Len(c) + Len(d)) /\ ~ (j + 1 <= Len(c)) /\ j + 1 - Len(c) = j
      BY <1>2, <1>5, <1>6, <1>7, <2>2
    <3>2. u[i] = d[j]
      BY <1>4, <3>1 DEF IsJoint
    <3>3. s[i + 1] = b[j + 1]
      BY <1>3, <3>1 DEF IsJoint
    <3>4. b[j + 1] = d[j]
      <4> HIDE DEF j
      <4> QED BY <1>1, <3>1 DEF IsJoint
    <3>5. t[i] = s[i + 1]
      BY <1>6, <1>7, <2>2
    <3> QED BY <3>2, <3>3, <3>4, <3>5
  <2> QED BY <2>1, <2>2
<1> HIDE DEF k
<1>10. t = u
  BY <1>7, <1>8, <1>9, SeqEqual
<1> QED BY <1>10 DEF t, u, k, s, b, Joint

\* A list with one element replaced.
LEMMA ReplaceResult ==
  ASSUME NEW S, NEW s \in Seq(S), NEW k \in 1..Len(s), NEW e \in S
  PROVE  /\ ReplaceAt(s, k, e) \in Seq(S) /\ Len(ReplaceAt(s, k, e)) = Len(s)
         /\ \A i \in 1..Len(s) : ReplaceAt(s, k, e)[i] = IF i = k THEN e ELSE s[i]
BY DEF ReplaceAt

\* What is taken out and put in again is replaced.
LEMMA InsertRemoved ==
  ASSUME NEW S, NEW s \in Seq(S), NEW k \in 1..Len(s), NEW e \in S
  PROVE  InsertAt(RemoveAt(s, k), k, e) = ReplaceAt(s, k, e)
<1>0. /\ ReplaceAt(s, k, e) \in Seq(S) /\ Len(ReplaceAt(s, k, e)) = Len(s)
      /\ \A i \in 1..Len(s) : ReplaceAt(s, k, e)[i] = IF i = k THEN e ELSE s[i]
  BY ReplaceResult
<1> DEFINE r == RemoveAt(s, k)
           t == InsertAt(r, k, e)
           u == ReplaceAt(s, k, e)
<1>1. /\ r \in Seq(S) /\ Len(r) = Len(s) - 1 /\ Len(s) \in Nat
      /\ \A j \in 1..(Len(s) - 1) : r[j] = IF j < k THEN s[j] ELSE s[j + 1]
  BY RemoveAtResult
<1> HIDE DEF r
<1>2. k \in 1..(Len(r) + 1)
  BY <1>1
<1>3. /\ t \in Seq(S) /\ Len(t) = Len(r) + 1
      /\ \A i \in 1..(Len(r) + 1) : t[i] = IF i < k THEN r[i] ELSE IF i = k THEN e ELSE r[i - 1]
  BY <1>1, <1>2, InsertAtResult
<1>4. /\ u \in Seq(S) /\ Len(u) = Len(s)
      /\ \A i \in 1..Len(s) : u[i] = IF i = k THEN e ELSE s[i]
  BY <1>0
<1> HIDE DEF t, u
<1>5. ASSUME NEW i \in 1..Len(t) PROVE t[i] = u[i]
  <2>1. i \in 1..Len(s) /\ Len(t) = Len(s)
    BY <1>1, <1>3
  <2>2. CASE i < k
    BY <1>1, <1>3, <1>4, <2>1, <2>2
  <2>3. CASE i = k
    BY <1>1, <1>3, <1>4, <2>1, <2>3
  <2>4. CASE i > k
    <3> DEFINE j == i - 1
    <3>1. j \in 1..(Len(s) - 1) /\ ~ (j < k) /\ j + 1 = i
      BY <2>1, <2>4
    <3>2. r[j] = s[j + 1]
      <4> HIDE DEF j
      <4> QED BY <1>1, <3>1
    <3> QED BY <1>1, <1>3, <1>4, <2>1, <2>4, <3>1, <3>2
  <2> QED BY <1>1, <2>1, <2>2, <2>3, <2>4
<1>6. Len(t) = Len(u)
  BY <1>1, <1>3, <1>4
<1>7. t = u
  BY <1>3, <1>4, <1>5, <1>6, SeqEqual
<1> QED BY <1>7 DEF t, u, r
=============================================================================
