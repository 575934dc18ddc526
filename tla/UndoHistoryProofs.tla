-------------------------- MODULE UndoHistoryProofs --------------------------
(***************************************************************************)
(* Proofs about the undo log.  First the lemmas every proof about undo      *)
(* rests on: what the operations of the line store return; that an          *)
(* insertion and a deletion, or two sets, at one address cancel out; what   *)
(* RevertRun and ReplayRun compute from a run of undo records; how a chain  *)
(* of records grows by an edit, and that taking it back leads from its last *)
(* buffer to its first.  Then the types of the log, and that until a caller *)
(* has addressed a line which is not there or undone in the middle of a     *)
(* change set, undo and redo restore the buffers of the history and the log *)
(* implements LinearHistory.                                                *)
(***************************************************************************)
EXTENDS UndoHistory, Lists

-----------------------------------------------------------------------------
(* The line store. *)

\* Inserting inside the buffer or right behind it: the lines before lno stay,
\* the line is at lno, the lines from lno on move down by one.
LEMMA InsertLineResult ==
  ASSUME NEW s \in Buffer, NEW lno \in Int, NEW x \in Line
  PROVE  LET t == InsertLine(s, lno, x)
             k == Clamp(s, lno)
         IN  /\ k \in 1..(Len(s) + 1)
             /\ t \in Buffer
             /\ Len(t) = Len(s) + 1
             /\ \A i \in 1..Len(t) :
                  t[i] = IF i < k THEN s[i] ELSE IF i = k THEN x ELSE s[i - 1]
<1> DEFINE k == Clamp(s, lno)
<1>1. k \in 1..(Len(s) + 1)
  BY DEF Clamp, Buffer
<1>2. InsertLine(s, lno, x) = InsertAt(s, k, x) /\ s \in Seq(Line)
  BY DEF InsertLine, Buffer
<1> DEFINE t == InsertAt(s, k, x)
<1> HIDE DEF k
<1>3. /\ t \in Seq(Line) /\ Len(t) = Len(s) + 1
      /\ \A i \in 1..(Len(s) + 1) : t[i] = IF i < k THEN s[i] ELSE IF i = k THEN x ELSE s[i - 1]
  <2>1. s \in Seq(Line)
    BY <1>2
  <2> QED BY <1>1, <2>1, InsertAtResult
<1> HIDE DEF t
<1>4. InsertLine(s, lno, x) = t /\ t \in Buffer
  BY <1>2, <1>3 DEF Buffer, t
<1> QED BY <1>1, <1>3, <1>4 DEF k

\* Deleting a line of the buffer: the lines behind it move up by one.
LEMMA DeleteLineResult ==
  ASSUME NEW s \in Buffer, NEW lno \in 1..Len(s)
  PROVE  LET t == DeleteLine(s, lno)
         IN  /\ t \in Buffer
             /\ Len(t) = Len(s) - 1
             /\ \A i \in 1..Len(t) : t[i] = IF i < lno THEN s[i] ELSE s[i + 1]
BY RemoveAtResult DEF DeleteLine, InRange, Buffer

\* The operations keep a buffer a buffer, whatever the address.
LEMMA StoreClosed ==
  ASSUME NEW s \in Buffer, NEW lno \in Int, NEW x \in Line
  PROVE  /\ SetLine(s, lno, x) \in Buffer
         /\ InsertLine(s, lno, x) \in Buffer
         /\ DeleteLine(s, lno) \in Buffer
         /\ Get(s, lno) \in Line
<1>1. SetLine(s, lno, x) \in Buffer
  BY DEF SetLine, InRange, ReplaceAt, Buffer
<1>2. DeleteLine(s, lno) \in Buffer
  <2>1. CASE lno \in 1..Len(s)
    BY <2>1, DeleteLineResult
  <2>2. CASE lno \notin 1..Len(s)
    BY <2>2 DEF DeleteLine, InRange
  <2> QED BY <2>1, <2>2
<1>3. Get(s, lno) \in Line
  BY LineAssumption DEF Get, InRange, Buffer
<1> QED BY <1>1, <1>2, <1>3, InsertLineResult

\* Two buffers of the same length with the same lines are the same.
LEMMA SameBuffer ==
  ASSUME NEW s \in Buffer, NEW t \in Buffer, Len(s) = Len(t),
         \A i \in 1..Len(s) : s[i] = t[i]
  PROVE  s = t
BY DEF Buffer

\* A deletion takes back an insertion made at an address the store did not
\* have to move.
LEMMA DeleteUndoesInsert ==
  ASSUME NEW s \in Buffer, NEW lno \in 1..(Len(s) + 1), NEW x \in Line
  PROVE  DeleteLine(InsertLine(s, lno, x), lno) = s
<1> DEFINE t == InsertLine(s, lno, x)
           u == DeleteLine(t, lno)
<1>1. Clamp(s, lno) = lno
  BY DEF Clamp, Buffer
<1>2. /\ t \in Buffer /\ Len(t) = Len(s) + 1
      /\ \A i \in 1..Len(t) :
           t[i] = IF i < lno THEN s[i] ELSE IF i = lno THEN x ELSE s[i - 1]
  BY <1>1, InsertLineResult
<1> HIDE DEF t
<1>3. lno \in 1..Len(t)
  BY <1>2 DEF Buffer
<1>4. /\ u \in Buffer /\ Len(u) = Len(t) - 1
      /\ \A i \in 1..Len(u) : u[i] = IF i < lno THEN t[i] ELSE t[i + 1]
  BY <1>2, <1>3, DeleteLineResult
<1> HIDE DEF u
<1>5. Len(u) = Len(s) /\ \A i \in 1..Len(u) : u[i] = s[i]
  <2>1. Len(u) = Len(s) /\ Len(s) \in Nat
    BY <1>2, <1>4 DEF Buffer
  <2>2. ASSUME NEW i \in 1..Len(u) PROVE u[i] = s[i]
    <3>1. i \in 1..Len(t) /\ i + 1 \in 1..Len(t)
      BY <1>2, <2>1
    <3> QED BY <1>2, <1>4, <3>1
  <2> QED BY <2>1, <2>2
<1> QED BY <1>4, <1>5, SameBuffer DEF u, t

\* An insertion takes back the deletion of a line of the buffer.
LEMMA InsertUndoesDelete ==
  ASSUME NEW s \in Buffer, NEW lno \in 1..Len(s)
  PROVE  InsertLine(DeleteLine(s, lno), lno, s[lno]) = s
<1> DEFINE t == DeleteLine(s, lno)
           u == InsertLine(t, lno, s[lno])
<1>1. /\ t \in Buffer /\ Len(t) = Len(s) - 1
      /\ \A i \in 1..Len(t) : t[i] = IF i < lno THEN s[i] ELSE s[i + 1]
  BY DeleteLineResult
<1> HIDE DEF t
<1>2. Clamp(t, lno) = lno
  BY <1>1 DEF Clamp, Buffer
<1>3. s[lno] \in Line
  BY DEF Buffer
<1>4. /\ u \in Buffer /\ Len(u) = Len(t) + 1
      /\ \A i \in 1..Len(u) :
           u[i] = IF i < lno THEN t[i] ELSE IF i = lno THEN s[lno] ELSE t[i - 1]
  BY <1>1, <1>2, <1>3, InsertLineResult
<1> HIDE DEF u
<1>5. Len(u) = Len(s) /\ \A i \in 1..Len(u) : u[i] = s[i]
  <2>1. Len(u) = Len(s) /\ Len(s) \in Nat
    BY <1>1, <1>4 DEF Buffer
  <2>2. ASSUME NEW i \in 1..Len(u) PROVE u[i] = s[i]
    <3>1. CASE i < lno
      BY <1>1, <1>4, <2>1, <3>1
    <3>2. CASE i = lno
      BY <1>4, <3>2
    <3>3. CASE i > lno
      <4>1. i - 1 \in 1..Len(t) /\ ~ (i - 1 < lno)
        BY <1>1, <2>1, <3>3
      <4>2. u[i] = t[i - 1]
        BY <1>4, <3>3
      <4>3. t[i - 1] = s[i]
        BY <1>1, <4>1
      <4> QED BY <4>2, <4>3
    <3> QED BY <3>1, <3>2, <3>3
  <2> QED BY <2>1, <2>2
<1> QED BY <1>4, <1>5, SameBuffer DEF u, t

\* Setting a line back to what it was takes back a set.
LEMMA SetUndoesSet ==
  ASSUME NEW s \in Buffer, NEW lno \in Int, NEW x \in Line
  PROVE  SetLine(SetLine(s, lno, x), lno, Get(s, lno)) = s
<1>1. CASE lno \in 1..Len(s)
  <2> DEFINE t == [s EXCEPT ![lno] = x]
             u == [t EXCEPT ![lno] = s[lno]]
  <2>1. t \in Buffer /\ Len(t) = Len(s)
    BY <1>1 DEF Buffer
  <2>2. u \in Buffer /\ Len(u) = Len(s)
    BY <1>1, <2>1 DEF Buffer
  <2>3. \A i \in 1..Len(u) : u[i] = s[i]
    BY <1>1, <2>1, <2>2 DEF Buffer
  <2>4. u = s
    <3> HIDE DEF u
    <3> QED BY <2>2, <2>3, SameBuffer
  <2>5. SetLine(s, lno, x) = t
    BY <1>1 DEF SetLine, InRange, ReplaceAt
  <2>6. SetLine(t, lno, s[lno]) = u
    <3> HIDE DEF t
    <3> QED BY <1>1, <2>1 DEF SetLine, InRange, ReplaceAt
  <2>7. Get(s, lno) = s[lno]
    BY <1>1 DEF Get, InRange
  <2> QED BY <2>4, <2>5, <2>6, <2>7
<1>2. CASE lno \notin 1..Len(s)
  BY <1>2 DEF SetLine, InRange
<1> QED BY <1>1, <1>2

-----------------------------------------------------------------------------
(* Runs and chains of undo records. *)

\* Taking back or replaying one record gives a buffer.
LEMMA RecordClosed ==
  ASSUME NEW s \in Buffer, NEW r \in Rec
  PROVE  Reverted(s, r) \in Buffer /\ Replayed(s, r) \in Buffer
<1>1. /\ r.kind \in {"set", "insert", "delete"}
      /\ r.lno \in Int /\ r.before \in Line /\ r.after \in Line
  BY DEF Rec
<1>2. CASE r.kind = "set"
  BY <1>1, <1>2, StoreClosed DEF Reverted, Replayed
<1>3. CASE r.kind = "insert"
  BY <1>1, <1>3, StoreClosed DEF Reverted, Replayed
<1>4. CASE r.kind = "delete"
  BY <1>1, <1>4, StoreClosed DEF Reverted, Replayed
<1> QED BY <1>1, <1>2, <1>3, <1>4

\* ReplayRun is the only sequence of buffers that applies the records in order.
LEMMA ReplayRunIs ==
  ASSUME NEW s \in Buffer, NEW recs \in ChangeSet,
         NEW t \in [0..Len(recs) -> Buffer], t[0] = s,
         \A i \in 1..Len(recs) : t[i] = Replayed(t[i - 1], recs[i])
  PROVE  ReplayRun(s, recs) = t
<1> DEFINE Steps(u) == u = [i \in 0..Len(recs) |-> IF i = 0 THEN s
                              ELSE Replayed(u[i - 1], recs[i])]
           u == ReplayRun(s, recs)
           T == {m \in 0..Len(recs) : u[m] = t[m]}
<1>1. Len(recs) \in Nat
  BY DEF ChangeSet
<1>2. Steps(t)
  <2>1. \A i \in 0..Len(recs) : i # 0 => i \in 1..Len(recs)
    BY <1>1
  <2> QED BY <2>1
<1>3. u = CHOOSE v : Steps(v)
  BY Zenon DEF ReplayRun
<1> HIDE DEF u
<1>4. Steps(u)
  <2> HIDE DEF Steps
  <2> QED BY <1>2, <1>3
<1>5. \A i \in 0..Len(recs) : u[i] = IF i = 0 THEN s ELSE Replayed(u[i - 1], recs[i])
  BY <1>4
<1>6. InductiveUpTo(Len(recs), T)
  BY <1>1, <1>5 DEF InductiveUpTo
<1>7. 0..Len(recs) \subseteq T
  <2> HIDE DEF T
  <2> QED BY <1>1, <1>6, IntervalInduction
<1>8. u = t
  BY <1>2, <1>4, <1>7
<1> QED BY <1>8 DEF u

\* RevertRun is the only sequence that takes the records back, newest first.
LEMMA RevertRunIs ==
  ASSUME NEW s \in Buffer, NEW recs \in ChangeSet,
         NEW t \in [0..Len(recs) -> Buffer], t[0] = s,
         \A i \in 1..Len(recs) : t[i] = Reverted(t[i - 1], recs[Len(recs) - i + 1])
  PROVE  RevertRun(s, recs) = t
<1> DEFINE Steps(u) == u = [i \in 0..Len(recs) |-> IF i = 0 THEN s
                              ELSE Reverted(u[i - 1], recs[Len(recs) - i + 1])]
           u == RevertRun(s, recs)
           T == {m \in 0..Len(recs) : u[m] = t[m]}
<1>1. Len(recs) \in Nat
  BY DEF ChangeSet
<1>2. Steps(t)
  <2>1. \A i \in 0..Len(recs) : i # 0 => i \in 1..Len(recs)
    BY <1>1
  <2> QED BY <2>1
<1>3. u = CHOOSE v : Steps(v)
  BY Zenon DEF RevertRun
<1> HIDE DEF u
<1>4. Steps(u)
  <2> HIDE DEF Steps
  <2> QED BY <1>2, <1>3
<1>5. \A i \in 0..Len(recs) : u[i] = IF i = 0 THEN s ELSE Reverted(u[i - 1], recs[Len(recs) - i + 1])
  BY <1>4
<1>6. InductiveUpTo(Len(recs), T)
  BY <1>1, <1>5 DEF InductiveUpTo
<1>7. 0..Len(recs) \subseteq T
  <2> HIDE DEF T
  <2> QED BY <1>1, <1>6, IntervalInduction
<1>8. u = t
  BY <1>2, <1>4, <1>7
<1> QED BY <1>8 DEF u

\* There is such a sequence: what a redo goes through are buffers.
LEMMA ReplayRunResult ==
  ASSUME NEW s \in Buffer, NEW recs \in ChangeSet
  PROVE  LET t == ReplayRun(s, recs)
         IN  /\ t \in [0..Len(recs) -> Buffer]
             /\ t[0] = s
             /\ \A i \in 1..Len(recs) : t[i] = Replayed(t[i - 1], recs[i])
<1> DEFINE n == Len(recs)
           F == [i \in 1..n |-> [b \in Buffer |-> Replayed(b, recs[i])]]
<1>1. n \in Nat /\ \A i \in 1..n : recs[i] \in Rec
  BY DEF ChangeSet
<1>2. F \in Stepper(n, Buffer)
  BY <1>1, RecordClosed DEF Stepper
<1>3. \A b \in Buffer, i \in 1..n : F[i][b] = Replayed(b, recs[i])
  OBVIOUS
<1> HIDE DEF F, n
<1>4. PICK t \in [0..n -> Buffer] : IsCourse(t, n, s, F)
  BY <1>1, <1>2, CourseExists
<1>5. t[0] = s /\ \A i \in 1..n : t[i] = Replayed(t[i - 1], recs[i])
  <2>1. \A i \in 1..n : t[i - 1] \in Buffer
    BY <1>1, <1>4
  <2> QED BY <1>3, <1>4, <2>1 DEF IsCourse
<1>6. ReplayRun(s, recs) = t
  BY <1>4, <1>5, ReplayRunIs DEF n
<1> QED BY <1>4, <1>5, <1>6 DEF n

\* The same for the way back.
LEMMA RevertRunResult ==
  ASSUME NEW s \in Buffer, NEW recs \in ChangeSet
  PROVE  RevertRun(s, recs) \in [0..Len(recs) -> Buffer]
<1> DEFINE n == Len(recs)
           F == [i \in 1..n |-> [b \in Buffer |-> Reverted(b, recs[n - i + 1])]]
<1>1. n \in Nat /\ \A i \in 1..n : n - i + 1 \in 1..n /\ recs[n - i + 1] \in Rec
  BY DEF ChangeSet
<1>2. F \in Stepper(n, Buffer)
  BY <1>1, RecordClosed DEF Stepper
<1>3. \A b \in Buffer, i \in 1..n : F[i][b] = Reverted(b, recs[n - i + 1])
  OBVIOUS
<1> HIDE DEF F, n
<1>4. PICK t \in [0..n -> Buffer] : IsCourse(t, n, s, F)
  BY <1>1, <1>2, CourseExists
<1>5. t[0] = s /\ \A i \in 1..n : t[i] = Reverted(t[i - 1], recs[n - i + 1])
  <2>1. \A i \in 1..n : t[i - 1] \in Buffer
    BY <1>1, <1>4
  <2> QED BY <1>3, <1>4, <2>1 DEF IsCourse
<1>6. RevertRun(s, recs) = t
  BY <1>4, <1>5, RevertRunIs DEF n
<1> QED BY <1>4, <1>6 DEF n

\* Undo and redo leave a buffer behind, whatever the records say.
LEMMA RunsClosed ==
  ASSUME NEW s \in Buffer, NEW recs \in ChangeSet
  PROVE  RevertAll(s, recs) \in Buffer /\ ReplayAll(s, recs) \in Buffer
<1>1. Len(recs) \in 0..Len(recs)
  BY DEF ChangeSet
<1> QED BY <1>1, ReplayRunResult, RevertRunResult DEF RevertAll, ReplayAll

\* A chain goes through buffers, one record at a time.
LEMMA ChainCourse ==
  ASSUME NEW a \in Buffer, NEW recs \in ChangeSet, NEW b, Chain(a, recs, b)
  PROVE  \E t \in [0..Len(recs) -> Buffer] :
            /\ t[0] = a /\ t[Len(recs)] = b
            /\ \A i \in 1..Len(recs) : /\ t[i] = Replayed(t[i - 1], recs[i])
                                       /\ t[i - 1] = Reverted(t[i], recs[i])
BY ReplayRunResult DEF Chain

\* Any such course is a chain.
LEMMA CourseChain ==
  ASSUME NEW a \in Buffer, NEW recs \in ChangeSet,
         NEW t \in [0..Len(recs) -> Buffer], t[0] = a,
         \A i \in 1..Len(recs) : /\ t[i] = Replayed(t[i - 1], recs[i])
                                 /\ t[i - 1] = Reverted(t[i], recs[i])
  PROVE  Chain(a, recs, t[Len(recs)])
<1>1. ReplayRun(a, recs) = t
  BY ReplayRunIs
<1> QED BY <1>1 DEF Chain

\* No records lead nowhere.
LEMMA ChainEmpty ==
  ASSUME NEW a \in Buffer
  PROVE  Chain(a, <<>>, a)
<1> DEFINE t == [i \in 0..0 |-> a]
<1>1. <<>> \in ChangeSet /\ Len(<<>>) = 0
  BY DEF ChangeSet
<1>2. t \in [0..0 -> Buffer] /\ t[0] = a
  OBVIOUS
<1> HIDE DEF t
<1>3. Chain(a, <<>>, t[Len(<<>>)])
  BY <1>1, <1>2, CourseChain
<1> QED BY <1>1, <1>2, <1>3

\* An edit whose record takes it back makes the chain one record longer.
LEMMA ChainExtend ==
  ASSUME NEW a \in Buffer, NEW recs \in ChangeSet, NEW b \in Buffer, NEW r \in Rec,
         Chain(a, recs, b), b = Reverted(Replayed(b, r), r)
  PROVE  Chain(a, Append(recs, r), Replayed(b, r))
<1> DEFINE n == Len(recs)
           more == Append(recs, r)
<1>1. /\ n \in Nat /\ more \in ChangeSet /\ Len(more) = n + 1
      /\ more[n + 1] = r /\ \A i \in 1..n : more[i] = recs[i]
  BY DEF ChangeSet
<1>2. PICK t \in [0..n -> Buffer] :
        /\ t[0] = a /\ t[n] = b
        /\ \A i \in 1..n : /\ t[i] = Replayed(t[i - 1], recs[i])
                           /\ t[i - 1] = Reverted(t[i], recs[i])
  BY ChainCourse
<1> HIDE DEF n, more
<1> DEFINE u == [i \in 0..(n + 1) |-> IF i = n + 1 THEN Replayed(b, r) ELSE t[i]]
<1>3. Replayed(b, r) \in Buffer
  BY RecordClosed
<1>4. /\ u \in [0..(n + 1) -> Buffer]
      /\ u[0] = a /\ u[n + 1] = Replayed(b, r)
      /\ \A i \in 0..n : u[i] = t[i]
  BY <1>1, <1>2, <1>3
<1> HIDE DEF u
<1>5. ASSUME NEW i \in 1..(n + 1)
      PROVE  /\ u[i] = Replayed(u[i - 1], more[i])
             /\ u[i - 1] = Reverted(u[i], more[i])
  <2>1. CASE i = n + 1
    <3>1. u[i - 1] = b
      BY <1>1, <1>2, <1>4, <2>1
    <3> QED BY <1>1, <1>4, <2>1, <3>1
  <2>2. CASE i # n + 1
    <3>1. i \in 1..n /\ u[i] = t[i] /\ u[i - 1] = t[i - 1] /\ more[i] = recs[i]
      BY <1>1, <1>4, <2>2
    <3> QED BY <1>2, <3>1
  <2> QED BY <2>1, <2>2
<1>6. Chain(a, more, u[Len(more)])
  BY <1>1, <1>4, <1>5, CourseChain
<1> QED BY <1>1, <1>4, <1>6 DEF more

\* A single edit whose record takes it back is a chain.
LEMMA ChainOne ==
  ASSUME NEW b \in Buffer, NEW r \in Rec, b = Reverted(Replayed(b, r), r)
  PROVE  Chain(b, <<r>>, Replayed(b, r))
<1>1. <<>> \in ChangeSet /\ Append(<<>>, r) = <<r>>
  BY DEF ChangeSet
<1>2. Chain(b, Append(<<>>, r), Replayed(b, r))
  BY <1>1, ChainEmpty, ChainExtend
<1> QED BY <1>1, <1>2

\* Undoing a chain leads from where it ends to where it began.
LEMMA ChainReverts ==
  ASSUME NEW a \in Buffer, NEW recs \in ChangeSet, NEW b, Chain(a, recs, b)
  PROVE  RevertAll(b, recs) = a
<1> DEFINE n == Len(recs)
<1>1. n \in Nat
  BY DEF ChangeSet
<1>2. PICK t \in [0..n -> Buffer] :
        /\ t[0] = a /\ t[n] = b
        /\ \A i \in 1..n : /\ t[i] = Replayed(t[i - 1], recs[i])
                           /\ t[i - 1] = Reverted(t[i], recs[i])
  BY ChainCourse
<1> DEFINE w == [i \in 0..n |-> t[n - i]]
<1>3. \A i \in 0..n : n - i \in 0..n
  BY <1>1
<1>4. w \in [0..n -> Buffer]
  BY <1>3
<1>5. w[0] = b /\ w[n] = a /\ b \in Buffer
  BY <1>1, <1>2, <1>3
<1>6. ASSUME NEW i \in 1..n
      PROVE  w[i] = Reverted(w[i - 1], recs[n - i + 1])
  <2>1. /\ n - i + 1 \in 1..n
        /\ w[i] = t[(n - i + 1) - 1] /\ w[i - 1] = t[n - i + 1]
    BY <1>1
  <2> HIDE DEF w
  <2> QED BY <1>2, <2>1
<1> HIDE DEF w
<1>7. RevertRun(b, recs) = w
  BY <1>4, <1>5, <1>6, RevertRunIs
<1> QED BY <1>5, <1>7 DEF RevertAll

\* Redoing a chain leads from where it began to where it ends.
LEMMA ChainReplays ==
  ASSUME NEW a, NEW recs, NEW b, Chain(a, recs, b)
  PROVE  ReplayAll(a, recs) = b
BY DEF Chain, ReplayAll

-----------------------------------------------------------------------------

\* A change set on top of the undo stack leads on from where the stack ended.
LEMMA PushUndo ==
  ASSUME NEW us \in Seq(ChangeSet), NEW ps \in Seq(Buffer), Len(ps) = Len(us),
         NEW b \in Buffer, NEW c \in Buffer, NEW recs \in ChangeSet,
         UndoStack(us, ps, b), Chain(b, recs, c)
  PROVE  UndoStack(Append(us, recs), Append(ps, b), c)
<1> DEFINE n == Len(us)
           vs == Append(us, recs)
           qs == Append(ps, b)
<1>1. /\ n \in Nat /\ Len(vs) = n + 1
      /\ vs[n + 1] = recs /\ qs[n + 1] = b
      /\ \A i \in 1..n : vs[i] = us[i] /\ qs[i] = ps[i]
  OBVIOUS
<1>2. \A i \in 1..n : Chain(ps[i], us[i], IF i = n THEN b ELSE ps[i + 1])
  BY DEF UndoStack
<1> HIDE DEF n, vs, qs
<1>3. ASSUME NEW i \in 1..(n + 1)
      PROVE  Chain(qs[i], vs[i], IF i = n + 1 THEN c ELSE qs[i + 1])
  <2>1. CASE i = n + 1
    BY <1>1, <2>1
  <2>2. CASE i = n
    <3>1. i \in 1..n /\ i # n + 1
      BY <1>1, <2>2
    <3> QED BY <1>1, <1>2, <2>2, <3>1
  <2>3. CASE i \in 1..n /\ i + 1 \in 1..n /\ i # n /\ i # n + 1
    BY <1>1, <1>2, <2>3
  <2> QED BY <1>1, <2>1, <2>2, <2>3
<1>4. UndoStack(vs, qs, c)
  BY <1>1, <1>3 DEF UndoStack
<1> QED BY <1>4 DEF vs, qs

\* Without its top, the undo stack ends where the top change set began.
LEMMA PopUndo ==
  ASSUME NEW us \in Seq(ChangeSet), NEW ps \in Seq(Buffer), Len(ps) = Len(us),
         us # <<>>, NEW b \in Buffer, UndoStack(us, ps, b)
  PROVE  /\ UndoStack(Front(us), Front(ps), Last(ps))
         /\ Chain(Last(ps), Last(us), b)
<1> DEFINE n == Len(us)
           vs == Front(us)
           qs == Front(ps)
<1>1. ps # <<>>
  OBVIOUS
<1>2. /\ n \in Nat \ {0} /\ Len(vs) = n - 1
      /\ Last(us) = us[n] /\ Last(ps) = ps[n]
      /\ \A i \in 1..(n - 1) : vs[i] = us[i] /\ qs[i] = ps[i]
  BY <1>1, FrontLast
<1>3. \A i \in 1..n : Chain(ps[i], us[i], IF i = n THEN b ELSE ps[i + 1])
  BY DEF UndoStack
<1> HIDE DEF n, vs, qs
<1>4. ASSUME NEW i \in 1..(n - 1)
      PROVE  Chain(qs[i], vs[i], IF i = n - 1 THEN ps[n] ELSE qs[i + 1])
  <2>1. i \in 1..n /\ i # n
    BY <1>2
  <2>2. CASE i = n - 1
    BY <1>2, <1>3, <2>1, <2>2
  <2>3. CASE i + 1 \in 1..(n - 1) /\ i # n - 1
    BY <1>2, <1>3, <2>1, <2>3
  <2> QED BY <1>2, <2>2, <2>3
<1>5. UndoStack(vs, qs, ps[n])
  BY <1>2, <1>4 DEF UndoStack
<1>6. n \in 1..n
  BY <1>2
<1> QED BY <1>2, <1>3, <1>5, <1>6 DEF vs, qs

\* A change set on top of the redo stack leads to where the stack began.
LEMMA PushRedo ==
  ASSUME NEW us \in Seq(ChangeSet), NEW ps \in Seq(Buffer), Len(ps) = Len(us),
         NEW b \in Buffer, NEW c \in Buffer, NEW recs \in ChangeSet,
         RedoStack(us, ps, b), Chain(c, recs, b)
  PROVE  RedoStack(Append(us, recs), Append(ps, b), c)
<1> DEFINE n == Len(us)
           vs == Append(us, recs)
           qs == Append(ps, b)
<1>1. /\ n \in Nat /\ Len(vs) = n + 1
      /\ vs[n + 1] = recs /\ qs[n + 1] = b
      /\ \A i \in 1..n : vs[i] = us[i] /\ qs[i] = ps[i]
  OBVIOUS
<1>2. \A i \in 1..n : Chain(IF i = n THEN b ELSE ps[i + 1], us[i], ps[i])
  BY DEF RedoStack
<1> HIDE DEF n, vs, qs
<1>3. ASSUME NEW i \in 1..(n + 1)
      PROVE  Chain(IF i = n + 1 THEN c ELSE qs[i + 1], vs[i], qs[i])
  <2>1. CASE i = n + 1
    BY <1>1, <2>1
  <2>2. CASE i = n
    <3>1. i \in 1..n /\ i # n + 1
      BY <1>1, <2>2
    <3> QED BY <1>1, <1>2, <2>2, <3>1
  <2>3. CASE i \in 1..n /\ i + 1 \in 1..n /\ i # n /\ i # n + 1
    BY <1>1, <1>2, <2>3
  <2> QED BY <1>1, <2>1, <2>2, <2>3
<1>4. RedoStack(vs, qs, c)
  BY <1>1, <1>3 DEF RedoStack
<1> QED BY <1>4 DEF vs, qs

\* Without its top, the redo stack begins where the top change set ended.
LEMMA PopRedo ==
  ASSUME NEW us \in Seq(ChangeSet), NEW ps \in Seq(Buffer), Len(ps) = Len(us),
         us # <<>>, NEW b \in Buffer, RedoStack(us, ps, b)
  PROVE  /\ RedoStack(Front(us), Front(ps), Last(ps))
         /\ Chain(b, Last(us), Last(ps))
<1> DEFINE n == Len(us)
           vs == Front(us)
           qs == Front(ps)
<1>1. ps # <<>>
  OBVIOUS
<1>2. /\ n \in Nat \ {0} /\ Len(vs) = n - 1
      /\ Last(us) = us[n] /\ Last(ps) = ps[n]
      /\ \A i \in 1..(n - 1) : vs[i] = us[i] /\ qs[i] = ps[i]
  BY <1>1, FrontLast
<1>3. \A i \in 1..n : Chain(IF i = n THEN b ELSE ps[i + 1], us[i], ps[i])
  BY DEF RedoStack
<1> HIDE DEF n, vs, qs
<1>4. ASSUME NEW i \in 1..(n - 1)
      PROVE  Chain(IF i = n - 1 THEN ps[n] ELSE qs[i + 1], vs[i], qs[i])
  <2>1. i \in 1..n /\ i # n
    BY <1>2
  <2>2. CASE i = n - 1
    BY <1>2, <1>3, <2>1, <2>2
  <2>3. CASE i + 1 \in 1..(n - 1) /\ i # n - 1
    BY <1>2, <1>3, <2>1, <2>3
  <2> QED BY <1>2, <2>2, <2>3
<1>5. RedoStack(vs, qs, ps[n])
  BY <1>2, <1>4 DEF RedoStack
<1>6. n \in 1..n
  BY <1>2
<1> QED BY <1>2, <1>3, <1>5, <1>6 DEF vs, qs

-----------------------------------------------------------------------------
(* The log. *)

\* An edit of the buffer is recorded by a well-formed record.
LEMMA EditRecorded ==
  ASSUME TypeOK, Edit
  PROVE  \E r \in Rec : Record(r) /\ store' \in Buffer
<1>1. store \in Buffer /\ Len(store) \in Nat /\ Over \in Nat
  BY UndoLogAssumption DEF TypeOK, Buffer
<1>2. CASE \E lno \in 1..(Len(store) + Over), line \in Line : Set(lno, line)
  <2>1. PICK lno \in 1..(Len(store) + Over), line \in Line : Set(lno, line)
    BY <1>2
  <2> DEFINE r == [kind |-> "set", lno |-> lno, before |-> Get(store, lno),
                   after |-> IF InRange(store, lno) THEN line ELSE Empty]
  <2>2. lno \in Int
    BY <1>1
  <2>3. r \in Rec
    BY <1>1, <2>2, StoreClosed, LineAssumption DEF Rec
  <2> QED BY <1>1, <2>1, <2>2, <2>3, StoreClosed DEF Set
<1>3. CASE \E lno \in 1..(Len(store) + 1 + Over), line \in Line :
             Insert(lno, line)
  <2>1. PICK lno \in 1..(Len(store) + 1 + Over), line \in Line :
             Insert(lno, line)
    BY <1>3
  <2> DEFINE r == [kind |-> "insert", lno |-> lno, before |-> Empty, after |-> line]
  <2>2. lno \in Int
    BY <1>1
  <2>3. r \in Rec
    BY <2>2, LineAssumption DEF Rec
  <2> QED BY <1>1, <2>1, <2>2, <2>3, StoreClosed DEF Insert
<1>4. CASE \E lno \in 1..(Len(store) + Over) : Delete(lno)
  <2>1. PICK lno \in 1..(Len(store) + Over) : Delete(lno)
    BY <1>4
  <2> DEFINE r == [kind |-> "delete", lno |-> lno, before |-> Get(store, lno),
                   after |-> Empty]
  <2>2. lno \in Int
    BY <1>1
  <2>3. r \in Rec
    BY <1>1, <2>2, StoreClosed, LineAssumption DEF Rec
  <2> QED BY <1>1, <2>1, <2>2, <2>3, StoreClosed, LineAssumption DEF Delete
<1> QED BY <1>2, <1>3, <1>4 DEF Edit

\* A step of the log keeps the types.
LEMMA TypeOKStep ==
  ASSUME TypeOK, [Next]_vars
  PROVE  TypeOK'
<1> USE DEF TypeOK
<1>0. <<>> \in ChangeSet /\ <<>> \in Seq(ChangeSet)
  BY DEF ChangeSet
<1>1. CASE Begin
  BY <1>0, <1>1 DEF Begin
<1>2. CASE End
  <2>1. Append(undo, cur) \in Seq(ChangeSet)
    OBVIOUS
  <2>2. CASE open = 1 /\ cur # <<>>
    BY <1>0, <1>2, <2>1, <2>2 DEF End
  <2>3. CASE open = 1 /\ cur = <<>>
    BY <1>0, <1>2, <2>3 DEF End
  <2>4. CASE open # 1
    BY <1>2, <2>4 DEF End
  <2> QED BY <2>2, <2>3, <2>4
<1>3. CASE Edit
  <2>1. PICK r \in Rec : Record(r) /\ store' \in Buffer
    BY <1>3, EditRecorded
  <2>2. Append(cur, r) \in ChangeSet /\ <<r>> \in ChangeSet
    BY DEF ChangeSet
  <2>3. Append(undo, <<r>>) \in Seq(ChangeSet)
    BY <2>2
  <2>4. CASE open = 0
    <3>1. /\ undo' = Append(undo, <<r>>) /\ redo' = <<>> /\ cur' = <<>>
          /\ open' = open /\ gen' = gen + 1 /\ store' \in Buffer
      BY <2>1, <2>4 DEF Record
    <3> QED BY <1>0, <2>3, <3>1
  <2>5. CASE open # 0
    <3>1. /\ cur' = Append(cur, r) /\ undo' = undo /\ redo' = redo
          /\ open' = open /\ gen' = gen + 1 /\ store' \in Buffer
      BY <2>1, <2>5 DEF Record
    <3> QED BY <2>2, <3>1
  <2> QED BY <2>4, <2>5
<1>4. ASSUME Undo PROVE TypeOK'
  <2>1. /\ Front(undo) \in Seq(ChangeSet) /\ Last(undo) \in ChangeSet
    BY <1>4, FrontLast DEF Undo
  <2>2. RevertAll(store, Last(undo)) \in Buffer
    BY <2>1, RunsClosed
  <2> QED BY <1>4, <2>1, <2>2 DEF Undo
<1>5. CASE Redo
  <2>1. /\ Front(redo) \in Seq(ChangeSet) /\ Last(redo) \in ChangeSet
    BY <1>5, FrontLast DEF Redo
  <2>2. ReplayAll(store, Last(redo)) \in Buffer
    BY <2>1, RunsClosed
  <2> QED BY <1>5, <2>1, <2>2 DEF Redo
<1>6. CASE UNCHANGED vars
  BY <1>6 DEF vars
<1> QED BY <1>1, <1>2, <1>3, <1>4, <1>5, <1>6 DEF Next, Step, UndoLineOnly

\* Whatever addresses the callers use and whenever they undo, the log stays
\* well formed.
THEOREM TypeCorrect == Spec => []TypeOK
<1>1. Init => TypeOK
  BY UndoLogAssumption DEF Init, TypeOK, ChangeSet
<1>2. TypeOK /\ [Next]_vars => TypeOK'
  BY TypeOKStep
<1> QED BY <1>1, <1>2, PTL DEF Spec

-----------------------------------------------------------------------------

\* A set is recorded so that it can be replayed and taken back, wherever it is.
LEMMA SetReversible ==
  ASSUME TypeOK, NEW lno \in Int, NEW line \in Line, Set(lno, line)
  PROVE  \E r \in Rec : /\ Record(r)
                        /\ store' = Replayed(store, r)
                        /\ store = Reverted(store', r)
<1> DEFINE r == [kind |-> "set", lno |-> lno, before |-> Get(store, lno),
                 after |-> IF InRange(store, lno) THEN line ELSE Empty]
<1>1. store \in Buffer
  BY DEF TypeOK
<1>2. r \in Rec
  BY <1>1, StoreClosed, LineAssumption DEF Rec
<1>3. Record(r) /\ store' = SetLine(store, lno, line)
  BY DEF Set
<1>4. Replayed(store, r) = SetLine(store, lno, line)
  <2>1. Replayed(store, r) = SetLine(store, lno, IF InRange(store, lno) THEN line ELSE Empty)
    BY DEF Replayed
  <2> QED BY <2>1 DEF SetLine
<1>5. Reverted(store', r) = SetLine(store', lno, Get(store, lno))
  BY DEF Reverted
<1>6. SetLine(SetLine(store, lno, line), lno, Get(store, lno)) = store
  BY <1>1, SetUndoesSet
<1> QED BY <1>2, <1>3, <1>4, <1>5, <1>6

\* So is an insertion between the lines of the buffer or right behind them.
LEMMA InsertReversible ==
  ASSUME TypeOK, NEW lno \in 1..(Len(store) + 1), NEW line \in Line, Insert(lno, line)
  PROVE  \E r \in Rec : /\ Record(r)
                        /\ store' = Replayed(store, r)
                        /\ store = Reverted(store', r)
<1> DEFINE r == [kind |-> "insert", lno |-> lno, before |-> Empty, after |-> line]
<1>1. store \in Buffer /\ Len(store) \in Nat
  BY DEF TypeOK, Buffer
<1>2. r \in Rec
  BY <1>1, LineAssumption DEF Rec
<1>3. Record(r) /\ store' = InsertLine(store, lno, line)
  BY DEF Insert
<1>4. Replayed(store, r) = InsertLine(store, lno, line)
  BY DEF Replayed
<1>5. Reverted(store', r) = DeleteLine(store', lno)
  BY DEF Reverted
<1>6. DeleteLine(InsertLine(store, lno, line), lno) = store
  BY <1>1, DeleteUndoesInsert
<1> QED BY <1>2, <1>3, <1>4, <1>5, <1>6

\* So is the deletion of a line of the buffer.
LEMMA DeleteReversible ==
  ASSUME TypeOK, NEW lno \in 1..Len(store), Delete(lno)
  PROVE  \E r \in Rec : /\ Record(r)
                        /\ store' = Replayed(store, r)
                        /\ store = Reverted(store', r)
<1> DEFINE r == [kind |-> "delete", lno |-> lno, before |-> Get(store, lno),
                 after |-> Empty]
<1>1. store \in Buffer /\ Len(store) \in Nat
  BY DEF TypeOK, Buffer
<1>2. lno \in Int /\ Get(store, lno) = store[lno]
  BY <1>1 DEF Get, InRange
<1>3. r \in Rec
  BY <1>1, <1>2, StoreClosed, LineAssumption DEF Rec
<1>4. Record(r) /\ store' = DeleteLine(store, lno)
  BY DEF Delete
<1>5. Replayed(store, r) = DeleteLine(store, lno)
  BY DEF Replayed
<1>6. Reverted(store', r) = InsertLine(store', lno, store[lno])
  BY <1>2 DEF Reverted
<1>7. InsertLine(DeleteLine(store, lno), lno, store[lno]) = store
  BY <1>1, InsertUndoesDelete
<1> QED BY <1>3, <1>4, <1>5, <1>6, <1>7

\* An edit that does not go astray is one of the three.
LEMMA EditReversible ==
  ASSUME TypeOK, astray \in BOOLEAN, HEdit, ~astray'
  PROVE  \E r \in Rec : /\ Record(r)
                        /\ store' = Replayed(store, r)
                        /\ store = Reverted(store', r)
<1>1. store \in Buffer /\ Len(store) \in Nat /\ Over \in Nat
  BY UndoLogAssumption DEF TypeOK, Buffer
<1>2. ASSUME NEW lno \in 1..(Len(store) + Over), NEW line \in Line, Set(lno, line)
      PROVE  \E r \in Rec : /\ Record(r) /\ store' = Replayed(store, r)
                            /\ store = Reverted(store', r)
  <2>1. lno \in Int
    BY <1>1
  <2> QED BY <1>2, <2>1, SetReversible
<1>3. ASSUME NEW lno \in 1..(Len(store) + 1 + Over), NEW line \in Line,
             Insert(lno, line), Strays(lno > Len(store) + 1)
      PROVE  \E r \in Rec : /\ Record(r) /\ store' = Replayed(store, r)
                            /\ store = Reverted(store', r)
  <2>1. ~ (lno > Len(store) + 1)
    BY <1>3, Zenon DEF Strays
  <2>2. lno \in 1..(Len(store) + 1)
    BY <1>1, <2>1
  <2> QED BY <1>3, <2>2, InsertReversible
<1>4. ASSUME NEW lno \in 1..(Len(store) + Over), Delete(lno), Strays(lno > Len(store))
      PROVE  \E r \in Rec : /\ Record(r) /\ store' = Replayed(store, r)
                            /\ store = Reverted(store', r)
  <2>1. ~ (lno > Len(store))
    BY <1>4, Zenon DEF Strays
  <2>2. lno \in 1..Len(store)
    BY <1>1, <2>1
  <2> QED BY <1>4, <2>2, DeleteReversible
<1> QED BY <1>2, <1>3, <1>4 DEF HEdit

\* A step of the log with its history is a step of the log.
LEMMA HStepIsStep ==
  ASSUME [HNext]_hvars
  PROVE  [Next]_vars
BY DEF HNext, hvars, vars, HBegin, HEnd, HEdit, HUndo, HRedo, Next, Step, Edit

LEMMA HEditIsEdit == HEdit => Edit
BY DEF HEdit, Edit

\* Whoever has gone astray stays so.
LEMMA StraysForGood ==
  ASSUME astray \in BOOLEAN, [HNext]_hvars
  PROVE  astray' \in BOOLEAN /\ (astray => astray')
BY DEF HNext, hvars, HBegin, HEnd, HEdit, HUndo, HRedo, Strays, Pending

\* When no change set is being made, the buffer is the one the stacks meet at.
LEMMA IdleAtBase ==
  ASSUME HistoryInv, ~ astray, ~ Pending
  PROVE  store = base /\ cur = <<>>
<1>1. cur = <<>> /\ open \in Nat
  BY DEF HistoryInv, HTypeOK, TypeOK, Pending
<1>2. Chain(base, <<>>, store)
  BY <1>1 DEF HistoryInv
<1>3. base \in Buffer /\ <<>> \in ChangeSet /\ Len(<<>>) = 0
  BY DEF HistoryInv, HTypeOK, ChangeSet
<1>4. ReplayRun(base, <<>>)[0] = base
  BY <1>3, ReplayRunResult
<1> QED BY <1>1, <1>2, <1>3, <1>4 DEF Chain

\* Undo leads to the buffer before the change set on top of the undo stack.
LEMMA UndoReturns ==
  ASSUME HistoryInv, ~ astray, ~ Pending, Undo
  PROVE  /\ store' = Last(past) /\ past # <<>> /\ base = store
         /\ UndoStack(Front(undo), Front(past), Last(past))
         /\ Chain(Last(past), Last(undo), store)
<1>1. base = store
  BY IdleAtBase
<1>2. /\ undo \in Seq(ChangeSet) /\ past \in Seq(Buffer)
      /\ Len(past) = Len(undo) /\ undo # <<>> /\ base \in Buffer
  BY DEF HistoryInv, HTypeOK, TypeOK, Undo
<1>3. /\ UndoStack(Front(undo), Front(past), Last(past))
      /\ Chain(Last(past), Last(undo), base)
  BY <1>2, PopUndo DEF HistoryInv
<1>4. past # <<>>
  BY <1>2
<1>5. Last(past) \in Buffer /\ Last(undo) \in ChangeSet
  BY <1>2, <1>4, FrontLast
<1>6. RevertAll(store, Last(undo)) = Last(past)
  BY <1>1, <1>3, <1>5, ChainReverts
<1> QED BY <1>1, <1>3, <1>4, <1>6 DEF Undo

\* Redo leads to the buffer after the change set on top of the redo stack.
LEMMA RedoReturns ==
  ASSUME HistoryInv, ~ astray, ~ Pending, Redo
  PROVE  /\ store' = Last(future) /\ future # <<>> /\ base = store
         /\ RedoStack(Front(redo), Front(future), Last(future))
         /\ Chain(store, Last(redo), Last(future))
<1>1. base = store
  BY IdleAtBase
<1>2. /\ redo \in Seq(ChangeSet) /\ future \in Seq(Buffer)
      /\ Len(future) = Len(redo) /\ redo # <<>> /\ base \in Buffer
  BY DEF HistoryInv, HTypeOK, TypeOK, Redo
<1>3. /\ RedoStack(Front(redo), Front(future), Last(future))
      /\ Chain(base, Last(redo), Last(future))
  BY <1>2, PopRedo DEF HistoryInv
<1>4. future # <<>>
  BY <1>2
<1>5. ReplayAll(store, Last(redo)) = Last(future)
  BY <1>1, <1>3, ChainReplays
<1> QED BY <1>1, <1>3, <1>4, <1>5 DEF Redo

-----------------------------------------------------------------------------
\* Committing a change set: the outermost End, or an edit outside Begin/End.
LEMMA CommitKeepsHistory ==
  ASSUME HistoryInv, TypeOK', NEW recs \in ChangeSet,
         undo' = Append(undo, recs), redo' = <<>>, cur' = <<>>, Remembered(base),
         ~ astray, astray' \in BOOLEAN, Chain(base, recs, store')
  PROVE  HistoryInv'
<1>1. /\ undo \in Seq(ChangeSet) /\ past \in Seq(Buffer) /\ base \in Buffer
      /\ Len(past) = Len(undo) /\ UndoStack(undo, past, base)
  BY DEF HistoryInv, HTypeOK, TypeOK
<1>2. /\ past' = Append(past, base) /\ future' = <<>> /\ base' = store'
      /\ store' \in Buffer
  BY DEF Remembered, TypeOK
<1>3. UndoStack(Append(undo, recs), Append(past, base), store')
  BY <1>1, <1>2, PushUndo
<1>4. HTypeOK'
  <2>1. Append(past, base) \in Seq(Buffer) /\ <<>> \in Seq(Buffer)
    BY <1>1
  <2> QED BY <1>2, <2>1 DEF HTypeOK
<1>5. Len(past') = Len(undo') /\ Len(future') = Len(redo')
  BY <1>1, <1>2
<1>6. Chain(base', cur', store')
  BY <1>2, ChainEmpty
<1>7. RedoStack(redo', future', base')
  BY DEF RedoStack
<1> QED BY <1>2, <1>3, <1>4, <1>5, <1>6, <1>7 DEF HistoryInv

\* Types and lengths are kept, whatever the callers do.
LEMMA LengthsStep ==
  ASSUME HistoryInv, [HNext]_hvars
  PROVE  /\ HTypeOK'
         /\ open' = 0 => cur' = <<>>
         /\ Len(past') = Len(undo')
         /\ Len(future') = Len(redo')
<1>1. TypeOK /\ TypeOK' /\ astray' \in BOOLEAN
  BY HStepIsStep, TypeOKStep, StraysForGood DEF HistoryInv, HTypeOK
<1>2. /\ store \in Buffer /\ base \in Buffer /\ open \in Nat /\ cur \in ChangeSet
      /\ undo \in Seq(ChangeSet) /\ redo \in Seq(ChangeSet) /\ store' \in Buffer
      /\ past \in Seq(Buffer) /\ future \in Seq(Buffer)
      /\ open = 0 => cur = <<>>
      /\ Len(past) = Len(undo) /\ Len(future) = Len(redo)
  BY <1>1 DEF HistoryInv, HTypeOK, TypeOK
<1>3. CASE HBegin
  <2>1. /\ cur' = cur /\ undo' = undo /\ redo' = redo /\ base' = base /\ past' = past
        /\ future' = future /\ open' = open + 1
    BY <1>2, <1>3 DEF HBegin, Begin, hist
  <2> QED BY <1>1, <1>2, <2>1 DEF HTypeOK
<1>4. ASSUME NEW recs \in ChangeSet, NEW b \in Buffer, Remembered(b),
             undo' = Append(undo, recs), redo' = <<>>, cur' = <<>>
      PROVE  HTypeOK' /\ cur' = <<>> /\ Len(past') = Len(undo') /\ Len(future') = Len(redo')
  BY <1>1, <1>2, <1>4 DEF Remembered, HTypeOK
<1>5. CASE HEnd
  <2>1. CASE open = 1 /\ cur # <<>>
    BY <1>2, <1>4, <1>5, <2>1 DEF HEnd, End
  <2>2. CASE ~ (open = 1 /\ cur # <<>>)
    <3>1. /\ undo' = undo /\ redo' = redo /\ cur' = cur
          /\ base' = base /\ past' = past /\ future' = future
          /\ open' = open - 1 /\ open > 0
      BY <1>5, <2>2 DEF HEnd, End, hist
    <3>2. open' = 0 => cur' = <<>>
      BY <1>2, <2>2, <3>1
    <3> QED BY <1>1, <1>2, <3>1, <3>2 DEF HTypeOK
  <2> QED BY <2>1, <2>2
<1>6. CASE HEdit
  <2>1. PICK r \in Rec : Record(r)
    BY <1>1, <1>6, EditRecorded, HEditIsEdit
  <2>2. CASE open = 0
    <3>1. /\ undo' = Append(undo, <<r>>) /\ redo' = <<>> /\ cur' = <<>>
          /\ Remembered(store) /\ <<r>> \in ChangeSet
      BY <1>6, <2>1, <2>2 DEF HEdit, Record, ChangeSet
    <3> QED BY <1>2, <1>4, <3>1
  <2>3. CASE open # 0
    <3>1. /\ undo' = undo /\ redo' = redo /\ base' = base /\ past' = past
          /\ future' = future /\ open' = open
      BY <1>6, <2>1, <2>3 DEF HEdit, Record, hist
    <3> QED BY <1>1, <1>2, <2>3, <3>1 DEF HTypeOK
  <2> QED BY <2>2, <2>3
<1>7. CASE HUndo
  <2>1. /\ undo' = Front(undo) /\ redo' = Append(redo, Last(undo)) /\ cur' = cur
        /\ base' = store' /\ past' = Front(past) /\ future' = Append(future, store)
        /\ undo # <<>> /\ open' = open
    BY <1>7 DEF HUndo, UndoLineOnly, Undo
  <2>2. /\ past # <<>> /\ Front(past) \in Seq(Buffer) /\ Len(Front(past)) = Len(past) - 1
        /\ Last(undo) \in ChangeSet /\ Len(Front(undo)) = Len(undo) - 1
    <3>1. past # <<>>
      BY <1>2, <2>1
    <3> QED BY <1>2, <2>1, <3>1, FrontLast
  <2> QED BY <1>1, <1>2, <2>1, <2>2 DEF HTypeOK
<1>8. CASE HRedo
  <2>1. /\ redo' = Front(redo) /\ undo' = Append(undo, Last(redo)) /\ cur' = cur
        /\ base' = store' /\ future' = Front(future) /\ past' = Append(past, store)
        /\ redo # <<>> /\ open' = open
    BY <1>8 DEF HRedo, Redo
  <2>2. /\ future # <<>> /\ Front(future) \in Seq(Buffer)
        /\ Len(Front(future)) = Len(future) - 1
        /\ Last(redo) \in ChangeSet /\ Len(Front(redo)) = Len(redo) - 1
    <3>1. future # <<>>
      BY <1>2, <2>1
    <3> QED BY <1>2, <2>1, <3>1, FrontLast
  <2> QED BY <1>1, <1>2, <2>1, <2>2 DEF HTypeOK
<1>9. CASE UNCHANGED hvars
  BY <1>9 DEF hvars, HistoryInv, HTypeOK, TypeOK
<1> QED BY <1>3, <1>5, <1>6, <1>7, <1>8, <1>9 DEF HNext

\* The history invariant is inductive.
LEMMA HistoryInvStep ==
  ASSUME HistoryInv, [HNext]_hvars
  PROVE  HistoryInv'
<1> SUFFICES ASSUME ~ astray' PROVE HistoryInv'
  BY LengthsStep DEF HistoryInv
<1>0. ~ astray /\ astray \in BOOLEAN /\ astray' \in BOOLEAN
  BY StraysForGood DEF HistoryInv, HTypeOK
<1>1. TypeOK /\ TypeOK'
  BY HStepIsStep, TypeOKStep DEF HistoryInv, HTypeOK
<1>2. /\ store \in Buffer /\ base \in Buffer /\ open \in Nat /\ cur \in ChangeSet
      /\ undo \in Seq(ChangeSet) /\ redo \in Seq(ChangeSet)
      /\ past \in Seq(Buffer) /\ future \in Seq(Buffer)
  BY DEF HistoryInv, HTypeOK, TypeOK
<1>3. CASE HBegin
  <2>1. cur' = cur
    BY <1>3 DEF HBegin, Begin, HistoryInv
  <2>2. /\ store' = store /\ undo' = undo /\ redo' = redo /\ cur' = cur
        /\ base' = base /\ past' = past /\ future' = future /\ open' = open + 1
    BY <1>3, <2>1 DEF HBegin, Begin, hist
  <2> QED BY <1>0, <1>1, <1>2, <2>2 DEF HistoryInv, HTypeOK
<1>4. CASE HEnd
  <2>1. CASE open = 1 /\ cur # <<>>
    <3>1. /\ undo' = Append(undo, cur) /\ redo' = <<>> /\ cur' = <<>>
          /\ store' = store /\ Remembered(base)
      BY <1>4, <2>1 DEF HEnd, End
    <3>2. Chain(base, cur, store')
      BY <1>0, <3>1 DEF HistoryInv
    <3> QED BY <1>0, <1>1, <1>2, <3>1, <3>2, CommitKeepsHistory
  <2>2. CASE ~ (open = 1 /\ cur # <<>>)
    <3>1. /\ store' = store /\ undo' = undo /\ redo' = redo /\ cur' = cur
          /\ base' = base /\ past' = past /\ future' = future
          /\ open' = open - 1 /\ open > 0
      BY <1>4, <2>2 DEF HEnd, End, hist
    <3>2. open' = 0 => cur' = <<>>
      BY <1>2, <2>2, <3>1
    <3> QED BY <1>0, <1>1, <1>2, <3>1, <3>2 DEF HistoryInv, HTypeOK
  <2> QED BY <2>1, <2>2
<1>5. CASE HEdit
  <2>1. PICK r \in Rec : /\ Record(r)
                         /\ store' = Replayed(store, r)
                         /\ store = Reverted(Replayed(store, r), r)
    BY <1>0, <1>1, <1>5, EditReversible
  <2>2. CASE open = 0
    <3>1. store = base
      BY <1>0, <2>2, IdleAtBase DEF Pending
    <3>2. /\ undo' = Append(undo, <<r>>) /\ redo' = <<>> /\ cur' = <<>>
          /\ Remembered(base)
      BY <1>5, <2>1, <2>2, <3>1 DEF HEdit, Record
    <3>3. Chain(base, <<r>>, store')
      BY <1>2, <2>1, <3>1, ChainOne
    <3>4. <<r>> \in ChangeSet
      BY DEF ChangeSet
    <3> QED BY <1>0, <1>1, <3>2, <3>3, <3>4, CommitKeepsHistory
  <2>3. CASE open # 0
    <3>1. /\ undo' = undo /\ redo' = redo /\ cur' = Append(cur, r)
          /\ base' = base /\ past' = past /\ future' = future /\ open' = open
      BY <1>5, <2>1, <2>3 DEF HEdit, Record, hist
    <3>2. Chain(base, Append(cur, r), store')
      BY <1>0, <1>2, <2>1, ChainExtend DEF HistoryInv
    <3> QED BY <1>0, <1>1, <1>2, <2>3, <3>1, <3>2 DEF HistoryInv, HTypeOK
  <2> QED BY <2>2, <2>3
<1>6. CASE HUndo
  <2>1. Undo /\ ~ Pending
    BY <1>0, <1>6 DEF HUndo, UndoLineOnly, Strays
  <2>2. /\ store' = Last(past) /\ past # <<>> /\ base = store
        /\ UndoStack(Front(undo), Front(past), Last(past))
        /\ Chain(Last(past), Last(undo), store)
    BY <1>0, <2>1, UndoReturns
  <2>3. /\ undo' = Front(undo) /\ redo' = Append(redo, Last(undo)) /\ cur' = cur
        /\ base' = store' /\ past' = Front(past) /\ future' = Append(future, store)
        /\ undo # <<>> /\ open' = open
    BY <1>6, <2>1 DEF HUndo, Undo
  <2>4. cur = <<>>
    BY <1>0, <2>1, IdleAtBase
  <2>5. /\ Front(past) \in Seq(Buffer) /\ Len(Front(past)) = Len(past) - 1
        /\ Last(past) \in Buffer
        /\ Last(undo) \in ChangeSet /\ Len(Front(undo)) = Len(undo) - 1
    BY <1>2, <2>2, <2>3, FrontLast
  <2>6. RedoStack(Append(redo, Last(undo)), Append(future, store), store')
    BY <1>0, <1>2, <2>2, <2>5, PushRedo DEF HistoryInv
  <2>7. Chain(base', cur', store')
    BY <2>2, <2>3, <2>4, <2>5, ChainEmpty
  <2>8. HTypeOK'
    <3>1. Append(future, store) \in Seq(Buffer)
      BY <1>2
    <3> QED BY <1>0, <1>1, <2>2, <2>3, <2>5, <3>1 DEF HTypeOK
  <2>9. Len(past') = Len(undo') /\ Len(future') = Len(redo')
    BY <1>2, <2>3, <2>5 DEF HistoryInv
  <2> QED BY <2>2, <2>3, <2>4, <2>6, <2>7, <2>8, <2>9 DEF HistoryInv
<1>7. CASE HRedo
  <2>1. Redo /\ ~ Pending
    BY <1>0, <1>7 DEF HRedo, Strays
  <2>2. /\ store' = Last(future) /\ future # <<>> /\ base = store
        /\ RedoStack(Front(redo), Front(future), Last(future))
        /\ Chain(store, Last(redo), Last(future))
    BY <1>0, <2>1, RedoReturns
  <2>3. /\ redo' = Front(redo) /\ undo' = Append(undo, Last(redo)) /\ cur' = cur
        /\ base' = store' /\ future' = Front(future) /\ past' = Append(past, store)
        /\ redo # <<>> /\ open' = open
    BY <1>7, <2>1 DEF HRedo, Redo
  <2>4. cur = <<>>
    BY <1>0, <2>1, IdleAtBase
  <2>5. /\ Front(future) \in Seq(Buffer) /\ Len(Front(future)) = Len(future) - 1
        /\ Last(future) \in Buffer
        /\ Last(redo) \in ChangeSet /\ Len(Front(redo)) = Len(redo) - 1
    BY <1>2, <2>2, <2>3, FrontLast
  <2>6. UndoStack(Append(undo, Last(redo)), Append(past, store), store')
    BY <1>0, <1>2, <2>2, <2>5, PushUndo DEF HistoryInv
  <2>7. Chain(base', cur', store')
    BY <2>2, <2>3, <2>4, <2>5, ChainEmpty
  <2>8. HTypeOK'
    <3>1. Append(past, store) \in Seq(Buffer)
      BY <1>2
    <3> QED BY <1>0, <1>1, <2>2, <2>3, <2>5, <3>1 DEF HTypeOK
  <2>9. Len(past') = Len(undo') /\ Len(future') = Len(redo')
    BY <1>2, <2>3, <2>5 DEF HistoryInv
  <2> QED BY <2>2, <2>3, <2>4, <2>6, <2>7, <2>8, <2>9 DEF HistoryInv
<1>8. CASE UNCHANGED hvars
  BY <1>8 DEF hvars, HistoryInv, HTypeOK, TypeOK
<1> QED BY <1>3, <1>4, <1>5, <1>6, <1>7, <1>8 DEF HNext

-----------------------------------------------------------------------------
\* In every reachable state each change set, open, done or undone, leads
\* between the buffers it was recorded between, unless a caller went astray.
THEOREM HistoryKept == HSpec => []HistoryInv
<1>1. HInit => HistoryInv
  <2> SUFFICES ASSUME HInit PROVE HistoryInv
    OBVIOUS
  <2>1. /\ store \in Buffer /\ open = 0 /\ cur = <<>> /\ undo = <<>> /\ redo = <<>>
        /\ gen = 0 /\ base = store /\ past = <<>> /\ future = <<>> /\ astray = FALSE
    BY UndoLogAssumption DEF HInit, Init
  <2>2. HTypeOK
    <3>1. astray \in BOOLEAN
      BY <2>1, Zenon
    <3> QED BY <2>1, <3>1 DEF HTypeOK, TypeOK, ChangeSet
  <2>3. Chain(base, cur, store)
    BY <2>1, ChainEmpty
  <2>4. UndoStack(undo, past, base) /\ RedoStack(redo, future, base)
    BY <2>1 DEF UndoStack, RedoStack
  <2> QED BY <2>1, <2>2, <2>3, <2>4 DEF HistoryInv
<1>2. HistoryInv /\ [HNext]_hvars => HistoryInv'
  BY HistoryInvStep
<1> QED BY <1>1, <1>2, PTL DEF HSpec

\* Undo puts back the buffer the change set started from, unless a caller went
\* astray.
THEOREM UndoRestored == HSpec => UndoRestores
<1>1. HistoryInv /\ [HNext]_hvars => [HUndo /\ ~ astray' => store' = Last(past)]_hvars
  <2> SUFFICES ASSUME HistoryInv, HNext, HUndo, ~ astray' PROVE store' = Last(past)
    OBVIOUS
  <2>1. Undo /\ ~ astray /\ ~ Pending
    BY DEF HUndo, UndoLineOnly, Strays, HistoryInv, HTypeOK
  <2> QED BY <2>1, UndoReturns
<1> QED BY <1>1, HistoryKept, PTL DEF HSpec, UndoRestores

\* Redo puts back the buffer the undone change set had ended with, unless a
\* caller went astray.
THEOREM RedoRestored == HSpec => RedoRestores
<1>1. HistoryInv /\ [HNext]_hvars => [HRedo /\ ~ astray' => store' = Last(future)]_hvars
  <2> SUFFICES ASSUME HistoryInv, HNext, HRedo, ~ astray' PROVE store' = Last(future)
    OBVIOUS
  <2>1. Redo /\ ~ astray /\ ~ Pending
    BY DEF HRedo, Strays, HistoryInv, HTypeOK
  <2> QED BY <2>1, RedoReturns
<1> QED BY <1>1, HistoryKept, PTL DEF HSpec, RedoRestores

\* The generation moves with every change of the buffer, whatever the callers.
THEOREM GenerationTells == HSpec => GenTellsChange
<1>1. HInit => TypeOK
  BY UndoLogAssumption DEF HInit, Init, TypeOK, ChangeSet
<1>2. TypeOK /\ [HNext]_hvars => TypeOK'
  BY HStepIsStep, TypeOKStep
<1>3. TypeOK /\ [HNext]_hvars => [store' # store => gen' # gen]_hvars
  <2> SUFFICES ASSUME TypeOK, HNext, store' # store PROVE gen' = gen + 1
    BY DEF TypeOK
  <2>1. CASE HBegin \/ HEnd
    BY <2>1 DEF HBegin, HEnd, Begin, End
  <2>2. CASE HEdit
    BY <2>2 DEF HEdit, Edit, Set, Insert, Delete, Record
  <2>3. CASE HUndo \/ HRedo
    BY <2>3 DEF HUndo, HRedo, UndoLineOnly, Undo, Redo
  <2> QED BY <2>1, <2>2, <2>3 DEF HNext
<1> QED BY <1>1, <1>2, <1>3, PTL DEF HSpec, GenTellsChange

\* Every step of the log is a step of the linear history, or leaves it alone.
LEMMA StepImplements ==
  ASSUME HistoryInv, HistoryInv', [HNext]_hvars
  PROVE  [History!Next]_(History!vars)
<1> SUFFICES ASSUME ~ astray' PROVE [History!Next]_(History!vars)
  <2>1. astray' = TRUE \/ ~ astray'
    BY DEF HistoryInv, HTypeOK
  <2> QED BY <2>1 DEF History!Next, History!Lose
<1> USE DEF History!vars
<1>0. ~ astray /\ astray' = astray
  BY StraysForGood DEF HistoryInv, HTypeOK
<1>1. store' \in Buffer
  BY DEF HistoryInv, HTypeOK, TypeOK
<1>2. CASE HBegin
  BY <1>0, <1>2 DEF HBegin, Begin, hist
<1>3. CASE HEnd
  <2>1. CASE open = 1 /\ cur # <<>>
    BY <1>0, <1>1, <1>3, <2>1 DEF HEnd, End, Remembered, History!Commit, History!Next
  <2>2. CASE ~ (open = 1 /\ cur # <<>>)
    BY <1>0, <1>3, <2>2 DEF HEnd, End, hist
  <2> QED BY <2>1, <2>2
<1>4. CASE HEdit
  <2>1. CASE open = 0
    <3>1. store = base
      BY <1>0, <2>1, IdleAtBase DEF Pending
    <3> QED BY <1>0, <1>1, <1>4, <2>1, <3>1
            DEF HEdit, Remembered, History!Commit, History!Next
  <2>2. CASE open # 0
    BY <1>0, <1>1, <1>4, <2>2 DEF HEdit, hist, History!Work, History!Next
  <2> QED BY <2>1, <2>2
<1>5. CASE HUndo
  <2>1. Undo /\ ~ Pending
    BY <1>0, <1>5 DEF HUndo, UndoLineOnly, Strays
  <2>2. past # <<>> /\ store' = Last(past)
    BY <1>0, <2>1, UndoReturns
  <2> QED BY <1>0, <1>5, <2>2
         DEF HUndo, History!Undo, History!Next, Last, Front, History!Last, History!Front
<1>6. CASE HRedo
  <2>1. future # <<>> /\ store' = Last(future)
    <3>1. Redo /\ ~ Pending
      BY <1>0, <1>6 DEF HRedo, Strays
    <3> QED BY <1>0, <3>1, RedoReturns
  <2> QED BY <1>0, <1>6, <2>1
         DEF HRedo, History!Redo, History!Next, Last, Front, History!Last, History!Front
<1>7. CASE UNCHANGED hvars
  BY <1>7 DEF hvars
<1> QED BY <1>2, <1>3, <1>4, <1>5, <1>6, <1>7 DEF HNext

\* The log of single-line records implements the line of snapshots, which is
\* off once a caller went astray.
THEOREM LogImplementsHistory == HSpec => ImplementsHistory
<1>1. HInit => History!Init
  BY UndoLogAssumption DEF HInit, Init, History!Init
<1>2. HistoryInv /\ HistoryInv' /\ [HNext]_hvars => [History!Next]_(History!vars)
  BY StepImplements
<1> QED BY <1>1, <1>2, HistoryKept, PTL DEF HSpec, ImplementsHistory, History!Spec
=============================================================================
