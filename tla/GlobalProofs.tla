---------------------------- MODULE GlobalProofs ----------------------------
(***************************************************************************)
(* Proofs about the ex commands and :global: marks and matches follow their *)
(* lines, no match is missed, and one u takes a whole command back.         *)
(* Each line-edit primitive carries every line number along with its line,  *)
(* whatever address it is given; so does a loop of them, a command, and the *)
(* whole of :global.                                                        *)
(***************************************************************************)
EXTENDS Global, UndoHistoryProofs

\* A line is an identity and a text.
Identified == Line = [id : Nat, text : Text]

\* The number of a line, or of none.
Number == Nat \cup {Gone}

\* The states a command goes through.
EditState ==
  [lines : Buffer, recs : ChangeSet, marks : [Mark -> Number], gMarks : Seq(Number),
   gLastEdit : Int, cursor : Int, fresh : Nat, ok : BOOLEAN, ended : BOOLEAN,
   astray : BOOLEAN]

-----------------------------------------------------------------------------
(***************************************************************************)
(* Numbers of lines.                                                        *)
(***************************************************************************)

\* No two lines are the same one.
Distinct(lines) ==
  \A i, j \in 1..Len(lines) : lines[i].id = lines[j].id => i = j

\* Identities from f on are not in use.
Below(lines, f) == \A i \in 1..Len(lines) : lines[i].id < f

\* The number no means line id: it is where that line is, or the line is gone.
Points(lines, id, no) ==
  \/ no \in 1..Len(lines) /\ lines[no].id = id
  \/ no = Gone /\ \A i \in 1..Len(lines) : lines[i].id # id

\* Lines below f that are in later were in lines already.
NoneBack(lines, later, f) ==
  \A i \in 1..Len(later) :
     later[i].id < f => \E j \in 1..Len(lines) : lines[j].id = later[i].id

\* Such a number is the one the properties name.
LEMMA PointsIs ==
  ASSUME NEW lines \in Buffer, Distinct(lines), NEW id, NEW no
  PROVE  Points(lines, id, no) <=>
           no = IF id \in Ids(lines) THEN LineOf(lines, id) ELSE Gone
<1>1. DOMAIN lines = 1..Len(lines) /\ Len(lines) \in Nat
  BY DEF Buffer
<1>2. CASE id \in Ids(lines)
  <2>1. PICK k \in 1..Len(lines) : lines[k].id = id
    BY <1>1, <1>2 DEF Ids
  <2>2. LineOf(lines, id) = k
    BY <1>1, <2>1 DEF LineOf, Distinct
  <2> QED BY <1>2, <2>1, <2>2 DEF Points, Distinct
<1>3. CASE id \notin Ids(lines)
  BY <1>1, <1>3 DEF Points, Ids, Gone
<1> QED BY <1>2, <1>3

\* An insertion moves the numbers of the lines behind it; one that the store
\* moves to the end of the buffer has none behind it.
LEMMA InsertPoints ==
  ASSUME NEW s \in Buffer, NEW lno \in Nat \ {0}, NEW x \in Line,
         NEW id, id # x.id, NEW no \in Int, Points(s, id, no)
  PROVE  Points(InsertLine(s, lno, x), id, ShiftedDown(no, lno))
<1> DEFINE t == InsertLine(s, lno, x)
           k == Clamp(s, lno)
<1>1. Len(s) \in Nat /\ k = IF lno > Len(s) + 1 THEN Len(s) + 1 ELSE lno
  BY DEF Clamp, Buffer
<1>2. /\ k \in 1..(Len(s) + 1) /\ Len(t) = Len(s) + 1
      /\ \A i \in 1..Len(t) :
           t[i] = IF i < k THEN s[i] ELSE IF i = k THEN x ELSE s[i - 1]
  BY InsertLineResult
<1> HIDE DEF t, k
<1>3. CASE no \in 1..Len(s) /\ s[no].id = id
  <2>1. CASE no >= lno
    <3>1. k = lno /\ no + 1 \in 1..Len(t) /\ ~(no + 1 < k) /\ no + 1 # k
      BY <1>1, <1>2, <1>3, <2>1
    <3>2. t[no + 1] = s[no]
      BY <1>2, <1>3, <3>1
    <3> QED BY <1>3, <2>1, <3>1, <3>2 DEF Points, ShiftedDown, t
  <2>2. CASE no < lno
    <3>1. no \in 1..Len(t) /\ t[no] = s[no]
      BY <1>1, <1>2, <1>3, <2>2
    <3> QED BY <1>3, <2>2, <3>1 DEF Points, ShiftedDown, t
  <2> QED BY <1>1, <1>3, <2>1, <2>2
<1>4. CASE no = Gone /\ \A i \in 1..Len(s) : s[i].id # id
  <2>1. ASSUME NEW i \in 1..Len(t) PROVE t[i].id # id
    <3>1. i < k => i \in 1..Len(s)
      BY <1>1, <1>2
    <3>2. i > k => i - 1 \in 1..Len(s)
      BY <1>1, <1>2
    <3> QED BY <1>1, <1>2, <1>4, <3>1, <3>2
  <2>2. ShiftedDown(no, lno) = Gone
    BY <1>1, <1>4 DEF ShiftedDown, Gone
  <2> QED BY <2>1, <2>2 DEF Points, t
<1> QED BY <1>3, <1>4 DEF Points

\* The lines behind a deleted one move up, and its own number is gone.
LEMMA DeletePoints ==
  ASSUME NEW s \in Buffer, Distinct(s), NEW lno \in Nat \ {0},
         NEW id, NEW no \in Int, Points(s, id, no)
  PROVE  Points(DeleteLine(s, lno), id, ShiftedUp(no, lno))
<1> DEFINE t == DeleteLine(s, lno)
<1>1. Len(s) \in Nat
  BY DEF Buffer
<1>0. CASE lno \notin 1..Len(s)
  <2>1. t = s /\ lno > Len(s)
    BY <1>1, <1>0 DEF DeleteLine, InRange
  <2>2. ShiftedUp(no, lno) = no
    BY <1>1, <2>1 DEF ShiftedUp, Points, Gone
  <2> QED BY <2>1, <2>2
<1> SUFFICES ASSUME lno \in 1..Len(s)
             PROVE  Points(t, id, ShiftedUp(no, lno))
  BY <1>0
<1>2. /\ Len(t) = Len(s) - 1
      /\ \A i \in 1..Len(t) : t[i] = IF i < lno THEN s[i] ELSE s[i + 1]
  BY DeleteLineResult
<1> HIDE DEF t
<1>3. CASE no \in 1..Len(s) /\ s[no].id = id /\ no < lno
  <2>1. no \in 1..Len(t) /\ t[no] = s[no] /\ ShiftedUp(no, lno) = no
    BY <1>1, <1>2, <1>3 DEF ShiftedUp
  <2> QED BY <1>3, <2>1 DEF Points, t
<1>4. CASE no \in 1..Len(s) /\ s[no].id = id /\ no > lno
  <2>1. no - 1 \in 1..Len(t) /\ t[no - 1] = s[no] /\ ShiftedUp(no, lno) = no - 1
    BY <1>1, <1>2, <1>4 DEF ShiftedUp
  <2> QED BY <1>4, <2>1 DEF Points, t
<1>5. CASE no = Gone \/ no = lno
  <2>1. ShiftedUp(no, lno) = Gone
    BY <1>1, <1>5 DEF ShiftedUp, Gone
  <2>2. ASSUME NEW i \in 1..Len(t) PROVE t[i].id # id
    <3>1. PICK j \in 1..Len(s) : j # lno /\ t[i] = s[j]
      <4>1. CASE i < lno
        BY <1>1, <1>2, <4>1
      <4>2. CASE i >= lno
        <5>1. i + 1 \in 1..Len(s) /\ i + 1 # lno
          BY <1>1, <1>2, <4>2
        <5> QED BY <1>2, <4>2, <5>1
      <4> QED BY <1>1, <4>1, <4>2
    <3>2. CASE no = Gone
      BY <3>1, <3>2 DEF Points, Gone
    <3>3. CASE no = lno
      <4>1. s[lno].id = id
        BY <3>3 DEF Points, Gone
      <4> QED BY <3>1, <4>1 DEF Distinct
    <3> QED BY <1>5, <3>2, <3>3
  <2> QED BY <2>1, <2>2 DEF Points, t
<1> QED BY <1>1, <1>3, <1>4, <1>5 DEF Points

\* A line that gets another text stays the line it was.
LEMMA SetPoints ==
  ASSUME NEW s \in Buffer, NEW lno \in Int, NEW x \in Line, x.id = Get(s, lno).id
  PROVE  LET t == SetLine(s, lno, x)
         IN  /\ t \in Buffer /\ Len(t) = Len(s)
             /\ \A i \in 1..Len(s) : t[i].id = s[i].id
             /\ \A id, no : Points(s, id, no) => Points(t, id, no)
<1> DEFINE t == SetLine(s, lno, x)
<1>1. CASE lno \in 1..Len(s)
  <2>1. t = [s EXCEPT ![lno] = x] /\ x.id = s[lno].id
    BY <1>1 DEF SetLine, Get, InRange, ReplaceAt
  <2>2. t \in Buffer /\ Len(t) = Len(s) /\ \A i \in 1..Len(s) : t[i].id = s[i].id
    BY <1>1, <2>1 DEF Buffer
  <2> HIDE DEF t
  <2> QED BY <2>2 DEF Points, t
<1>2. CASE lno \notin 1..Len(s)
  BY <1>2 DEF SetLine, InRange
<1> QED BY <1>1, <1>2

\* What lines are made of.
LEMMA LineParts ==
  ASSUME Identified
  PROVE  /\ \A s \in Buffer : \A i \in 1..Len(s) :
                s[i] \in Line /\ s[i].id \in Nat /\ s[i].text \in Text
         /\ \A n \in Nat, t \in Text : [id |-> n, text |-> t] \in Line
         /\ \A x \in Line, t \in Text :
                [x EXCEPT !.text = t] \in Line /\ [x EXCEPT !.text = t].id = x.id
<1>1. \A x \in Line : x.id \in Nat /\ x.text \in Text
  BY DEF Identified
<1>2. \A s \in Buffer : \A i \in 1..Len(s) : s[i] \in Line
  BY DEF Buffer
<1>3. \A n \in Nat, t \in Text : [id |-> n, text |-> t] \in Line
  BY DEF Identified
<1>4. \A x \in Line, t \in Text :
        [x EXCEPT !.text = t] \in Line /\ [x EXCEPT !.text = t].id = x.id
  BY DEF Identified
<1> QED BY <1>1, <1>2, <1>3, <1>4

\* A new line is inserted under an identity not in use.
LEMMA InsertDistinct ==
  ASSUME NEW s \in Buffer, Distinct(s), NEW f \in Nat, Below(s, f), Identified,
         NEW lno \in Int, NEW x \in Line, x.id = f
  PROVE  LET t == InsertLine(s, lno, x)
         IN  Distinct(t) /\ Below(t, f + 1) /\ NoneBack(s, t, f)
<1> DEFINE t == InsertLine(s, lno, x)
           k == Clamp(s, lno)
<1>1. /\ k \in 1..(Len(s) + 1) /\ Len(t) = Len(s) + 1 /\ Len(s) \in Nat
      /\ \A i \in 1..Len(t) :
           t[i] = IF i < k THEN s[i] ELSE IF i = k THEN x ELSE s[i - 1]
  <2>1. /\ k \in 1..(Len(s) + 1) /\ Len(t) = Len(s) + 1
        /\ \A i \in 1..Len(t) :
             t[i] = IF i < k THEN s[i] ELSE IF i = k THEN x ELSE s[i - 1]
    BY InsertLineResult
  <2>2. Len(s) \in Nat
    BY DEF Buffer
  <2> QED BY <2>1, <2>2
<1>2. \A i \in 1..Len(s) : s[i].id \in Nat /\ s[i].id < f
  BY LineParts DEF Below
<1> HIDE DEF t, k
<1> DEFINE o(i) == IF i < k THEN i ELSE i - 1
<1>3. \A i \in 1..Len(t) : i # k => o(i) \in 1..Len(s) /\ t[i] = s[o(i)]
  BY <1>1
<1>4. t[k] = x /\ k \in 1..Len(t)
  BY <1>1
<1>5. \A i, j \in 1..Len(t) : i # k /\ j # k /\ o(i) = o(j) => i = j
  BY <1>1
<1> HIDE DEF o
<1>6. \A i \in 1..Len(t) : i # k => t[i].id < f
  BY <1>2, <1>3
<1>7. Distinct(t)
  BY <1>3, <1>4, <1>5, <1>6 DEF Distinct
<1>8. Below(t, f + 1)
  <2> SUFFICES ASSUME NEW i \in 1..Len(t) PROVE t[i].id < f + 1
    BY DEF Below
  <2>1. CASE i = k
    BY <1>4, <2>1
  <2>2. CASE i # k
    <3>1. t[i].id \in Nat /\ t[i].id < f
      BY <1>2, <1>3, <2>2
    <3> QED BY <3>1
  <2> QED BY <2>1, <2>2
<1>9. NoneBack(s, t, f)
  BY <1>3, <1>4 DEF NoneBack
<1> QED BY <1>7, <1>8, <1>9 DEF t

\* A deletion leaves a part of the lines.
LEMMA DeleteDistinct ==
  ASSUME NEW s \in Buffer, Distinct(s), NEW f \in Nat, Below(s, f), NEW lno \in Int
  PROVE  LET t == DeleteLine(s, lno)
         IN  Distinct(t) /\ Below(t, f) /\ NoneBack(s, t, f)
<1> DEFINE t == DeleteLine(s, lno)
<1>1. CASE lno \notin 1..Len(s)
  BY <1>1 DEF DeleteLine, InRange, NoneBack
<1>2. CASE lno \in 1..Len(s)
  <2>1. /\ Len(t) = Len(s) - 1 /\ Len(s) \in Nat
        /\ \A i \in 1..Len(t) : t[i] = IF i < lno THEN s[i] ELSE s[i + 1]
    BY <1>2, DeleteLineResult DEF Buffer
  <2> HIDE DEF t
  <2> DEFINE o(i) == IF i < lno THEN i ELSE i + 1
  <2>2. \A i \in 1..Len(t) : o(i) \in 1..Len(s) /\ t[i] = s[o(i)]
    BY <2>1
  <2>3. \A i, j \in 1..Len(t) : o(i) = o(j) => i = j
    BY <2>1
  <2> HIDE DEF o
  <2> QED BY <2>2, <2>3 DEF Distinct, Below, NoneBack, t
<1> QED BY <1>1, <1>2

-----------------------------------------------------------------------------
(***************************************************************************)
(* The states of a running command.                                         *)
(***************************************************************************)

Sane(e) == e \in EditState /\ Distinct(e.lines) /\ Below(e.lines, e.fresh)

\* From d to e every number has been carried along with its line, no line has
\* come back, and the records gained lead from the lines of d to those of e,
\* unless there was an edit astray.
Carries(d, e) ==
  /\ d.fresh <= e.fresh
  /\ Len(e.gMarks) = Len(d.gMarks)
  /\ \A id \in Nat : id < d.fresh =>
       /\ \A m \in Mark : Points(d.lines, id, d.marks[m]) => Points(e.lines, id, e.marks[m])
       /\ \A i \in 1..Len(d.gMarks) :
            Points(d.lines, id, d.gMarks[i]) => Points(e.lines, id, e.gMarks[i])
  /\ NoneBack(d.lines, e.lines, d.fresh)
  /\ d.astray => e.astray
  /\ ~e.astray => \A a \in Buffer : Chain(a, d.recs, d.lines) => Chain(a, e.recs, e.lines)

\* d has become e.
Leads(d, e) == Sane(e) /\ Carries(d, e)

LEMMA CarriesSame ==
  ASSUME NEW d \in EditState
  PROVE  Carries(d, d)
<1>1. d.fresh \in Nat
  BY DEF EditState
<1> QED BY <1>1 DEF Carries, NoneBack

LEMMA CarriesOn ==
  ASSUME NEW c \in EditState, NEW d \in EditState, NEW e \in EditState,
         Identified, Carries(c, d), Carries(d, e)
  PROVE  Carries(c, e)
<1>1. /\ c.fresh \in Nat /\ d.fresh \in Nat /\ e.fresh \in Nat
      /\ c.fresh <= d.fresh /\ d.fresh <= e.fresh
  BY DEF EditState, Carries
<1>2. e.lines \in Buffer
  BY DEF EditState
<1>3. Len(e.gMarks) = Len(c.gMarks)
  BY DEF Carries
<1>4. NoneBack(c.lines, e.lines, c.fresh)
  <2> SUFFICES ASSUME NEW i \in 1..Len(e.lines), e.lines[i].id < c.fresh
               PROVE  \E j \in 1..Len(c.lines) : c.lines[j].id = e.lines[i].id
    BY DEF NoneBack
  <2>1. e.lines[i].id \in Nat
    BY <1>2, LineParts
  <2>2. PICK k \in 1..Len(d.lines) : d.lines[k].id = e.lines[i].id
    BY <1>1, <2>1 DEF Carries, NoneBack
  <2> QED BY <2>2 DEF Carries, NoneBack
<1>5. ASSUME NEW id \in Nat, id < c.fresh
      PROVE  /\ \A m \in Mark : Points(c.lines, id, c.marks[m]) => Points(e.lines, id, e.marks[m])
             /\ \A i \in 1..Len(c.gMarks) :
                  Points(c.lines, id, c.gMarks[i]) => Points(e.lines, id, e.gMarks[i])
  <2>1. id < d.fresh
    BY <1>1, <1>5
  <2> QED BY <1>5, <2>1 DEF Carries
<1>6. /\ c.astray => e.astray
      /\ ~e.astray => \A a \in Buffer : Chain(a, c.recs, c.lines) => Chain(a, e.recs, e.lines)
  BY DEF Carries
<1> QED BY <1>1, <1>3, <1>4, <1>5, <1>6 DEF Carries

\* The primitives keep the form of the state, whatever the address.
LEMMA EditClosed ==
  ASSUME Identified, NEW e \in EditState, NEW lno \in Int, NEW x \in Line
  PROVE  /\ insertLine(e, lno, x) \in EditState
         /\ setLine(e, lno, x) \in EditState
         /\ lno \in Nat => deleteLine(e, lno) \in EditState
<1>1. /\ e.lines \in Buffer /\ e.recs \in ChangeSet /\ e.marks \in [Mark -> Number]
      /\ e.gMarks \in Seq(Number) /\ e.gLastEdit \in Int /\ e.fresh \in Nat
      /\ e.astray \in BOOLEAN /\ lno \in Int
  BY DEF EditState
<1>2. \A n \in Number : ShiftedDown(n, lno) \in Number /\ (lno \in Nat => ShiftedUp(n, lno) \in Number)
  BY DEF ShiftedDown, ShiftedUp, Gone, Number
<1>3. /\ [m \in DOMAIN e.marks |-> ShiftedDown(e.marks[m], lno)] \in [Mark -> Number]
      /\ lno \in Nat => [m \in DOMAIN e.marks |-> ShiftedUp(e.marks[m], lno)] \in [Mark -> Number]
  BY <1>1, <1>2
<1>4. /\ [i \in DOMAIN e.gMarks |-> ShiftedDown(e.gMarks[i], lno)] \in Seq(Number)
      /\ lno \in Nat => [i \in DOMAIN e.gMarks |-> ShiftedUp(e.gMarks[i], lno)] \in Seq(Number)
  <2>1. /\ DOMAIN e.gMarks = 1..Len(e.gMarks) /\ Len(e.gMarks) \in Nat
        /\ \A i \in 1..Len(e.gMarks) : e.gMarks[i] \in Number
    BY <1>1
  <2>2. ASSUME NEW n \in Nat, NEW f \in [1..n -> Number] PROVE f \in Seq(Number)
    OBVIOUS
  <2> QED BY <1>2, <2>1, <2>2
<1>5. /\ \A k \in Int, y \in Line : InsertLine(e.lines, k, y) \in Buffer
      /\ DeleteLine(e.lines, lno) \in Buffer
      /\ SetLine(e.lines, lno, x) \in Buffer
      /\ Get(e.lines, lno) \in Line
  BY <1>1, StoreClosed
<1>6. \A kind \in {"set", "insert", "delete"}, n \in Int, a, b \in Line :
        Logged(e, kind, n, a, b) \in ChangeSet
  BY <1>1 DEF Logged, ChangeSet, Rec
<1>7. Empty \in Line
  BY LineAssumption
<1>8. ASSUME NEW k \in Int, NEW y \in Line
      PROVE  /\ LogInsert(e, k, y) \in EditState
             /\ LogInsert(e, k, y).marks = e.marks /\ LogInsert(e, k, y).gMarks = e.gMarks
             /\ LogInsert(e, k, y).gLastEdit = e.gLastEdit
             /\ LogInsert(e, k, y).astray = e.astray
             /\ LogInsert(e, k, y).fresh = e.fresh
  <2>1. Logged(e, "insert", k, Empty, y) \in ChangeSet /\ InsertLine(e.lines, k, y) \in Buffer
    BY <1>5, <1>6, <1>7
  <2> HIDE DEF Logged
  <2> QED BY <2>1 DEF LogInsert, EditState
<1>9. insertLine(e, lno, x) \in EditState
  <2> DEFINE f == LogInsert(e, lno, x)
             off == IF lno \in 1..(Len(e.lines) + 1) THEN e.astray ELSE TRUE
             last == IF e.gMarks = <<>> THEN e.gLastEdit ELSE lno
             ms == [m \in DOMAIN e.marks |-> ShiftedDown(e.marks[m], lno)]
             gs == [i \in DOMAIN e.gMarks |-> ShiftedDown(e.gMarks[i], lno)]
  <2>1. /\ f \in EditState /\ f.marks = e.marks /\ f.gMarks = e.gMarks
        /\ f.gLastEdit = e.gLastEdit /\ f.astray = e.astray
    BY <1>1, <1>8
  <2> HIDE DEF f
  <2>2. insertLine(e, lno, x) =
          [f EXCEPT !.marks = ms, !.gMarks = gs, !.gLastEdit = last, !.astray = off]
    BY <2>1 DEF insertLine, f
  <2>3. off \in BOOLEAN /\ last \in Int
    BY <1>1
  <2>4. ms \in [Mark -> Number] /\ gs \in Seq(Number)
    BY <1>3, <1>4
  <2> HIDE DEF off, last, ms, gs
  <2> QED BY <2>1, <2>2, <2>3, <2>4 DEF EditState
<1>10. ASSUME lno \in Nat PROVE deleteLine(e, lno) \in EditState
  <2> DEFINE off == IF InRange(e.lines, lno) THEN e.astray ELSE TRUE
             last == IF e.gMarks = <<>> THEN e.gLastEdit ELSE lno
             recs == Logged(e, "delete", lno, Get(e.lines, lno), Empty)
             less == DeleteLine(e.lines, lno)
             ms == [m \in DOMAIN e.marks |-> ShiftedUp(e.marks[m], lno)]
             gs == [i \in DOMAIN e.gMarks |-> ShiftedUp(e.gMarks[i], lno)]
  <2>1. recs \in ChangeSet
    BY <1>1, <1>5, <1>6, <1>7
  <2>2. off \in BOOLEAN /\ last \in Int
    BY <1>1
  <2>3. less \in Buffer /\ ms \in [Mark -> Number] /\ gs \in Seq(Number)
    BY <1>3, <1>4, <1>5, <1>10
  <2>4. deleteLine(e, lno) =
          [e EXCEPT !.lines = less, !.recs = recs, !.marks = ms, !.gMarks = gs,
                    !.gLastEdit = last, !.astray = off]
    BY DEF deleteLine
  <2> HIDE DEF off, last, recs, less, ms, gs
  <2> QED BY <2>1, <2>2, <2>3, <2>4 DEF EditState
<1>11. setLine(e, lno, x) \in EditState
  <2>1. CASE e.lines = <<>>
    <3> DEFINE y == [x EXCEPT !.id = e.fresh]
               f == LogInsert(e, 1, y)
    <3>1. y \in Line /\ e.fresh + 1 \in Nat
      BY <1>1 DEF Identified
    <3> HIDE DEF y
    <3>2. f \in EditState
      BY <1>8, <3>1
    <3>3. f.fresh = e.fresh
      BY <1>8, <3>1
    <3>4. setLine(e, lno, x) = [f EXCEPT !.fresh = f.fresh + 1]
      BY <2>1 DEF setLine, y
    <3> HIDE DEF f
    <3> QED BY <3>1, <3>2, <3>3, <3>4 DEF EditState
  <2>2. CASE e.lines # <<>>
    <3>1. Logged(e, "set", lno, Get(e.lines, lno),
                 IF InRange(e.lines, lno) THEN x ELSE Empty) \in ChangeSet
      BY <1>1, <1>5, <1>6, <1>7
    <3> HIDE DEF Logged
    <3> QED BY <1>5, <2>2, <3>1 DEF setLine, EditState
  <2> QED BY <2>1, <2>2
<1> QED BY <1>9, <1>10, <1>11

\* A record is added to those of the command.
LEMMA RecordAdded ==
  ASSUME NEW d \in EditState, NEW r \in Rec, NEW recs, NEW lines,
         recs = Append(d.recs, r), lines = Replayed(d.lines, r),
         d.lines = Reverted(lines, r), NEW a \in Buffer, Chain(a, d.recs, d.lines)
  PROVE  Chain(a, recs, lines)
<1>1. d.recs \in ChangeSet /\ d.lines \in Buffer
  BY DEF EditState
<1> QED BY <1>1, ChainExtend

LEMMA DeleteCarries ==
  ASSUME Identified, NEW d, Sane(d), NEW lno \in Nat \ {0}
  PROVE  Leads(d, deleteLine(d, lno))
<1> DEFINE e == deleteLine(d, lno)
           r == [kind |-> "delete", lno |-> lno, before |-> Get(d.lines, lno), after |-> Empty]
<1>1. /\ d \in EditState /\ d.lines \in Buffer /\ d.fresh \in Nat /\ d.gMarks \in Seq(Number)
      /\ d.marks \in [Mark -> Number] /\ Distinct(d.lines) /\ Below(d.lines, d.fresh)
      /\ lno \in Int /\ Number \subseteq Int /\ d.astray \in BOOLEAN
  BY DEF Sane, EditState, Number, Gone
<1>2. e \in EditState
  BY <1>1, LineAssumption, EditClosed
<1>3. /\ e.lines = DeleteLine(d.lines, lno)
      /\ e.recs = Append(d.recs, r)
      /\ e.marks = [m \in DOMAIN d.marks |-> ShiftedUp(d.marks[m], lno)]
      /\ e.gMarks = [i \in DOMAIN d.gMarks |-> ShiftedUp(d.gMarks[i], lno)]
      /\ e.fresh = d.fresh
      /\ e.astray = IF InRange(d.lines, lno) THEN d.astray ELSE TRUE
  BY <1>1 DEF deleteLine, Logged, EditState
<1> HIDE DEF e
<1>4. Distinct(e.lines) /\ Below(e.lines, e.fresh) /\ NoneBack(d.lines, e.lines, d.fresh)
  BY <1>1, <1>3, DeleteDistinct
<1>5. Len(e.gMarks) = Len(d.gMarks)
  BY <1>1, <1>3
<1>6. ASSUME ~e.astray, NEW a \in Buffer, Chain(a, d.recs, d.lines)
      PROVE  Chain(a, e.recs, e.lines)
  <2>1. r \in Rec
    BY <1>1, StoreClosed, LineAssumption DEF Rec
  <2>2. r.before = d.lines[lno] /\ lno \in 1..Len(d.lines)
    BY <1>3, <1>6 DEF Get, InRange
  <2>3. e.lines = Replayed(d.lines, r) /\ Reverted(e.lines, r) = InsertLine(e.lines, lno, d.lines[lno])
    BY <1>3, <2>2 DEF Replayed, Reverted
  <2>4. d.lines = Reverted(e.lines, r)
    BY <1>1, <1>3, <2>2, <2>3, InsertUndoesDelete
  <2> HIDE DEF r
  <2> QED BY <1>1, <1>3, <1>6, <2>1, <2>3, <2>4, RecordAdded
<1>7. \A id \in Nat : id < d.fresh =>
        /\ \A m \in Mark : Points(d.lines, id, d.marks[m]) => Points(e.lines, id, e.marks[m])
        /\ \A i \in 1..Len(d.gMarks) :
             Points(d.lines, id, d.gMarks[i]) => Points(e.lines, id, e.gMarks[i])
  <2> SUFFICES ASSUME NEW id \in Nat, id < d.fresh
               PROVE  /\ \A m \in Mark : Points(d.lines, id, d.marks[m])
                                           => Points(e.lines, id, e.marks[m])
                      /\ \A i \in 1..Len(d.gMarks) :
                           Points(d.lines, id, d.gMarks[i]) => Points(e.lines, id, e.gMarks[i])
    OBVIOUS
  <2>1. \A m \in Mark : d.marks[m] \in Int /\ e.marks[m] = ShiftedUp(d.marks[m], lno)
    BY <1>1, <1>3
  <2>2. ASSUME NEW i \in 1..Len(d.gMarks)
        PROVE  d.gMarks[i] \in Int /\ e.gMarks[i] = ShiftedUp(d.gMarks[i], lno)
    <3>1. d.gMarks[i] \in Number /\ i \in DOMAIN d.gMarks
      BY <1>1
    <3> QED BY <1>1, <1>3, <3>1
  <2>3. \A no \in Int : Points(d.lines, id, no) => Points(e.lines, id, ShiftedUp(no, lno))
    BY <1>1, <1>3, DeletePoints
  <2> QED BY <2>1, <2>2, <2>3
<1>8. d.fresh <= e.fresh /\ (d.astray => e.astray)
  BY <1>1, <1>3
<1> QED BY <1>2, <1>4, <1>5, <1>6, <1>7, <1>8 DEF Leads, Sane, Carries, e

LEMMA AppendClosed ==
  ASSUME Identified, NEW d \in EditState, NEW at \in Int, NEW text \in Text
  PROVE  AppendText(d, at, text) \in EditState
<1>1. d.fresh \in Nat /\ at + 1 \in Int
  BY DEF EditState
<1>2. [id |-> d.fresh, text |-> text] \in Line
  BY <1>1, LineParts
<1>3. appendLine(d, at, [id |-> d.fresh, text |-> text]) \in EditState
  BY <1>1, <1>2, EditClosed DEF appendLine
<1> DEFINE f == appendLine(d, at, [id |-> d.fresh, text |-> text])
<1>4. f \in EditState /\ f.fresh + 1 \in Nat
  BY <1>3 DEF EditState
<1>5. AppendText(d, at, text) = [f EXCEPT !.fresh = f.fresh + 1]
  BY DEF AppendText
<1> HIDE DEF f
<1> QED BY <1>4, <1>5 DEF EditState

LEMMA AppendCarries ==
  ASSUME Identified, NEW d, Sane(d), NEW at \in Nat, NEW text \in Text
  PROVE  LET e == AppendText(d, at, text)
         IN  Leads(d, e) /\ Len(e.lines) = Len(d.lines) + 1
<1> DEFINE e == AppendText(d, at, text)
           lno == at + 1
           x == [id |-> d.fresh, text |-> text]
           r == [kind |-> "insert", lno |-> lno, before |-> Empty, after |-> x]
<1>1. /\ d \in EditState /\ d.lines \in Buffer /\ d.fresh \in Nat /\ d.gMarks \in Seq(Number)
      /\ d.marks \in [Mark -> Number] /\ Distinct(d.lines) /\ Below(d.lines, d.fresh)
      /\ lno \in Nat \ {0} /\ lno \in Int /\ Number \subseteq Int /\ d.astray \in BOOLEAN
  BY DEF Sane, EditState, Number, Gone
<1>2. x \in Line /\ x.id = d.fresh
  BY <1>1, LineParts
<1>3. e \in EditState
  BY <1>1, AppendClosed
<1>4. /\ e.lines = InsertLine(d.lines, lno, x)
      /\ e.recs = Append(d.recs, r)
      /\ e.marks = [m \in DOMAIN d.marks |-> ShiftedDown(d.marks[m], lno)]
      /\ e.gMarks = [i \in DOMAIN d.gMarks |-> ShiftedDown(d.gMarks[i], lno)]
      /\ e.fresh = d.fresh + 1
      /\ e.astray = IF lno \in 1..(Len(d.lines) + 1) THEN d.astray ELSE TRUE
  <2> HIDE DEF lno, x
  <2> DEFINE f == insertLine(d, lno, x)
  <2>1. /\ f.lines = InsertLine(d.lines, lno, x)
        /\ f.recs = Append(d.recs, r)
        /\ f.marks = [m \in DOMAIN d.marks |-> ShiftedDown(d.marks[m], lno)]
        /\ f.gMarks = [i \in DOMAIN d.gMarks |-> ShiftedDown(d.gMarks[i], lno)]
        /\ f.fresh = d.fresh
        /\ f.astray = IF lno \in 1..(Len(d.lines) + 1) THEN d.astray ELSE TRUE
    BY <1>1 DEF insertLine, LogInsert, Logged, EditState
  <2>2. f \in EditState
    BY <1>1, <1>2, EditClosed
  <2>3. e = [f EXCEPT !.fresh = @ + 1]
    BY DEF AppendText, appendLine, lno, x
  <2> HIDE DEF f, e, r
  <2> QED BY <2>1, <2>2, <2>3 DEF EditState
<1> HIDE DEF e, lno, x
<1>5. Len(e.lines) = Len(d.lines) + 1
  BY <1>1, <1>2, <1>4, InsertLineResult
<1>6. Distinct(e.lines) /\ Below(e.lines, e.fresh) /\ NoneBack(d.lines, e.lines, d.fresh)
  BY <1>1, <1>2, <1>4, InsertDistinct
<1>7. Len(e.gMarks) = Len(d.gMarks)
  BY <1>1, <1>4
<1>8. ASSUME ~e.astray, NEW a \in Buffer, Chain(a, d.recs, d.lines)
      PROVE  Chain(a, e.recs, e.lines)
  <2>1. r \in Rec
    BY <1>1, <1>2, LineAssumption DEF Rec
  <2>2. e.lines = Replayed(d.lines, r) /\ Reverted(e.lines, r) = DeleteLine(e.lines, lno)
    BY <1>4 DEF Replayed, Reverted
  <2>3. DeleteLine(InsertLine(d.lines, lno, x), lno) = d.lines
    BY <1>1, <1>2, <1>4, <1>8, DeleteUndoesInsert
  <2>4. d.lines = Reverted(e.lines, r)
    BY <1>4, <2>2, <2>3
  <2> HIDE DEF r
  <2> QED BY <1>1, <1>4, <1>8, <2>1, <2>2, <2>4, RecordAdded
<1>9. \A id \in Nat : id < d.fresh =>
        /\ \A m \in Mark : Points(d.lines, id, d.marks[m]) => Points(e.lines, id, e.marks[m])
        /\ \A i \in 1..Len(d.gMarks) :
             Points(d.lines, id, d.gMarks[i]) => Points(e.lines, id, e.gMarks[i])
  <2> SUFFICES ASSUME NEW id \in Nat, id < d.fresh
               PROVE  /\ \A m \in Mark : Points(d.lines, id, d.marks[m])
                                           => Points(e.lines, id, e.marks[m])
                      /\ \A i \in 1..Len(d.gMarks) :
                           Points(d.lines, id, d.gMarks[i]) => Points(e.lines, id, e.gMarks[i])
    OBVIOUS
  <2>1. \A m \in Mark : d.marks[m] \in Int /\ e.marks[m] = ShiftedDown(d.marks[m], lno)
    BY <1>1, <1>4
  <2>2. ASSUME NEW i \in 1..Len(d.gMarks)
        PROVE  d.gMarks[i] \in Int /\ e.gMarks[i] = ShiftedDown(d.gMarks[i], lno)
    <3>1. d.gMarks[i] \in Number /\ i \in DOMAIN d.gMarks
      BY <1>1
    <3> QED BY <1>1, <1>4, <3>1
  <2>3. id # x.id
    BY <1>1, <1>2
  <2>4. \A no \in Int : Points(d.lines, id, no) => Points(e.lines, id, ShiftedDown(no, lno))
    BY <1>1, <1>2, <1>4, <2>3, InsertPoints
  <2> QED BY <2>1, <2>2, <2>4
<1>10. d.fresh <= e.fresh /\ (d.astray => e.astray)
  BY <1>1, <1>4
<1> QED BY <1>3, <1>5, <1>6, <1>7, <1>8, <1>9, <1>10 DEF Leads, Sane, Carries, e

LEMMA InsertLonger ==
  ASSUME NEW s \in Buffer, NEW lno \in Int, NEW x \in Line
  PROVE  Len(InsertLine(s, lno, x)) = Len(s) + 1
BY InsertLineResult

\* The first line of an empty buffer is a new one, and no number was a line's.
LEMMA FirstLineCarries ==
  ASSUME Identified, NEW d, Sane(d), d.lines = <<>>, NEW lno \in Nat \ {0}, NEW x \in Line
  PROVE  LET e == setLine(d, lno, x)
         IN  Leads(d, e) /\ Len(e.lines) = 1
<1> DEFINE y == [x EXCEPT !.id = d.fresh]
           e == setLine(d, lno, x)
           r == [kind |-> "insert", lno |-> 1, before |-> Empty, after |-> y]
<1>1. /\ d \in EditState /\ d.lines \in Buffer /\ d.fresh \in Nat /\ d.gMarks \in Seq(Number)
      /\ d.marks \in [Mark -> Number] /\ Distinct(d.lines) /\ Below(d.lines, d.fresh)
      /\ Number \subseteq Int /\ Len(d.lines) = 0
  BY DEF Sane, EditState, Number, Gone
<1>2. y \in Line /\ y.id = d.fresh
  BY <1>1 DEF Identified
<1>3. e \in EditState
  BY <1>1, EditClosed
<1>4. /\ e.lines = InsertLine(d.lines, 1, y)
      /\ e.recs = Append(d.recs, r)
      /\ e.marks = d.marks /\ e.gMarks = d.gMarks
      /\ e.fresh = d.fresh + 1
      /\ e.astray = d.astray
  <2> HIDE DEF y
  <2> DEFINE f == LogInsert(d, 1, y)
  <2>1. /\ f.lines = InsertLine(d.lines, 1, y)
        /\ f.recs = Append(d.recs, r)
        /\ f.marks = d.marks /\ f.gMarks = d.gMarks
        /\ f.fresh = d.fresh /\ f.astray = d.astray
        /\ DOMAIN f = DOMAIN d
    BY <1>1 DEF LogInsert, Logged, EditState
  <2>2. e = [f EXCEPT !.fresh = @ + 1]
    BY DEF setLine, y
  <2> HIDE DEF f, e, r
  <2> QED BY <1>1, <2>1, <2>2 DEF EditState
<1> HIDE DEF e, y
<1>5. Len(e.lines) = 1
  <2>1. d.lines \in Buffer /\ y \in Line /\ 1 \in Int
    BY <1>1, <1>2
  <2>2. Len(InsertLine(d.lines, 1, y)) = Len(d.lines) + 1
    BY <2>1, InsertLonger, Zenon
  <2> QED BY <1>1, <1>4, <2>2
<1>6. Distinct(e.lines) /\ Below(e.lines, e.fresh) /\ NoneBack(d.lines, e.lines, d.fresh)
  BY <1>1, <1>2, <1>4, InsertDistinct
<1>7. ASSUME NEW a \in Buffer, Chain(a, d.recs, d.lines)
      PROVE  Chain(a, e.recs, e.lines)
  <2>1. r \in Rec
    BY <1>2, LineAssumption DEF Rec
  <2>2. e.lines = Replayed(d.lines, r) /\ Reverted(e.lines, r) = DeleteLine(e.lines, 1)
    BY <1>4 DEF Replayed, Reverted
  <2>3. DeleteLine(InsertLine(d.lines, 1, y), 1) = d.lines
    BY <1>1, <1>2, DeleteUndoesInsert
  <2>4. d.lines = Reverted(e.lines, r)
    BY <1>4, <2>2, <2>3
  <2> HIDE DEF r
  <2> QED BY <1>1, <1>4, <1>7, <2>1, <2>2, <2>4, RecordAdded
<1>8. ASSUME NEW id \in Nat, id < d.fresh, NEW no, Points(d.lines, id, no)
      PROVE  Points(e.lines, id, no)
  <2>1. no = Gone /\ id # y.id
    BY <1>1, <1>2, <1>8 DEF Points
  <2>2. ShiftedDown(no, 1) = no /\ no \in Int
    BY <2>1 DEF ShiftedDown, Gone
  <2>3. Points(e.lines, id, ShiftedDown(no, 1))
    BY <1>1, <1>2, <1>4, <1>8, <2>1, <2>2, InsertPoints
  <2> QED BY <2>2, <2>3
<1>9. d.fresh <= e.fresh
  BY <1>1, <1>4
<1>10. Carries(d, e)
  BY <1>4, <1>6, <1>7, <1>8, <1>9 DEF Carries
<1> QED BY <1>3, <1>5, <1>6, <1>10 DEF Leads, Sane, e

\* Line lno gets another text.
LEMMA SetCarries ==
  ASSUME Identified, NEW d, Sane(d), NEW lno \in Nat \ {0}, NEW text \in Text
  PROVE  LET e == setLine(d, lno, [Get(d.lines, lno) EXCEPT !.text = text])
         IN  Leads(d, e) /\ Len(e.lines) >= Len(d.lines)
<1> DEFINE x == [Get(d.lines, lno) EXCEPT !.text = text]
           y == IF InRange(d.lines, lno) THEN x ELSE Empty
           e == setLine(d, lno, x)
           r == [kind |-> "set", lno |-> lno, before |-> Get(d.lines, lno), after |-> y]
<1>1. /\ d \in EditState /\ d.lines \in Buffer /\ d.fresh \in Nat /\ d.gMarks \in Seq(Number)
      /\ d.marks \in [Mark -> Number] /\ Distinct(d.lines) /\ Below(d.lines, d.fresh)
      /\ lno \in Int /\ Len(d.lines) \in Nat
  BY DEF Sane, EditState, Buffer
<1>2. x \in Line /\ x.id = Get(d.lines, lno).id
  BY <1>1, StoreClosed, LineAssumption, LineParts
<1>3. CASE d.lines = <<>>
  BY <1>1, <1>2, <1>3, FirstLineCarries
<1>4. CASE d.lines # <<>>
  <2> HIDE DEF x
  <2>1. e \in EditState
    BY <1>1, <1>2, EditClosed
  <2>2. /\ e.lines = SetLine(d.lines, lno, x)
        /\ e.recs = Append(d.recs, r)
        /\ e.marks = d.marks /\ e.gMarks = d.gMarks
        /\ e.fresh = d.fresh /\ e.astray = d.astray
    BY <1>1, <1>4 DEF setLine, Logged, EditState
  <2> HIDE DEF e
  <2>3. /\ Len(e.lines) = Len(d.lines)
        /\ \A i \in 1..Len(d.lines) : e.lines[i].id = d.lines[i].id
        /\ \A id, no : Points(d.lines, id, no) => Points(e.lines, id, no)
    BY <1>1, <1>2, <2>2, SetPoints
  <2>4. Distinct(e.lines) /\ Below(e.lines, e.fresh) /\ NoneBack(d.lines, e.lines, d.fresh)
    BY <1>1, <2>2, <2>3 DEF Distinct, Below, NoneBack
  <2>5. ASSUME NEW a \in Buffer, Chain(a, d.recs, d.lines)
        PROVE  Chain(a, e.recs, e.lines)
    <3>1. y \in Line /\ SetLine(d.lines, lno, y) = SetLine(d.lines, lno, x)
      BY <1>2, LineAssumption DEF SetLine
    <3> HIDE DEF y
    <3>2. r \in Rec
      BY <1>1, <3>1, StoreClosed, LineAssumption DEF Rec
    <3>3. /\ e.lines = Replayed(d.lines, r)
          /\ Reverted(e.lines, r) = SetLine(e.lines, lno, Get(d.lines, lno))
      BY <2>2, <3>1 DEF Replayed, Reverted
    <3>4. d.lines = Reverted(e.lines, r)
      BY <1>1, <1>2, <2>2, <3>3, SetUndoesSet
    <3> HIDE DEF r
    <3> QED BY <1>1, <2>2, <2>5, <3>2, <3>3, <3>4, RecordAdded
  <2>6. d.fresh <= e.fresh
    BY <1>1, <2>2
  <2>7. Carries(d, e)
    BY <2>2, <2>3, <2>4, <2>5, <2>6 DEF Carries
  <2> QED BY <1>1, <2>1, <2>3, <2>4, <2>7 DEF Leads, Sane, e, x
<1> QED BY <1>3, <1>4

LEMMA LeadsOn ==
  ASSUME Identified, NEW c, NEW d, NEW e, Sane(c), Leads(c, d), Leads(d, e)
  PROVE  Leads(c, e)
BY CarriesOn DEF Leads, Sane

-----------------------------------------------------------------------------
(***************************************************************************)
(* Loops of the primitives.                                                 *)
(***************************************************************************)

OnRounds(u, n) == u = [i \in 0..n |-> u[i]]

\* A loop that agrees with t round by round is t.
LEMMA SameRounds ==
  ASSUME NEW n \in Nat, NEW B, NEW t \in [0..n -> B], NEW u,
         OnRounds(u, n), u[0] = t[0],
         \A i \in 1..n : u[i - 1] = t[i - 1] => u[i] = t[i]
  PROVE  u = t
<1> DEFINE T == {m \in 0..n : u[m] = t[m]}
<1>1. InductiveUpTo(n, T)
  <2>1. 0 \in T /\ \A m \in 1..n : m - 1 \in 0..n /\ m \in 0..n
    OBVIOUS
  <2>2. \A m \in 1..n : u[m - 1] = t[m - 1] => u[m] = t[m]
    OBVIOUS
  <2> QED BY <2>1, <2>2 DEF InductiveUpTo
<1>2. 0..n \subseteq T
  <2> HIDE DEF T
  <2> QED BY <1>1, IntervalInduction
<1>3. \A m \in 0..n : u[m] = t[m]
  BY <1>2
<1>4. t = [i \in 0..n |-> t[i]] /\ u = [i \in 0..n |-> u[i]]
  BY DEF OnRounds
<1> QED BY <1>3, <1>4

\* The lines l1 to l2 are deleted, the last one first.
LEMMA DeleteLinesLead ==
  ASSUME Identified, NEW d, Sane(d), NEW l1 \in Nat \ {0}, NEW l2 \in Nat, l1 <= l2
  PROVE  Leads(d, deleteLines(d, l1, l2))
<1> DEFINE n == l2 - l1 + 1
           F == [i \in 1..n |-> [c \in EditState |-> deleteLine(c, l2 - i + 1)]]
           u == Rounds(d, n, LAMBDA c, i : deleteLine(c, l2 - i + 1))
           Steps(v) == v = [i \in 0..n |-> IF i = 0 THEN d ELSE deleteLine(v[i - 1], l2 - i + 1)]
<1>1. /\ d \in EditState /\ n \in Nat
      /\ \A i \in 1..n : l2 - i + 1 \in Nat \ {0}
  BY DEF Sane
<1>2. F \in Stepper(n, EditState)
  <2>1. \A c \in EditState, k \in Nat \ {0} : deleteLine(c, k) \in EditState
    BY LineAssumption, EditClosed
  <2> QED BY <1>1, <2>1 DEF Stepper
<1>3. \A c \in EditState, i \in 1..n : F[i][c] = deleteLine(c, l2 - i + 1)
  OBVIOUS
<1> HIDE DEF F
<1>4. PICK t \in [0..n -> EditState] : IsCourse(t, n, d, F)
  BY <1>1, <1>2, CourseExists
<1>5. t[0] = d /\ \A i \in 1..n : t[i] = deleteLine(t[i - 1], l2 - i + 1)
  <2>1. \A i \in 1..n : t[i - 1] \in EditState
    BY <1>1, <1>4
  <2> QED BY <1>3, <1>4, <2>1 DEF IsCourse
<1>6. u = t
  <2>1. u = CHOOSE v : Steps(v)
    BY DEF Rounds
  <2>2. Steps(t)
    <3>1. \A i \in 0..n : i # 0 => i \in 1..n
      BY <1>1
    <3> QED BY <1>5, <3>1
  <2>3. Steps(u)
    <3> HIDE DEF Steps, u
    <3> QED BY <2>1, <2>2
  <2>4. u[0] = d /\ \A i \in 1..n : u[i] = deleteLine(u[i - 1], l2 - i + 1)
    <3> HIDE DEF u
    <3> QED BY <1>1, <2>3
  <2>5. OnRounds(u, n)
    <3> HIDE DEF u
    <3> QED BY <2>3 DEF OnRounds
  <2> HIDE DEF u, n
  <2>6. u[0] = t[0] /\ \A i \in 1..n : u[i - 1] = t[i - 1] => u[i] = t[i]
    BY <1>5, <2>4
  <2> QED BY <1>1, <1>4, <2>5, <2>6, SameRounds
<1>7. deleteLines(d, l1, l2) = t[n]
  BY <1>6 DEF deleteLines
<1> DEFINE T == {m \in 0..n : Leads(d, t[m])}
<1>8. InductiveUpTo(n, T)
  <2>1. 0 \in T
    BY <1>1, <1>5, CarriesSame DEF Leads
  <2>2. ASSUME NEW m \in 1..n, m - 1 \in T PROVE m \in T
    <3>1. /\ Leads(d, t[m - 1]) /\ t[m] = deleteLine(t[m - 1], l2 - m + 1)
          /\ l2 - m + 1 \in Nat \ {0}
      BY <1>1, <1>5, <2>2
    <3>2. Leads(t[m - 1], t[m])
      BY <3>1, DeleteCarries DEF Leads
    <3> QED BY <3>1, <3>2, LeadsOn
  <2> QED BY <2>1, <2>2 DEF InductiveUpTo
<1>9. n \in T
  <2> HIDE DEF T
  <2> QED BY <1>1, <1>8, IntervalInduction
<1> QED BY <1>7, <1>9

\* New lines with the texts are appended one behind the other.
LEMMA AppendTextsLead ==
  ASSUME Identified, NEW d, Sane(d), NEW at \in Nat, NEW texts \in Seq(Text)
  PROVE  Leads(d, AppendTexts(d, at, texts))
<1> DEFINE n == Len(texts)
           F == [i \in 1..n |-> [c \in EditState |-> AppendText(c, at + i - 1, texts[i])]]
           u == Rounds(d, n, LAMBDA c, i : AppendText(c, at + i - 1, texts[i]))
           Steps(v) == v = [i \in 0..n |-> IF i = 0 THEN d
                                          ELSE AppendText(v[i - 1], at + i - 1, texts[i])]
<1>1. /\ d \in EditState /\ n \in Nat
      /\ \A i \in 1..n : at + i - 1 \in Nat /\ texts[i] \in Text
  BY DEF Sane
<1>2. F \in Stepper(n, EditState)
  <2>1. \A c \in EditState, k \in Nat, x \in Text : AppendText(c, k, x) \in EditState
    BY AppendClosed
  <2> QED BY <1>1, <2>1 DEF Stepper
<1>3. \A c \in EditState, i \in 1..n : F[i][c] = AppendText(c, at + i - 1, texts[i])
  OBVIOUS
<1> HIDE DEF F
<1>4. PICK t \in [0..n -> EditState] : IsCourse(t, n, d, F)
  BY <1>1, <1>2, CourseExists
<1>5. t[0] = d /\ \A i \in 1..n : t[i] = AppendText(t[i - 1], at + i - 1, texts[i])
  <2>1. \A i \in 1..n : t[i - 1] \in EditState
    BY <1>1, <1>4
  <2> QED BY <1>3, <1>4, <2>1 DEF IsCourse
<1>6. u = t
  <2>1. u = CHOOSE v : Steps(v)
    BY DEF Rounds
  <2>2. Steps(t)
    <3>1. \A i \in 0..n : i # 0 => i \in 1..n
      BY <1>1
    <3> QED BY <1>5, <3>1
  <2>3. Steps(u)
    <3> HIDE DEF Steps, u
    <3> QED BY <2>1, <2>2
  <2>4. u[0] = d /\ \A i \in 1..n : u[i] = AppendText(u[i - 1], at + i - 1, texts[i])
    <3> HIDE DEF u
    <3> QED BY <1>1, <2>3
  <2>5. OnRounds(u, n)
    <3> HIDE DEF u
    <3> QED BY <2>3 DEF OnRounds
  <2> HIDE DEF u, n
  <2>6. u[0] = t[0] /\ \A i \in 1..n : u[i - 1] = t[i - 1] => u[i] = t[i]
    BY <1>5, <2>4
  <2> QED BY <1>1, <1>4, <2>5, <2>6, SameRounds
<1>7. AppendTexts(d, at, texts) = t[n]
  BY <1>6 DEF AppendTexts
<1> DEFINE T == {m \in 0..n : Leads(d, t[m])}
<1>8. InductiveUpTo(n, T)
  <2>1. 0 \in T
    BY <1>1, <1>5, CarriesSame DEF Leads
  <2>2. ASSUME NEW m \in 1..n, m - 1 \in T PROVE m \in T
    <3>1. /\ Leads(d, t[m - 1]) /\ t[m] = AppendText(t[m - 1], at + m - 1, texts[m])
          /\ at + m - 1 \in Nat /\ texts[m] \in Text
      BY <1>1, <1>5, <2>2
    <3>2. Leads(t[m - 1], t[m])
      BY <3>1, AppendCarries DEF Leads
    <3> QED BY <3>1, <3>2, LeadsOn
  <2> QED BY <2>1, <2>2 DEF InductiveUpTo
<1>9. n \in T
  <2> HIDE DEF T
  <2> QED BY <1>1, <1>8, IntervalInduction
<1> QED BY <1>7, <1>9

\* The joined text is one of the texts.
LEMMA JoinClosed ==
  ASSUME Identified, NEW d \in EditState, NEW lno \in Nat \ {0}
  PROVE  /\ Joined(Get(d.lines, lno).text, Get(d.lines, lno + 1).text) \in Text
         /\ JoinNext(d, lno) \in EditState
<1>1. d.lines \in Buffer
  BY DEF EditState
<1>2. \A k \in Int : Get(d.lines, k) \in Line /\ Get(d.lines, k).text \in Text
  BY <1>1, StoreClosed, LineAssumption DEF Identified
<1>3. Joined(Get(d.lines, lno).text, Get(d.lines, lno + 1).text) \in Text
  BY <1>2 DEF Joined
<1> DEFINE x == [Get(d.lines, lno) EXCEPT
                   !.text = Joined(Get(d.lines, lno).text, Get(d.lines, lno + 1).text)]
<1>4. x \in Line
  BY <1>2, <1>3, LineParts
<1>5. JoinNext(d, lno) = deleteLine(setLine(d, lno, x), lno + 1)
  BY DEF JoinNext
<1> HIDE DEF x
<1>6. setLine(d, lno, x) \in EditState
  BY <1>4, EditClosed
<1>7. deleteLine(setLine(d, lno, x), lno + 1) \in EditState
  <2>1. lno + 1 \in Nat \ {0}
    OBVIOUS
  <2> QED BY <1>6, <2>1, LineAssumption, EditClosed
<1> QED BY <1>3, <1>5, <1>7

\* A line is joined with the one behind it.
LEMMA JoinNextLeads ==
  ASSUME Identified, NEW d, Sane(d), NEW lno \in Nat \ {0}
  PROVE  Leads(d, JoinNext(d, lno))
<1> DEFINE text == Joined(Get(d.lines, lno).text, Get(d.lines, lno + 1).text)
           c == setLine(d, lno, [Get(d.lines, lno) EXCEPT !.text = text])
<1>1. text \in Text
  BY JoinClosed DEF Sane
<1>2. JoinNext(d, lno) = deleteLine(c, lno + 1)
  BY DEF JoinNext
<1> HIDE DEF text
<1>3. Leads(d, c)
  BY <1>1, SetCarries
<1> HIDE DEF c
<1>4. Leads(c, deleteLine(c, lno + 1))
  <2>1. lno + 1 \in Nat \ {0}
    OBVIOUS
  <2> QED BY <1>3, <2>1, DeleteCarries DEF Leads
<1> QED BY <1>2, <1>3, <1>4, LeadsOn

\* n lines are joined to line lno.
LEMMA JoinLeads ==
  ASSUME Identified, NEW d, Sane(d), NEW lno \in Nat \ {0}, NEW n \in Nat
  PROVE  Leads(d, Rounds(d, n, LAMBDA c, i : JoinNext(c, lno))[n])
<1> DEFINE F == [i \in 1..n |-> [c \in EditState |-> JoinNext(c, lno)]]
           u == Rounds(d, n, LAMBDA c, i : JoinNext(c, lno))
           Steps(v) == v = [i \in 0..n |-> IF i = 0 THEN d ELSE JoinNext(v[i - 1], lno)]
<1>1. d \in EditState
  BY DEF Sane
<1>2. F \in Stepper(n, EditState)
  <2>1. \A c \in EditState : JoinNext(c, lno) \in EditState
    BY JoinClosed
  <2> QED BY <2>1 DEF Stepper
<1>3. \A c \in EditState, i \in 1..n : F[i][c] = JoinNext(c, lno)
  OBVIOUS
<1> HIDE DEF F
<1>4. PICK t \in [0..n -> EditState] : IsCourse(t, n, d, F)
  BY <1>1, <1>2, CourseExists
<1>5. t[0] = d /\ \A i \in 1..n : t[i] = JoinNext(t[i - 1], lno)
  <2>1. \A i \in 1..n : t[i - 1] \in EditState
    BY <1>1, <1>4
  <2> QED BY <1>3, <1>4, <2>1 DEF IsCourse
<1>6. u = t
  <2>1. u = CHOOSE v : Steps(v)
    BY DEF Rounds
  <2>2. Steps(t)
    <3>1. \A i \in 0..n : i # 0 => i \in 1..n
      BY <1>1
    <3> QED BY <1>5, <3>1
  <2>3. Steps(u)
    <3> HIDE DEF Steps, u
    <3> QED BY <2>1, <2>2
  <2>4. u[0] = d /\ \A i \in 1..n : u[i] = JoinNext(u[i - 1], lno)
    <3> HIDE DEF u
    <3> QED BY <1>1, <2>3
  <2>5. OnRounds(u, n)
    <3> HIDE DEF u
    <3> QED BY <2>3 DEF OnRounds
  <2> HIDE DEF u
  <2>6. u[0] = t[0] /\ \A i \in 1..n : u[i - 1] = t[i - 1] => u[i] = t[i]
    BY <1>5, <2>4
  <2> QED BY <1>1, <1>4, <2>5, <2>6, SameRounds
<1> DEFINE T == {m \in 0..n : Leads(d, t[m])}
<1>7. InductiveUpTo(n, T)
  <2>1. 0 \in T
    BY <1>1, <1>5, CarriesSame DEF Leads
  <2>2. ASSUME NEW m \in 1..n, m - 1 \in T PROVE m \in T
    <3>1. Leads(d, t[m - 1]) /\ t[m] = JoinNext(t[m - 1], lno)
      BY <1>5, <2>2
    <3>2. Leads(t[m - 1], t[m])
      BY <3>1, JoinNextLeads DEF Leads
    <3> QED BY <3>1, <3>2, LeadsOn
  <2> QED BY <2>1, <2>2 DEF InductiveUpTo
<1>8. n \in T
  <2> HIDE DEF T
  <2> QED BY <1>7, IntervalInduction
<1> QED BY <1>6, <1>8

LEMMA CursorSet ==
  ASSUME NEW d, NEW e, NEW lno \in Int, Leads(d, e)
  PROVE  /\ Leads(d, [e EXCEPT !.cursor = lno])
         /\ [e EXCEPT !.cursor = lno].lines = e.lines
<1> DEFINE f == [e EXCEPT !.cursor = lno]
<1>1. e \in EditState
  BY DEF Leads, Sane
<1>2. /\ f \in EditState /\ f.lines = e.lines /\ f.recs = e.recs /\ f.marks = e.marks
      /\ f.gMarks = e.gMarks /\ f.fresh = e.fresh /\ f.astray = e.astray
  BY <1>1 DEF EditState
<1> HIDE DEF f
<1>3. Sane(f)
  BY <1>2 DEF Leads, Sane
<1>4. Carries(d, f)
  BY <1>2 DEF Leads, Carries
<1> QED BY <1>2, <1>3, <1>4 DEF Leads, f

LEMMA SubstitutedClosed ==
  ASSUME Identified, NEW d \in EditState, NEW lno \in Int, NEW two \in BOOLEAN
  PROVE  Substituted(d, lno, two) \in EditState
<1> DEFINE new == setLine(d, lno, [Get(d.lines, lno) EXCEPT !.text = Empty.text])
           e == IF two THEN AppendText(new, lno, Empty.text) ELSE new
<1>1. d.lines \in Buffer /\ Empty.text \in Text
  BY GlobalAssumption DEF EditState
<1>2. [Get(d.lines, lno) EXCEPT !.text = Empty.text] \in Line
  <2>1. Get(d.lines, lno) \in Line
    BY <1>1, StoreClosed, LineAssumption
  <2> QED BY <1>1, <2>1, LineParts
<1>3. new \in EditState
  BY <1>2, EditClosed
<1> HIDE DEF new
<1>4. e \in EditState
  BY <1>1, <1>3, AppendClosed
<1>5. Substituted(d, lno, two) =
        IF ~Matches(Get(d.lines, lno)) THEN d ELSE [e EXCEPT !.cursor = lno]
  BY DEF Substituted, new
<1> HIDE DEF e
<1>6. [e EXCEPT !.cursor = lno] \in EditState
  BY <1>4 DEF EditState
<1> QED BY <1>5, <1>6

\* A line is substituted, and one added behind it.
LEMMA SubstitutedLeads ==
  ASSUME Identified, NEW d, Sane(d), NEW lno \in Nat \ {0}, NEW two \in BOOLEAN
  PROVE  LET e == Substituted(d, lno, two)
         IN  Leads(d, e) /\ Len(e.lines) \in Nat /\ Len(e.lines) >= Len(d.lines)
<1> DEFINE new == setLine(d, lno, [Get(d.lines, lno) EXCEPT !.text = Empty.text])
           e == IF two THEN AppendText(new, lno, Empty.text) ELSE new
<1>1. d \in EditState /\ Len(d.lines) \in Nat /\ lno \in Int /\ Empty.text \in Text
  BY GlobalAssumption DEF Sane, EditState, Buffer
<1>2. Leads(d, d)
  BY <1>1, CarriesSame DEF Leads
<1>3. Leads(d, new) /\ Len(new.lines) >= Len(d.lines)
  BY <1>1, SetCarries
<1> HIDE DEF new
<1>4. LET f == AppendText(new, lno, Empty.text)
      IN  Leads(new, f) /\ Len(f.lines) = Len(new.lines) + 1
  <2>1. Sane(new) /\ lno \in Nat
    BY <1>3 DEF Leads
  <2> QED BY <1>1, <2>1, AppendCarries
<1>5. Leads(d, AppendText(new, lno, Empty.text))
  BY <1>3, <1>4, LeadsOn
<1>6. Leads(d, e) /\ Len(e.lines) \in Nat /\ Len(e.lines) >= Len(d.lines)
  <2>1. Len(new.lines) \in Nat
    BY <1>3 DEF Leads, Sane, EditState, Buffer
  <2> QED BY <1>1, <1>3, <1>4, <1>5, <2>1
<1>7. Substituted(d, lno, two) =
        IF ~Matches(Get(d.lines, lno)) THEN d ELSE [e EXCEPT !.cursor = lno]
  BY DEF Substituted, new
<1> HIDE DEF e
<1>8. Leads(d, [e EXCEPT !.cursor = lno]) /\ [e EXCEPT !.cursor = lno].lines = e.lines
  BY <1>1, <1>6, CursorSet
<1> QED BY <1>1, <1>2, <1>6, <1>7, <1>8

\* :s on n lines from l1 on, the scan of exSubstitute.
Scanned(d, l1, n, two) ==
  Rounds(d, n, LAMBDA c, i : Substituted(c, l1 + i - 1 + Len(c.lines) - Len(d.lines), two))[n]

\* The lines scanned are substituted; those added are passed over.
LEMMA SubstituteLeads ==
  ASSUME Identified, NEW d, Sane(d), NEW l1 \in Nat \ {0}, NEW n \in Nat,
         NEW two \in BOOLEAN
  PROVE  Leads(d, Scanned(d, l1, n, two))
<1> DEFINE F == [i \in 1..n |-> [c \in EditState |->
                   Substituted(c, l1 + i - 1 + Len(c.lines) - Len(d.lines), two)]]
           u == Rounds(d, n, LAMBDA c, i :
                  Substituted(c, l1 + i - 1 + Len(c.lines) - Len(d.lines), two))
           Steps(v) == v = [i \in 0..n |-> IF i = 0 THEN d ELSE
              Substituted(v[i - 1], l1 + i - 1 + Len(v[i - 1].lines) - Len(d.lines), two)]
<1>1. d \in EditState /\ Len(d.lines) \in Nat
  BY DEF Sane, EditState, Buffer
<1>2. F \in Stepper(n, EditState)
  <2>1. \A c \in EditState, k \in Int : Substituted(c, k, two) \in EditState
    BY SubstitutedClosed
  <2>2. \A i \in 1..n, c \in EditState : l1 + i - 1 + Len(c.lines) - Len(d.lines) \in Int
    BY <1>1 DEF EditState, Buffer
  <2> QED BY <2>1, <2>2 DEF Stepper
<1>3. \A c \in EditState, i \in 1..n : F[i][c] = Substituted(c, l1 + i - 1 + Len(c.lines) - Len(d.lines), two)
  OBVIOUS
<1> HIDE DEF F
<1>4. PICK t \in [0..n -> EditState] : IsCourse(t, n, d, F)
  BY <1>1, <1>2, CourseExists
<1>5. t[0] = d /\ \A i \in 1..n : t[i] = Substituted(t[i - 1], l1 + i - 1 + Len(t[i - 1].lines) - Len(d.lines), two)
  <2>1. \A i \in 1..n : t[i - 1] \in EditState
    BY <1>1, <1>4
  <2> QED BY <1>3, <1>4, <2>1 DEF IsCourse
<1>6. u = t
  <2>1. u = CHOOSE v : Steps(v)
    BY DEF Rounds
  <2>2. Steps(t)
    <3>1. \A i \in 0..n : i # 0 => i \in 1..n
      BY <1>1
    <3> QED BY <1>5, <3>1
  <2>3. Steps(u)
    <3> HIDE DEF Steps, u
    <3> QED BY <2>1, <2>2
  <2>4. u[0] = d /\ \A i \in 1..n : u[i] = Substituted(u[i - 1], l1 + i - 1 + Len(u[i - 1].lines) - Len(d.lines), two)
    <3> HIDE DEF u
    <3>1. \A i \in 0..n : u[i] = IF i = 0 THEN d ELSE
            Substituted(u[i - 1], l1 + i - 1 + Len(u[i - 1].lines) - Len(d.lines), two)
      BY <2>3
    <3>2. 0 \in 0..n /\ \A i \in 1..n : i \in 0..n /\ i # 0
      OBVIOUS
    <3> QED BY <3>1, <3>2
  <2>5. OnRounds(u, n)
    <3> HIDE DEF u
    <3> QED BY <2>3 DEF OnRounds
  <2> HIDE DEF u
  <2>6. u[0] = t[0] /\ \A i \in 1..n : u[i - 1] = t[i - 1] => u[i] = t[i]
    BY <1>5, <2>4
  <2> QED BY <1>1, <1>4, <2>5, <2>6, SameRounds
<1> DEFINE T == {m \in 0..n : /\ Leads(d, t[m])
                              /\ Len(t[m].lines) \in Nat /\ Len(t[m].lines) >= Len(d.lines)}
<1>7. InductiveUpTo(n, T)
  <2>1. 0 \in T
    BY <1>1, <1>5, CarriesSame DEF Leads
  <2>2. ASSUME NEW m \in 1..n, m - 1 \in T PROVE m \in T
    <3> DEFINE k == Len(t[m - 1].lines)
               lno == l1 + m - 1 + k - Len(d.lines)
    <3>1. /\ Leads(d, t[m - 1]) /\ Len(t[m - 1].lines) \in Nat
          /\ Len(t[m - 1].lines) >= Len(d.lines)
          /\ t[m] = Substituted(t[m - 1], lno, two)
      BY <1>5, <2>2
    <3>2. lno \in Nat \ {0}
      <4>1. l1 + m - 1 \in Nat \ {0} /\ k \in Nat /\ k >= Len(d.lines)
        BY <3>1
      <4> HIDE DEF k
      <4> QED BY <1>1, <4>1
    <3> HIDE DEF lno
    <3>3. /\ Leads(t[m - 1], t[m]) /\ Len(t[m].lines) \in Nat
          /\ Len(t[m].lines) >= Len(t[m - 1].lines)
      BY <3>1, <3>2, SubstitutedLeads DEF Leads
    <3>4. Len(t[m].lines) >= Len(d.lines)
      BY <1>1, <3>1, <3>3
    <3> QED BY <3>1, <3>3, <3>4, LeadsOn
  <2> QED BY <2>1, <2>2 DEF InductiveUpTo
<1>8. n \in T
  <2> HIDE DEF T
  <2> QED BY <1>7, IntervalInduction
<1> QED BY <1>6, <1>8 DEF Scanned

-----------------------------------------------------------------------------
(***************************************************************************)
(* The commands.                                                            *)
(***************************************************************************)

\* A command found d and left e.  An error before its first change leaves
\* everything as it was.
Finished(d, e) ==
  /\ Leads(d, e)
  /\ e.ok => e.cursor \in 1..LineCount(e.lines)
  /\ ~e.ended => /\ e.lines = d.lines /\ e.recs = d.recs
                 /\ e.marks = d.marks /\ e.fresh = d.fresh

LEMMA EndedFinishes ==
  ASSUME NEW d, NEW e, NEW lno \in Int, Leads(d, e)
  PROVE  Finished(d, Ended(e, lno))
<1> DEFINE f == Ended(e, lno)
           to == ClampLine(e.lines, lno)
<1>1. e \in EditState /\ e.lines \in Buffer /\ Len(e.lines) \in Nat
  BY DEF Leads, Sane, EditState, Buffer
<1>2. to \in 1..LineCount(e.lines) /\ to \in Int
  <2>1. LineCount(e.lines) \in Nat /\ LineCount(e.lines) >= 1
    BY <1>1 DEF LineCount, Buffer
  <2> QED BY <2>1 DEF ClampLine
<1> HIDE DEF to
<1>3. /\ f \in EditState /\ f.lines = e.lines /\ f.recs = e.recs /\ f.marks = e.marks
      /\ f.gMarks = e.gMarks /\ f.fresh = e.fresh /\ f.astray = e.astray
      /\ f.ended = TRUE /\ f.cursor = to
  BY <1>1, <1>2 DEF EditState, Ended, to
<1> HIDE DEF f
<1>4. Sane(f)
  BY <1>3 DEF Leads, Sane
<1>5. Carries(d, f)
  BY <1>3 DEF Leads, Carries
<1> QED BY <1>2, <1>3, <1>4, <1>5 DEF Finished, Leads, f

LEMMA FailedFinishes ==
  ASSUME NEW d, Sane(d)
  PROVE  Finished(d, Failed(d))
<1> DEFINE f == Failed(d)
<1>1. d \in EditState
  BY DEF Sane
<1>2. /\ f \in EditState /\ f.lines = d.lines /\ f.recs = d.recs /\ f.marks = d.marks
      /\ f.gMarks = d.gMarks /\ f.fresh = d.fresh /\ f.astray = d.astray /\ f.ok = FALSE
  BY <1>1 DEF EditState, Failed
<1> HIDE DEF f
<1>3. Sane(f) /\ Carries(d, d)
  BY <1>1, <1>2, CarriesSame DEF Sane
<1>4. Carries(d, f)
  BY <1>2, <1>3 DEF Carries
<1> QED BY <1>2, <1>3, <1>4 DEF Finished, Leads, f

LEMMA TextsAre ==
  ASSUME Identified, NEW d \in EditState, NEW l1 \in Nat, NEW l2 \in Nat, l1 <= l2
  PROVE  Texts(d, l1, l2) \in Seq(Text)
<1>1. d.lines \in Buffer
  BY DEF EditState
<1>2. \A i \in 1..(l2 - l1 + 1) : Get(d.lines, l1 + i - 1).text \in Text
  <2> TAKE i \in 1..(l2 - l1 + 1)
  <2>1. l1 + i - 1 \in Int
    OBVIOUS
  <2>2. Get(d.lines, l1 + i - 1) \in Line
    BY <1>1, <2>1, StoreClosed, LineAssumption
  <2> QED BY <2>2 DEF Identified
<1>3. l2 - l1 + 1 \in Nat
  OBVIOUS
<1>4. Texts(d, l1, l2) \in [1..(l2 - l1 + 1) -> Text]
  BY <1>2 DEF Texts
<1> HIDE DEF Texts
<1> QED BY <1>3, <1>4

\* A destination is a number, if the mark is there; it may lie behind the buffer.
LEMMA DestinationIs ==
  ASSUME NEW d, Sane(d), d.cursor \in Nat, NEW dest \in Dests, ~NoDestination(d, dest)
  PROVE  resolveAddrArg(d, dest) \in Nat
<1>1. LineCount(d.lines) \in Nat /\ d.marks \in [Mark -> Number]
  BY DEF Sane, EditState, Buffer, LineCount
<1>2. CASE dest \in {"0", "$", "."}
  BY <1>1, <1>2 DEF resolveAddrArg
<1>3. CASE dest \notin {"0", "$", "."}
  <2>1. dest \in Mark
    BY <1>3, GlobalAssumption
  <2>2. d.marks[dest] \in Nat
    BY <1>1, <2>1 DEF NoDestination, Number
  <2> QED BY <1>3, <2>2 DEF resolveAddrArg
<1> QED BY <1>2, <1>3

LEMMA DeleteFinishes ==
  ASSUME Identified, NEW d, Sane(d), NEW l1 \in Nat \ {0}, NEW l2 \in Nat, l1 <= l2
  PROVE  Finished(d, exDelete(d, l1, l2))
BY DeleteLinesLead, EndedFinishes DEF exDelete

LEMMA CopyFinishes ==
  ASSUME Identified, NEW d, Sane(d), d.cursor \in Nat,
         NEW l1 \in Nat \ {0}, NEW l2 \in Nat, l1 <= l2, NEW dest \in Dests
  PROVE  Finished(d, exCopy(d, l1, l2, dest))
<1> DEFINE at == resolveAddrArg(d, dest)
           e == AppendTexts(d, at, Texts(d, l1, l2))
<1>1. CASE NoDestination(d, dest)
  BY <1>1, FailedFinishes DEF exCopy
<1>2. CASE ~NoDestination(d, dest)
  <2>1. at \in Nat /\ d \in EditState
    BY <1>2, DestinationIs DEF Sane
  <2>2. exCopy(d, l1, l2, dest) = Ended(e, at + l2 - l1 + 1)
    BY <1>2 DEF exCopy
  <2> HIDE DEF at
  <2>3. Leads(d, e)
    BY <2>1, TextsAre, AppendTextsLead
  <2> HIDE DEF e
  <2>4. at + l2 - l1 + 1 \in Int
    BY <2>1
  <2> QED BY <2>2, <2>3, <2>4, EndedFinishes
<1> QED BY <1>1, <1>2

LEMMA MoveFinishes ==
  ASSUME Identified, NEW d, Sane(d), d.cursor \in Nat,
         NEW l1 \in Nat \ {0}, NEW l2 \in Nat, l1 <= l2, NEW dest \in Dests
  PROVE  Finished(d, exMove(d, l1, l2, dest))
<1> DEFINE at == resolveAddrArg(d, dest)
           n == l2 - l1 + 1
           moved == IF at < l1 THEN n ELSE 0
           e == AppendTexts(d, at, Texts(d, l1, l2))
           f == deleteLines(e, l1 + moved, l2 + moved)
<1>1. exMove(d, l1, l2, dest) =
        IF NoDestination(d, dest) \/ at \in l1..l2 THEN Failed(d) ELSE Ended(f, at + moved)
  BY DEF exMove
<1>2. CASE NoDestination(d, dest) \/ at \in l1..l2
  <2>1. exMove(d, l1, l2, dest) = Failed(d)
    BY <1>1, <1>2
  <2> QED BY <2>1, FailedFinishes
<1>3. CASE ~(NoDestination(d, dest) \/ at \in l1..l2)
  <2>1. at \in Nat /\ d \in EditState
    BY <1>3, DestinationIs DEF Sane
  <2>2. exMove(d, l1, l2, dest) = Ended(f, at + moved)
    BY <1>1, <1>3
  <2> HIDE DEF at
  <2>3. Leads(d, e)
    BY <2>1, TextsAre, AppendTextsLead
  <2> HIDE DEF e
  <2>4. /\ l1 + moved \in Nat \ {0} /\ l2 + moved \in Nat /\ l1 + moved <= l2 + moved
        /\ at + moved \in Int
    <3>1. n \in Nat /\ moved \in {0, n}
      OBVIOUS
    <3> HIDE DEF n, moved
    <3> QED BY <2>1, <3>1
  <2> HIDE DEF moved
  <2>5. Leads(e, f)
    BY <2>3, <2>4, DeleteLinesLead DEF Leads
  <2> HIDE DEF f
  <2>6. Leads(d, f)
    BY <2>3, <2>5, LeadsOn
  <2> QED BY <2>2, <2>4, <2>6, EndedFinishes
<1> QED BY <1>2, <1>3

LEMMA JoinFinishes ==
  ASSUME Identified, NEW d, Sane(d), NEW l1 \in Nat \ {0}, NEW l2 \in Nat, l1 <= l2
  PROVE  Finished(d, exJoin(d, l1, l2))
<1> DEFINE last == IF l1 = l2 THEN l1 + 1 ELSE l2
           n == last - l1
           e == Rounds(d, n, LAMBDA c, i : JoinNext(c, l1))[n]
<1>1. n \in Nat
  OBVIOUS
<1>2. exJoin(d, l1, l2) = IF last > LineCount(d.lines) THEN Failed(d) ELSE Ended(e, l1)
  BY DEF exJoin
<1> HIDE DEF n
<1>3. Leads(d, e)
  BY <1>1, JoinLeads
<1> HIDE DEF e
<1> QED BY <1>2, <1>3, EndedFinishes, FailedFinishes

LEMMA SubstituteFinishes ==
  ASSUME Identified, NEW d, Sane(d), NEW l1 \in Nat \ {0}, NEW l2 \in Nat, l1 <= l2,
         NEW two \in BOOLEAN, NEW stop \in l1..(l2 + 1)
  PROVE  Finished(d, exSubstitute(d, l1, l2, two, stop))
<1> DEFINE n == stop - l1
           e == Scanned(d, l1, n, two)
           f == [e EXCEPT !.ended = TRUE, !.ok = FALSE, !.cursor = d.cursor]
<1>1. d \in EditState /\ d.cursor \in Int
  BY DEF Sane, EditState
<1>2. n \in Nat
  OBVIOUS
<1>3. exSubstitute(d, l1, l2, two, stop) =
        IF stop <= l2 \/ ~(e.recs # d.recs) THEN f ELSE Ended(e, e.cursor)
  BY DEF exSubstitute, Scanned
<1> HIDE DEF n
<1>4. Leads(d, e)
  BY <1>2, SubstituteLeads
<1> HIDE DEF e
<1>5. e \in EditState /\ e.cursor \in Int
  BY <1>4 DEF Leads, Sane, EditState
<1>6. /\ f \in EditState /\ f.lines = e.lines /\ f.recs = e.recs /\ f.marks = e.marks
      /\ f.gMarks = e.gMarks /\ f.fresh = e.fresh /\ f.astray = e.astray
      /\ f.ended = TRUE /\ f.ok = FALSE
  BY <1>1, <1>5 DEF EditState
<1> HIDE DEF f
<1>7. Finished(d, f)
  <2>1. Sane(f) /\ Carries(d, f)
    BY <1>4, <1>6 DEF Leads, Sane, Carries
  <2> QED BY <1>6, <2>1 DEF Finished, Leads
<1> QED BY <1>3, <1>4, <1>5, <1>7, EndedFinishes

LEMMA PutFinishes ==
  ASSUME Identified, NEW d, Sane(d), NEW lno \in Nat
  PROVE  Finished(d, exPut(d, lno))
<1>1. Empty.text \in Text
  BY GlobalAssumption
<1>2. Leads(d, AppendText(d, lno, Empty.text))
  BY <1>1, AppendCarries
<1>3. lno + 1 \in Int
  OBVIOUS
<1> QED BY <1>2, <1>3, EndedFinishes DEF exPut

-----------------------------------------------------------------------------
(***************************************************************************)
(* The system.                                                              *)
(***************************************************************************)

\* The match list holds numbers of lines.
LEMMA MatchListInside ==
  ASSUME NEW l1 \in Int, NEW l2 \in l1..LineCount(store), l1 >= 1, store \in Buffer,
         NEW invert
  PROVE  MatchList(l1, l2, invert) \in Seq(1..LineCount(store))
<1> DEFINE n == l2 - l1 + 1
           B == Seq(1..LineCount(store))
           F == [i \in 1..n |-> [c \in B |-> Collected(c, l1 + i - 1, invert)]]
           u == Rounds(<<>>, n, LAMBDA c, i : Collected(c, l1 + i - 1, invert))
           Steps(v) == v = [i \in 0..n |-> IF i = 0 THEN <<>>
                                          ELSE Collected(v[i - 1], l1 + i - 1, invert)]
<1>1. LineCount(store) \in Nat /\ l2 <= LineCount(store) /\ n \in Nat /\ <<>> \in B
  BY DEF LineCount, Buffer
<1>2. F \in Stepper(n, B)
  <2>1. \A c \in B, k \in 1..LineCount(store) : Collected(c, k, invert) \in B
    <3>1. \A c \in B, k \in 1..LineCount(store) : Append(c, k) \in B
      OBVIOUS
    <3> HIDE DEF B
    <3> QED BY <3>1 DEF Collected
  <2>2. \A i \in 1..n : l1 + i - 1 \in 1..LineCount(store)
    BY <1>1
  <2> QED BY <2>1, <2>2 DEF Stepper
<1>3. \A c \in B, i \in 1..n : F[i][c] = Collected(c, l1 + i - 1, invert)
  OBVIOUS
<1> HIDE DEF F, B
<1>4. PICK t \in [0..n -> B] : IsCourse(t, n, <<>>, F)
  BY <1>1, <1>2, CourseExists
<1>5. t[0] = <<>> /\ \A i \in 1..n : t[i] = Collected(t[i - 1], l1 + i - 1, invert)
  <2>1. \A i \in 1..n : t[i - 1] \in B
    BY <1>1, <1>4
  <2> QED BY <1>3, <1>4, <2>1 DEF IsCourse
<1>6. u = t
  <2>1. u = CHOOSE v : Steps(v)
    BY DEF Rounds
  <2>2. Steps(t)
    <3>1. \A i \in 0..n : i # 0 => i \in 1..n
      BY <1>1
    <3> QED BY <1>5, <3>1
  <2>3. Steps(u)
    <3> HIDE DEF Steps, u
    <3> QED BY <2>1, <2>2
  <2>4. u[0] = <<>> /\ \A i \in 1..n : u[i] = Collected(u[i - 1], l1 + i - 1, invert)
    <3> HIDE DEF u
    <3> QED BY <1>1, <2>3
  <2>5. OnRounds(u, n)
    <3> HIDE DEF u
    <3> QED BY <2>3 DEF OnRounds
  <2> HIDE DEF u, n
  <2>6. u[0] = t[0] /\ \A i \in 1..n : u[i - 1] = t[i - 1] => u[i] = t[i]
    BY <1>5, <2>4
  <2> QED BY <1>1, <1>4, <2>5, <2>6, SameRounds
<1>7. MatchList(l1, l2, invert) = t[n]
  BY <1>6 DEF MatchList
<1>8. n \in 0..n
  BY <1>1
<1> QED BY <1>4, <1>7, <1>8 DEF B

Good(lines, f) == Distinct(lines) /\ Below(lines, f)

\* The change sets on both stacks lead away from the buffer g, through buffers
\* whose lines are below f.
Stacks(us, rs, g, f) ==
  \E ps, fs \in Seq(Buffer) :
     /\ Len(ps) = Len(us) /\ Len(fs) = Len(rs)
     /\ UndoStack(us, ps, g) /\ RedoStack(rs, fs, g)
     /\ \A i \in 1..Len(ps) : Good(ps[i], f)
     /\ \A i \in 1..Len(fs) : Good(fs[i], f)

LEMMA GoodLater ==
  ASSUME Identified, NEW lines \in Buffer, NEW f \in Nat, NEW g \in Nat, f <= g, Good(lines, f)
  PROVE  Good(lines, g)
<1>1. \A i \in 1..Len(lines) : lines[i].id \in Nat
  BY LineParts
<1> QED BY <1>1 DEF Good, Below

LEMMA StacksLater ==
  ASSUME Identified, NEW us, NEW rs, NEW g, NEW e \in Nat, NEW f \in Nat, e <= f,
         Stacks(us, rs, g, e)
  PROVE  Stacks(us, rs, g, f)
<1>1. PICK ps, fs \in Seq(Buffer) :
        /\ Len(ps) = Len(us) /\ Len(fs) = Len(rs)
        /\ UndoStack(us, ps, g) /\ RedoStack(rs, fs, g)
        /\ \A i \in 1..Len(ps) : Good(ps[i], e)
        /\ \A i \in 1..Len(fs) : Good(fs[i], e)
  BY DEF Stacks
<1>2. \A i \in 1..Len(ps) : Good(ps[i], f)
  <2> TAKE i \in 1..Len(ps)
  <2>1. ps[i] \in Buffer
    OBVIOUS
  <2> QED BY <1>1, <2>1, GoodLater
<1>3. \A i \in 1..Len(fs) : Good(fs[i], f)
  <2> TAKE i \in 1..Len(fs)
  <2>1. fs[i] \in Buffer
    OBVIOUS
  <2> QED BY <1>1, <2>1, GoodLater
<1> QED BY <1>1, <1>2, <1>3 DEF Stacks

LEMMA StacksBegin ==
  ASSUME NEW g, NEW f
  PROVE  Stacks(<<>>, <<>>, g, f)
<1>1. <<>> \in Seq(Buffer) /\ Len(<<>>) = 0 /\ 1..0 = {}
  OBVIOUS
<1>2. UndoStack(<<>>, <<>>, g) /\ RedoStack(<<>>, <<>>, g)
  BY <1>1 DEF UndoStack, RedoStack
<1> QED BY <1>1, <1>2 DEF Stacks

\* No records lead back to where they began.
LEMMA EmptyChain ==
  ASSUME NEW a \in Buffer, NEW b, Chain(a, <<>>, b)
  PROVE  a = b
<1>1. ReplayAll(a, <<>>) = b
  BY ChainReplays
<1>2. ReplayAll(a, <<>>) = a
  BY ChainEmpty, ChainReplays
<1> QED BY <1>1, <1>2

\* A sequence grown by an element, and what holds of all of them.
LEMMA AllAppended ==
  ASSUME NEW ps \in Seq(Buffer), NEW b \in Buffer, NEW f,
         \A i \in 1..Len(ps) : Good(ps[i], f), Good(b, f)
  PROVE  \A i \in 1..Len(Append(ps, b)) : Good(Append(ps, b)[i], f)
<1> TAKE i \in 1..Len(Append(ps, b))
<1>1. Len(Append(ps, b)) = Len(ps) + 1 /\ Len(ps) \in Nat
  OBVIOUS
<1>2. CASE i = Len(ps) + 1
  <2>1. Append(ps, b)[i] = b
    BY <1>2
  <2> QED BY <2>1
<1>3. CASE i \in 1..Len(ps)
  <2>1. Append(ps, b)[i] = ps[i]
    BY <1>3
  <2> QED BY <1>3, <2>1
<1> QED BY <1>1, <1>2, <1>3

LEMMA StacksCommit ==
  ASSUME NEW us \in Seq(ChangeSet), NEW rs, NEW g \in Buffer, NEW f, Stacks(us, rs, g, f),
         Good(g, f), NEW recs \in ChangeSet, NEW h \in Buffer, Chain(g, recs, h)
  PROVE  Stacks(Append(us, recs), <<>>, h, f)
<1>1. PICK ps, fs \in Seq(Buffer) :
        /\ Len(ps) = Len(us)
        /\ UndoStack(us, ps, g)
        /\ \A i \in 1..Len(ps) : Good(ps[i], f)
  BY DEF Stacks
<1>2. UndoStack(Append(us, recs), Append(ps, g), h)
  BY <1>1, PushUndo
<1>3. Append(ps, g) \in Seq(Buffer) /\ Len(Append(ps, g)) = Len(Append(us, recs))
  BY <1>1
<1>4. \A i \in 1..Len(Append(ps, g)) : Good(Append(ps, g)[i], f)
  BY <1>1, AllAppended
<1>5. /\ <<>> \in Seq(Buffer) /\ Len(<<>>) = 0 /\ RedoStack(<<>>, <<>>, h)
      /\ \A i \in 1..Len(<<>>) : Good(<<>>[i], f)
  BY DEF RedoStack
<1> QED BY <1>2, <1>3, <1>4, <1>5 DEF Stacks

\* All but the last, and the last one.
LEMMA AllFront ==
  ASSUME NEW ps \in Seq(Buffer), ps # <<>>, NEW f, \A i \in 1..Len(ps) : Good(ps[i], f)
  PROVE  /\ Last(ps) \in Buffer /\ Good(Last(ps), f)
         /\ \A i \in 1..Len(Front(ps)) : Good(Front(ps)[i], f)
<1>1. /\ Len(Front(ps)) = Len(ps) - 1 /\ Len(ps) \in Nat \ {0}
      /\ \A i \in 1..(Len(ps) - 1) : Front(ps)[i] = ps[i]
      /\ Last(ps) = ps[Len(ps)] /\ Last(ps) \in Buffer
  BY FrontLast
<1>2. Len(ps) \in 1..Len(ps) /\ \A i \in 1..(Len(ps) - 1) : i \in 1..Len(ps)
  BY <1>1
<1> QED BY <1>1, <1>2

LEMMA StacksUndo ==
  ASSUME NEW us \in Seq(ChangeSet), NEW rs \in Seq(ChangeSet), us # <<>>,
         NEW g \in Buffer, NEW f, Stacks(us, rs, g, f), Good(g, f)
  PROVE  LET b == RevertAll(g, Last(us))
         IN  /\ b \in Buffer /\ Good(b, f) /\ Chain(b, Last(us), g)
             /\ Stacks(Front(us), Append(rs, Last(us)), b, f)
<1>1. PICK ps, fs \in Seq(Buffer) :
        /\ Len(ps) = Len(us) /\ Len(fs) = Len(rs)
        /\ UndoStack(us, ps, g) /\ RedoStack(rs, fs, g)
        /\ \A i \in 1..Len(ps) : Good(ps[i], f)
        /\ \A i \in 1..Len(fs) : Good(fs[i], f)
  BY DEF Stacks
<1>2. ps # <<>>
  BY <1>1
<1>3. UndoStack(Front(us), Front(ps), Last(ps)) /\ Chain(Last(ps), Last(us), g)
  BY <1>1, PopUndo
<1>4. /\ Last(us) \in ChangeSet /\ Front(us) \in Seq(ChangeSet)
      /\ Front(ps) \in Seq(Buffer) /\ Len(Front(ps)) = Len(Front(us))
  BY <1>1, <1>2, FrontLast
<1>5. /\ Last(ps) \in Buffer /\ Good(Last(ps), f)
      /\ \A i \in 1..Len(Front(ps)) : Good(Front(ps)[i], f)
  BY <1>1, <1>2, AllFront
<1>6. RevertAll(g, Last(us)) = Last(ps)
  BY <1>3, <1>4, <1>5, ChainReverts
<1>7. RedoStack(Append(rs, Last(us)), Append(fs, g), Last(ps))
  BY <1>1, <1>3, <1>4, <1>5, PushRedo
<1>8. /\ Append(fs, g) \in Seq(Buffer) /\ Len(Append(fs, g)) = Len(Append(rs, Last(us)))
      /\ \A i \in 1..Len(Append(fs, g)) : Good(Append(fs, g)[i], f)
  BY <1>1, <1>4, AllAppended
<1>9. Stacks(Front(us), Append(rs, Last(us)), Last(ps), f)
  BY <1>3, <1>4, <1>5, <1>7, <1>8 DEF Stacks
<1> QED BY <1>3, <1>5, <1>6, <1>9

LEMMA StacksRedo ==
  ASSUME NEW us \in Seq(ChangeSet), NEW rs \in Seq(ChangeSet), rs # <<>>,
         NEW g \in Buffer, NEW f, Stacks(us, rs, g, f), Good(g, f)
  PROVE  LET b == ReplayAll(g, Last(rs))
         IN  /\ b \in Buffer /\ Good(b, f) /\ Chain(g, Last(rs), b)
             /\ Stacks(Append(us, Last(rs)), Front(rs), b, f)
<1>1. PICK ps, fs \in Seq(Buffer) :
        /\ Len(ps) = Len(us) /\ Len(fs) = Len(rs)
        /\ UndoStack(us, ps, g) /\ RedoStack(rs, fs, g)
        /\ \A i \in 1..Len(ps) : Good(ps[i], f)
        /\ \A i \in 1..Len(fs) : Good(fs[i], f)
  BY DEF Stacks
<1>2. fs # <<>>
  BY <1>1
<1>3. RedoStack(Front(rs), Front(fs), Last(fs)) /\ Chain(g, Last(rs), Last(fs))
  BY <1>1, PopRedo
<1>4. /\ Last(rs) \in ChangeSet /\ Front(rs) \in Seq(ChangeSet)
      /\ Front(fs) \in Seq(Buffer) /\ Len(Front(fs)) = Len(Front(rs))
  BY <1>1, <1>2, FrontLast
<1>5. /\ Last(fs) \in Buffer /\ Good(Last(fs), f)
      /\ \A i \in 1..Len(Front(fs)) : Good(Front(fs)[i], f)
  BY <1>1, <1>2, AllFront
<1>6. ReplayAll(g, Last(rs)) = Last(fs)
  BY <1>3, ChainReplays
<1>7. UndoStack(Append(us, Last(rs)), Append(ps, g), Last(fs))
  BY <1>1, <1>3, <1>4, <1>5, PushUndo
<1>8. /\ Append(ps, g) \in Seq(Buffer) /\ Len(Append(ps, g)) = Len(Append(us, Last(rs)))
      /\ \A i \in 1..Len(Append(ps, g)) : Good(Append(ps, g)[i], f)
  BY <1>1, <1>4, AllAppended
<1>9. Stacks(Append(us, Last(rs)), Front(rs), Last(fs), f)
  BY <1>3, <1>4, <1>5, <1>7, <1>8 DEF Stacks
<1> QED BY <1>3, <1>5, <1>6, <1>9

-----------------------------------------------------------------------------
(***************************************************************************)
(* The inductive invariant.                                                 *)
(***************************************************************************)

\* The buffer the stacks lead away from: the one the open change set began at.
Ground == IF running THEN before ELSE store

GlobalTyped ==
  /\ store \in Buffer /\ before \in Buffer /\ was \in Buffer /\ is \in Buffer
  /\ cur \in ChangeSet /\ undo \in Seq(ChangeSet) /\ redo \in Seq(ChangeSet)
  /\ marks \in [Mark -> Number] /\ fresh \in Nat
  /\ gMarks \in Seq(Number) /\ gLastEdit \in Int /\ next \in Nat
  /\ flagged \in Seq(Nat)
  /\ lastStepRedo \in BOOLEAN
  /\ phase \in {"none", "done", "undone"}
  /\ trust \in {"whole", "astray"}

AtRest == ~running => cur = <<>> /\ gMarks = <<>> /\ flagged = <<>>

InLoop == running => body \in Bodies /\ cursor \in 1..LineCount(store) /\ phase = "none"

\* The numbers in the match list mean the lines that matched.
MatchesFollowed ==
  /\ Len(flagged) = Len(gMarks)
  /\ ~Phantom => \A i \in 1..Len(flagged) :
       flagged[i] < fresh /\ Points(store, flagged[i], gMarks[i])

\* The matches passed have been visited or are gone; no other line has been.
Visits ==
  running /\ ~Phantom =>
    /\ \A i \in 1..Len(flagged) :
         i < next => flagged[i] \in visited \/ Points(store, flagged[i], Gone)
    /\ visited \subseteq {flagged[i] : i \in DOMAIN flagged}

\* What has been recorded leads back, over buffers of distinct lines.
Reversible ==
  ~Astray => /\ Good(Ground, fresh)
             /\ Chain(Ground, cur, store)
             /\ Stacks(undo, redo, Ground, fresh)

\* The last command lies on top of a stack.
LastChange ==
  ~Astray =>
    /\ phase = "done" => /\ lastStepRedo = TRUE /\ undo # <<>> /\ is = store
                         /\ Chain(was, Last(undo), store)
    /\ phase = "undone" => /\ lastStepRedo = FALSE /\ redo # <<>> /\ was = store
                           /\ Chain(store, Last(redo), is)

\* What holds until an undo has walked the record of an edit astray.
GlobalInv ==
  /\ GlobalTyped
  /\ AtRest
  /\ InLoop
  /\ Good(store, fresh)
  /\ MatchesFollowed
  /\ Visits
  /\ Reversible
  /\ LastChange

LEMMA GlobalInit ==
  ASSUME Identified, GInit
  PROVE  GlobalInv
<1>1. store \in Buffer /\ Len(store) \in Nat /\ \A i \in 1..Len(store) : store[i].id = i
  <2>1. store \in Start /\ store \in Buffer
    BY UndoLogAssumption DEF GInit, Init
  <2>2. DOMAIN store = 1..Len(store)
    BY <2>1 DEF Buffer
  <2> QED BY <2>1, <2>2, GlobalAssumption DEF Buffer
<1>2. /\ cur = <<>> /\ undo = <<>> /\ redo = <<>> /\ next = 0 /\ ~running
      /\ marks = [m \in Mark |-> Gone] /\ fresh = Len(store) + 1
      /\ gMarks = <<>> /\ gLastEdit = 0 /\ flagged = <<>> /\ before = <<>>
      /\ was = <<>> /\ is = <<>> /\ phase = "none" /\ lastStepRedo = TRUE
      /\ trust = "whole"
  BY DEF GInit, Init, running
<1>3. GlobalTyped
  <2>1. /\ <<>> \in Buffer /\ <<>> \in ChangeSet /\ <<>> \in Seq(ChangeSet)
        /\ <<>> \in Seq(Number) /\ <<>> \in Seq(Nat) /\ Gone \in Number
    BY DEF Buffer, ChangeSet, Number
  <2> QED BY <1>1, <1>2, <2>1 DEF GlobalTyped
<1>4. AtRest /\ InLoop /\ Visits /\ LastChange
  BY <1>2 DEF AtRest, InLoop, Visits, LastChange
<1>5. MatchesFollowed
  BY <1>2 DEF MatchesFollowed
<1>6. Good(store, fresh)
  BY <1>1, <1>2 DEF Good, Distinct, Below
<1>7. Reversible
  BY <1>1, <1>2, <1>6, ChainEmpty, StacksBegin DEF Reversible, Ground
<1> QED BY <1>3, <1>4, <1>5, <1>6, <1>7 DEF GlobalInv

-----------------------------------------------------------------------------
(***************************************************************************)
(* The steps.                                                               *)
(***************************************************************************)

\* What a command starts from.
LEMMA FoundSane ==
  ASSUME GlobalInv, running => next \in 1..Len(gMarks), NEW at \in Int
  PROVE  LET d == Found(at)
         IN  /\ Sane(d)
             /\ d.lines = store /\ d.recs = cur /\ d.marks = marks /\ d.gMarks = gMarks
             /\ d.fresh = fresh /\ d.cursor = at /\ d.astray = FALSE
<1> DEFINE d == Found(at)
           edit == IF running THEN gMarks[next] ELSE gLastEdit
<1>1. GlobalTyped /\ Good(store, fresh)
  BY DEF GlobalInv
<1>2. edit \in Int
  <2>1. running => gMarks[next] \in Number
    BY <1>1 DEF GlobalTyped
  <2> QED BY <1>1, <2>1 DEF GlobalTyped, Number, Gone
<1>3. /\ d \in EditState
      /\ d.lines = store /\ d.recs = cur /\ d.marks = marks /\ d.gMarks = gMarks
      /\ d.fresh = fresh /\ d.cursor = at /\ d.astray = FALSE
  BY <1>1, <1>2 DEF Found, EditState, GlobalTyped
<1> HIDE DEF d
<1> QED BY <1>1, <1>3 DEF Sane, Good, d

\* Every command of the model finishes.
LEMMA CommandRuns ==
  ASSUME Identified, GlobalInv, running => next \in 1..Len(gMarks),
         NEW at \in 1..LineCount(store), NEW c \in Command, NEW lno \in Nat, NEW stop \in Stops(c, lno)
  PROVE  Finished(Found(at), Executed(c, at, lno, stop))
<1> DEFINE d == Found(at)
           last == lno + c.count - 1
<1>1. at \in Nat /\ at \in Int
  OBVIOUS
<1>2. Sane(d) /\ d.lines = store /\ d.cursor = at
  BY <1>1, FoundSane, Zenon
<1>3. Executed(c, at, lno, stop) =
        IF c.op = "put" THEN exPut(d, lno)
        ELSE IF InvalidAddress(d, lno, last) THEN Failed(d)
        ELSE CASE c.op = "delete"     -> exDelete(d, lno, last)
               [] c.op = "move"       -> exMove(d, lno, last, c.dest)
               [] c.op = "copy"       -> exCopy(d, lno, last, c.dest)
               [] c.op = "join"       -> exJoin(d, lno, last)
               [] c.op = "substitute" -> exSubstitute(d, lno, last, c.two, stop)
  BY DEF Executed
<1>4. /\ c.op \in {"delete", "join", "move", "copy", "substitute", "put"}
      /\ c.count \in 1..2
      /\ c.op \in {"move", "copy"} => c.dest \in Dests
      /\ c.op = "substitute" => c.two \in BOOLEAN
  BY DEF Command
<1>5. last \in Int /\ lno \in Int
  BY <1>4
<1> HIDE DEF d
<1>6. CASE c.op = "put"
  BY <1>2, <1>3, <1>6, PutFinishes DEF d
<1>7. CASE c.op # "put" /\ InvalidAddress(d, lno, last)
  BY <1>2, <1>3, <1>7, FailedFinishes DEF d
<1>8. CASE c.op # "put" /\ ~InvalidAddress(d, lno, last)
  <2>1. lno \in Nat \ {0} /\ last \in Nat /\ lno <= last
    BY <1>5, <1>8 DEF InvalidAddress
  <2>2. c.op = "substitute" => stop \in lno..(last + 1)
    BY <1>4, <1>5 DEF Stops
  <2> HIDE DEF last
  <2>3. CASE c.op = "delete"
    BY <1>2, <1>3, <1>8, <2>1, <2>3, DeleteFinishes DEF d
  <2>4. CASE c.op = "move"
    BY <1>1, <1>2, <1>3, <1>4, <1>8, <2>1, <2>4, MoveFinishes DEF d
  <2>5. CASE c.op = "copy"
    BY <1>1, <1>2, <1>3, <1>4, <1>8, <2>1, <2>5, CopyFinishes DEF d
  <2>6. CASE c.op = "join"
    BY <1>2, <1>3, <1>8, <2>1, <2>6, JoinFinishes DEF d
  <2>7. CASE c.op = "substitute"
    BY <1>2, <1>3, <1>4, <1>8, <2>1, <2>2, <2>7, SubstituteFinishes DEF d
  <2> QED BY <1>4, <1>8, <2>3, <2>4, <2>5, <2>6, <2>7
<1> QED BY <1>6, <1>7, <1>8

\* What command result e, written to the buffer, means for the rest.
LEMMA Effect ==
  ASSUME Identified, GlobalInv, running => next \in 1..Len(gMarks), NEW at \in Int,
         NEW e, Finished(Found(at), e), Edited(e)
  PROVE  /\ store' = e.lines /\ store' \in Buffer /\ Good(store', fresh')
         /\ marks' \in [Mark -> Number] /\ fresh' \in Nat /\ fresh <= fresh'
         /\ e.recs \in ChangeSet
         /\ trust' \in {"whole", "astray"}
         /\ ~Astray' => ~Astray /\ Chain(Ground, e.recs, store')
         /\ e.gMarks \in Seq(Number) /\ Len(e.gMarks) = Len(gMarks)
         /\ e.gLastEdit \in Int /\ e.cursor \in Int
         /\ ~Phantom => \A i \in 1..Len(flagged) : Points(store', flagged[i], e.gMarks[i])
         /\ NoneBack(store, store', fresh)
         /\ \A m \in Mark, id \in Nat :
              id < fresh /\ Points(store, id, marks[m]) => Points(store', id, marks'[m])
<1> DEFINE d == Found(at)
<1>1. d.lines = store /\ d.recs = cur /\ d.marks = marks /\ d.gMarks = gMarks /\ d.fresh = fresh
  BY FoundSane
<1>2. Sane(e) /\ Carries(d, e)
  BY DEF Finished, Leads
<1> HIDE DEF d
<1>3. /\ store' = e.lines /\ marks' = e.marks /\ fresh' = e.fresh
      /\ trust' = IF e.astray THEN "astray" ELSE trust
      /\ trust \in {"whole", "astray"}
  BY DEF Edited, Torn, GlobalInv, GlobalTyped
<1>4. /\ e.lines \in Buffer /\ e.recs \in ChangeSet /\ e.marks \in [Mark -> Number]
      /\ e.gMarks \in Seq(Number) /\ e.gLastEdit \in Int /\ e.cursor \in Int /\ e.fresh \in Nat
  BY <1>2 DEF Sane, EditState
<1>5. Good(store', fresh')
  BY <1>2, <1>3 DEF Sane, Good
<1>6. fresh <= e.fresh /\ Len(e.gMarks) = Len(gMarks) /\ NoneBack(store, e.lines, fresh)
  BY <1>1, <1>2 DEF Carries
<1>7. ~Astray' => ~Astray /\ Chain(Ground, e.recs, e.lines)
  <2> SUFFICES ASSUME ~Astray'
               PROVE  ~Astray /\ Chain(Ground, e.recs, e.lines)
    OBVIOUS
  <2>1. ~Astray /\ ~e.astray
    BY <1>3 DEF Astray
  <2>2. Ground \in Buffer /\ Chain(Ground, cur, store)
    BY <2>1 DEF GlobalInv, GlobalTyped, Reversible, Ground
  <2> QED BY <1>1, <1>2, <2>1, <2>2 DEF Carries
<1>8. ASSUME ~Phantom
      PROVE  \A i \in 1..Len(flagged) : Points(e.lines, flagged[i], e.gMarks[i])
  <2> TAKE i \in 1..Len(flagged)
  <2>1. /\ flagged[i] \in Nat /\ flagged[i] < fresh /\ i \in 1..Len(gMarks)
        /\ Points(store, flagged[i], gMarks[i])
    BY <1>8 DEF GlobalInv, GlobalTyped, MatchesFollowed
  <2> QED BY <1>1, <1>2, <2>1 DEF Carries
<1>9. \A m \in Mark, id \in Nat :
        id < fresh /\ Points(store, id, marks[m]) => Points(e.lines, id, e.marks[m])
  BY <1>1, <1>2 DEF Carries
<1> QED BY <1>3, <1>4, <1>5, <1>6, <1>7, <1>8, <1>9

\* The change set goes onto the undo stack, on top of the buffer it began at.
LEMMA Committing ==
  ASSUME Identified, GlobalInv, NEW recs \in ChangeSet,
         store' \in Buffer, fresh' \in Nat, fresh <= fresh', Good(store', fresh'),
         ~Astray' => ~Astray /\ Chain(Ground, recs, store'), Committed(recs), Remember(recs, Ground, store')
  PROVE  /\ cur' = <<>> /\ undo' \in Seq(ChangeSet) /\ redo' \in Seq(ChangeSet)
         /\ lastStepRedo' = TRUE
         /\ phase' \in {"none", "done"} /\ was' \in Buffer /\ is' \in Buffer
         /\ ~Astray' => Stacks(undo', redo', store', fresh')
         /\ LastChange'
<1>1. /\ Ground \in Buffer /\ undo \in Seq(ChangeSet) /\ redo \in Seq(ChangeSet)
  BY DEF GlobalInv, GlobalTyped, Ground
<1>2. ASSUME ~Astray'
      PROVE  /\ Stacks(undo, redo, Ground, fresh') /\ Good(Ground, fresh')
             /\ Chain(Ground, recs, store')
  <2>1. fresh \in Nat /\ Good(Ground, fresh) /\ Stacks(undo, redo, Ground, fresh)
    BY <1>2 DEF GlobalInv, GlobalTyped, Reversible
  <2> QED BY <1>1, <1>2, <2>1, StacksLater, GoodLater
<1>3. cur' = <<>> /\ lastStepRedo' = TRUE
  BY DEF Committed
<1>4. CASE recs = <<>>
  <2>1. undo' = undo /\ redo' = redo
    BY <1>4 DEF Committed
  <2>2. ~Astray' => Ground = store'
    BY <1>1, <1>2, <1>4, EmptyChain
  <2>3. phase' = "none" /\ was' = <<>> /\ is' = <<>> /\ <<>> \in Buffer
    BY <1>4 DEF Remember, Buffer
  <2> QED BY <1>1, <1>2, <1>3, <2>1, <2>2, <2>3 DEF LastChange
<1>5. CASE recs # <<>>
  <2>1. undo' = Append(undo, recs) /\ redo' = <<>>
    BY <1>5 DEF Committed
  <2>2. phase' = "done" /\ was' = Ground /\ is' = store'
    BY <1>5 DEF Remember
  <2>3. ~Astray' => Stacks(undo', redo', store', fresh')
    BY <1>1, <1>2, <2>1, StacksCommit
  <2>4. undo' \in Seq(ChangeSet) /\ undo' # <<>> /\ Last(undo') = recs /\ redo' \in Seq(ChangeSet)
    <3>1. Len(undo') = Len(undo) + 1 /\ undo'[Len(undo) + 1] = recs
      BY <1>1, <2>1
    <3> QED BY <1>1, <2>1, <3>1 DEF Last
  <2>5. LastChange'
    BY <1>2, <1>3, <2>2, <2>4 DEF LastChange
  <2> QED BY <1>1, <1>3, <2>2, <2>3, <2>4, <2>5
<1> QED BY <1>4, <1>5

\* The end of :global, however it comes.
LEMMA Leaving ==
  ASSUME Identified, GlobalInv, running, NEW recs \in ChangeSet,
         store' \in Buffer, fresh' \in Nat, fresh <= fresh', Good(store', fresh'),
         marks' \in [Mark -> Number], trust' \in {"whole", "astray"},
         ~Astray' => ~Astray /\ Chain(Ground, recs, store'), GlobalLeave(recs, store')
  PROVE  GlobalInv'
<1>1. Ground = before
  BY DEF Ground
<1>2. /\ cur' = <<>> /\ undo' \in Seq(ChangeSet) /\ redo' \in Seq(ChangeSet)
      /\ lastStepRedo' = TRUE
      /\ phase' \in {"none", "done"} /\ was' \in Buffer /\ is' \in Buffer
      /\ ~Astray' => Stacks(undo', redo', store', fresh')
      /\ LastChange'
  <2>1. Committed(recs) /\ Remember(recs, Ground, store')
    BY <1>1 DEF GlobalLeave
  <2> QED BY <2>1, Committing
<1>3. /\ gMarks' = <<>> /\ gLastEdit' = 0 /\ next' = 0 /\ ~running' /\ cursor' = 0
      /\ flagged' = <<>> /\ visited' = {} /\ before' = <<>>
  BY DEF GlobalLeave, running
<1>4. GlobalTyped'
  <2>1. <<>> \in Buffer /\ <<>> \in ChangeSet /\ <<>> \in Seq(Number) /\ <<>> \in Seq(Nat)
    BY DEF Buffer, ChangeSet
  <2> QED BY <1>2, <1>3, <2>1 DEF GlobalTyped
<1>5. AtRest' /\ InLoop' /\ Visits' /\ MatchesFollowed'
  BY <1>2, <1>3 DEF AtRest, InLoop, Visits, MatchesFollowed
<1>6. Reversible'
  <2>1. Ground' = store'
    BY <1>3 DEF Ground
  <2>2. Chain(store', <<>>, store')
    BY ChainEmpty
  <2> QED BY <1>2, <2>1, <2>2 DEF Reversible
<1> QED BY <1>2, <1>4, <1>5, <1>6 DEF GlobalInv

\* Nothing the invariant speaks of changes.
LEMMA SameInv ==
  ASSUME GlobalInv, UNCHANGED <<store, cur, undo, redo, marks, cursor, lastStepRedo, loop,
                                fresh, was, is, phase, trust>>
  PROVE  GlobalInv'
<1>1. UNCHANGED <<gMarks, gLastEdit, body, next, flagged, visited, before>>
  BY DEF loop
<1>2. GlobalTyped'
  BY <1>1 DEF GlobalInv, GlobalTyped
<1>3. AtRest' /\ InLoop' /\ MatchesFollowed' /\ Visits'
  BY <1>1 DEF GlobalInv, AtRest, InLoop, MatchesFollowed, Visits, Phantom, running
<1>4. Good(store, fresh)' /\ Reversible' /\ LastChange'
  BY <1>1 DEF GlobalInv, Reversible, LastChange, Ground, running, Astray
<1> QED BY <1>2, <1>3, <1>4 DEF GlobalInv

LEMMA ExecuteInv ==
  ASSUME Identified, GlobalInv, NEW c \in Command, NEW lno \in Nat, Execute(c, lno)
  PROVE  GlobalInv'
<1>1. ~running /\ store \in Buffer
  BY DEF Execute, GlobalInv, GlobalTyped
<1>3. PICK stop \in Stops(c, lno), at \in 1..LineCount(store) :
        LET e == Executed(c, at, lno, stop)
        IN  /\ Edited(e)
            /\ IF e.ended
                 THEN Committed(e.recs) /\ Remember(e.recs, store, e.lines)
                 ELSE UNCHANGED <<open, cur, undo, redo, lastStepRedo, dotUndo, was, is, phase>>
  BY DEF Execute
<1> DEFINE e == Executed(c, at, lno, stop)
<1>4. UNCHANGED <<cursor, loop>>
  BY DEF Execute
<1>5. Finished(Found(at), e)
  BY <1>1, CommandRuns, Zenon
<1>6. /\ Edited(e)
      /\ e.ended => Committed(e.recs) /\ Remember(e.recs, store, e.lines)
      /\ ~e.ended => UNCHANGED <<open, cur, undo, redo, lastStepRedo, dotUndo, was, is, phase>>
  BY <1>3
<1> HIDE DEF e
<1>7. /\ store' = e.lines /\ store' \in Buffer /\ Good(store', fresh')
      /\ marks' \in [Mark -> Number] /\ fresh' \in Nat /\ fresh <= fresh'
      /\ e.recs \in ChangeSet /\ trust' \in {"whole", "astray"}
      /\ ~Astray' => ~Astray /\ Chain(Ground, e.recs, store')
  <2>1. at \in Int
    OBVIOUS
  <2> QED BY <1>1, <1>5, <1>6, <2>1, Effect
<1>8. Ground = store
  BY <1>1 DEF Ground
<1>9. CASE e.ended
  <2>1. /\ cur' = <<>> /\ undo' \in Seq(ChangeSet) /\ redo' \in Seq(ChangeSet)
        /\ lastStepRedo' = TRUE
        /\ phase' \in {"none", "done"} /\ was' \in Buffer /\ is' \in Buffer
        /\ ~Astray' => Stacks(undo', redo', store', fresh')
        /\ LastChange'
    BY <1>6, <1>7, <1>8, <1>9, Committing
  <2>2. UNCHANGED <<gMarks, gLastEdit, body, next, flagged, visited, before>> /\ ~running'
    BY <1>1, <1>4 DEF loop, running
  <2>3. GlobalTyped'
    <3>1. <<>> \in ChangeSet
      BY DEF ChangeSet
    <3> QED BY <1>7, <2>1, <2>2, <3>1 DEF GlobalInv, GlobalTyped
  <2>4. AtRest' /\ InLoop' /\ MatchesFollowed' /\ Visits'
    <3>1. gMarks = <<>> /\ flagged = <<>>
      BY <1>1 DEF GlobalInv, AtRest
    <3> QED BY <1>1, <2>1, <2>2, <3>1 DEF AtRest, InLoop, MatchesFollowed, Visits
  <2>5. Reversible'
    <3>1. Ground' = store'
      BY <2>2 DEF Ground
    <3>2. Chain(store', <<>>, store')
      BY <1>7, ChainEmpty
    <3> QED BY <1>7, <2>1, <3>1, <3>2 DEF Reversible
  <2> QED BY <1>7, <2>1, <2>3, <2>4, <2>5 DEF GlobalInv
<1>10. CASE ~e.ended
  <2>1. e.lines = store /\ e.marks = marks /\ e.fresh = fresh
    <3>1. at \in Int
      OBVIOUS
    <3>2. Found(at).lines = store /\ Found(at).marks = marks /\ Found(at).fresh = fresh
      BY <1>1, <3>1, FoundSane
    <3> QED BY <1>5, <1>10, <3>2 DEF Finished
  <2>2. UNCHANGED <<store, marks, fresh>>
    BY <1>6, <2>1 DEF Edited
  <2>3. UNCHANGED <<cur, undo, redo, lastStepRedo, was, is, phase, cursor, loop>>
    BY <1>4, <1>6, <1>10
  <2>4. UNCHANGED <<gMarks, gLastEdit, body, next, flagged, visited, before>>
    BY <2>3 DEF loop
  <2>5. GlobalTyped'
    BY <1>7, <2>2, <2>3, <2>4 DEF GlobalInv, GlobalTyped
  <2>6. AtRest' /\ InLoop' /\ MatchesFollowed' /\ Visits'
    BY <2>2, <2>3, <2>4 DEF GlobalInv, AtRest, InLoop, MatchesFollowed, Visits, Phantom, running
  <2>7. Good(store', fresh') /\ (~Astray' => ~Astray)
    BY <1>7
  <2>8. Reversible' /\ LastChange'
    BY <2>2, <2>3, <2>4, <2>7 DEF GlobalInv, Reversible, LastChange, Ground, running
  <2> QED BY <2>5, <2>6, <2>7, <2>8 DEF GlobalInv
<1> QED BY <1>9, <1>10

\* A mark put where the user says.
LEMMA ExMarkInv ==
  ASSUME GlobalInv, NEW lno \in Nat, NEW m \in Mark, ExMark(lno, m)
  PROVE  GlobalInv'
<1>1. /\ UNCHANGED <<store, cur, undo, redo, cursor, lastStepRedo, fresh, was, is, phase, trust>>
      /\ UNCHANGED <<gMarks, gLastEdit, body, next, flagged, visited, before>>
      /\ marks' = [marks EXCEPT ![m] = lno] /\ lno \in Number
  BY DEF ExMark, log, loop, Number
<1>2. GlobalTyped'
  BY <1>1 DEF GlobalInv, GlobalTyped
<1>3. AtRest' /\ InLoop' /\ MatchesFollowed' /\ Visits'
  BY <1>1 DEF GlobalInv, AtRest, InLoop, MatchesFollowed, Visits, Phantom, running
<1>4. Good(store, fresh)' /\ Reversible' /\ LastChange'
  BY <1>1 DEF GlobalInv, Reversible, LastChange, Ground, running, Astray
<1> QED BY <1>2, <1>3, <1>4 DEF GlobalInv

\* The matches are the lines found.
LEMMA GlobalStartInv ==
  ASSUME Identified, GlobalInv, NEW c \in Bodies,
         NEW l1 \in 1..LineCount(store), NEW l2 \in 1..LineCount(store), NEW invert,
         l1 <= l2, GlobalStart(c, l1, l2, invert)
  PROVE  GlobalInv'
<1> DEFINE found == MatchList(l1, l2, invert)
<1>1. /\ ~running /\ store \in Buffer /\ Len(store) \in Nat
      /\ DOMAIN store = 1..Len(store) /\ LineCount(store) \in Nat
  BY DEF GlobalStart, GlobalInv, GlobalTyped, Buffer, LineCount
<1>2. l2 \in l1..LineCount(store) /\ l1 \in Int /\ l1 >= 1
  BY <1>1
<1>3. found \in Seq(1..LineCount(store))
  BY <1>1, <1>2, MatchListInside
<1>4. /\ gMarks' = found /\ flagged' = [i \in DOMAIN found |-> Get(store, found[i]).id]
      /\ gLastEdit' = 0 /\ body' = c /\ next' = 1 /\ visited' = {} /\ before' = store
      /\ cursor' \in 1..LineCount(store)
      /\ phase' = "none" /\ was' = <<>> /\ is' = <<>>
      /\ UNCHANGED <<store, undo, redo, marks, lastStepRedo, fresh, trust>>
  BY DEF GlobalStart, Begin, Remember
<1>5. cur' = <<>> /\ cur = <<>>
  <2>1. cur = <<>>
    BY <1>1 DEF GlobalInv, AtRest
  <2> QED BY <2>1 DEF GlobalStart, Begin
<1> HIDE DEF found
<1>6. \A i \in 1..Len(found) :
        /\ flagged'[i] \in Nat
        /\ store # <<>> => /\ found[i] \in 1..Len(store)
                           /\ flagged'[i] = store[found[i]].id
                           /\ store[found[i]].id < fresh
  <2> TAKE i \in 1..Len(found)
  <2>1. found[i] \in 1..LineCount(store) /\ found[i] \in Int
    <3> DEFINE N == LineCount(store)
    <3>1. found \in Seq(1..N) /\ N \in Nat
      BY <1>1, <1>3
    <3> HIDE DEF N
    <3>2. found[i] \in 1..N
      BY <3>1
    <3> QED BY <3>1, <3>2 DEF N
  <2>2. flagged'[i] = Get(store, found[i]).id
    BY <1>3, <1>4
  <2>3. Get(store, found[i]) \in Line
    BY <1>1, <2>1, StoreClosed, LineAssumption
  <2>4. flagged'[i] \in Nat
    BY <2>2, <2>3 DEF Identified
  <2>5. CASE store # <<>>
    <3>1. found[i] \in 1..Len(store)
      BY <1>1, <2>1, <2>5 DEF LineCount
    <3>2. flagged'[i] = store[found[i]].id
      BY <2>2, <3>1 DEF Get, InRange
    <3>3. store[found[i]].id < fresh
      BY <3>1 DEF GlobalInv, Good, Below
    <3> QED BY <2>4, <3>1, <3>2, <3>3
  <2> QED BY <2>4, <2>5
<1>7. Len(found) \in Nat /\ DOMAIN found = 1..Len(found) /\ found \in Seq(Number)
  <2> DEFINE N == LineCount(store)
  <2>1. found \in Seq(1..N) /\ N \in Nat
    BY <1>1, <1>3
  <2> HIDE DEF N
  <2>2. 1..N \subseteq Number
    BY <2>1 DEF Number
  <2> QED BY <2>1, <2>2
<1>8. flagged' \in Seq(Nat) /\ Len(flagged') = Len(found) /\ DOMAIN flagged' = 1..Len(found)
  <2>1. flagged' = [i \in 1..Len(found) |-> flagged'[i]]
    BY <1>4, <1>7
  <2>2. flagged' \in [1..Len(found) -> Nat]
    BY <1>6, <2>1
  <2> QED BY <1>7, <2>2
<1>9. GlobalTyped'
  <2>1. <<>> \in Buffer /\ <<>> \in ChangeSet
    BY DEF Buffer, ChangeSet
  <2> QED BY <1>1, <1>4, <1>5, <1>7, <1>8, <2>1 DEF GlobalInv, GlobalTyped
<1>10. AtRest' /\ InLoop' /\ LastChange'
  BY <1>4 DEF AtRest, InLoop, LastChange, running
<1>11. MatchesFollowed'
  <2>1. ~Phantom' => store # <<>>
    BY <1>4 DEF Phantom, running
  <2> QED BY <1>4, <1>6, <1>8, <2>1 DEF MatchesFollowed, Points
<1>12. Visits'
  BY <1>4, <1>8 DEF Visits
<1>13. Reversible'
  <2>1. Ground = store /\ Ground' = store
    BY <1>1, <1>4 DEF Ground, running
  <2>2. Chain(store, <<>>, store)
    BY <1>1, ChainEmpty
  <2>3. Astray' = Astray
    BY <1>4 DEF Astray
  <2> QED BY <1>4, <1>5, <2>1, <2>2, <2>3 DEF GlobalInv, Reversible
<1>14. Good(store, fresh)'
  BY <1>4 DEF GlobalInv
<1> QED BY <1>9, <1>10, <1>11, <1>12, <1>13, <1>14 DEF GlobalInv

\* A match passed over is gone: its number is in the buffer otherwise.
LEMMA GlobalSkipInv ==
  ASSUME GlobalInv, GlobalSkip
  PROVE  GlobalInv'
<1>1. /\ next # 0 /\ next <= Len(gMarks) /\ ~Visitable /\ next' = next + 1 /\ next \in Nat
      /\ UNCHANGED <<store, cur, undo, redo, marks, cursor, lastStepRedo, fresh, was, is, phase, trust>>
      /\ UNCHANGED <<gMarks, gLastEdit, body, flagged, visited, before>>
  BY DEF GlobalSkip, running, log, GlobalInv, GlobalTyped
<1>2. next' # 0 /\ running /\ running' /\ Phantom' = Phantom /\ Astray' = Astray
  BY <1>1 DEF running, Phantom, Astray
<1>3. GlobalTyped'
  BY <1>1 DEF GlobalInv, GlobalTyped
<1>4. AtRest' /\ InLoop' /\ MatchesFollowed'
  BY <1>1, <1>2 DEF GlobalInv, AtRest, InLoop, MatchesFollowed
<1>5. ~Phantom => Points(store, flagged[next], Gone)
  <2> SUFFICES ASSUME ~Phantom PROVE Points(store, flagged[next], Gone)
    OBVIOUS
  <2>1. next \in 1..Len(flagged) /\ Points(store, flagged[next], gMarks[next])
    BY <1>1 DEF GlobalInv, GlobalTyped, MatchesFollowed
  <2>2. gMarks[next] \notin 1..Len(store)
    <3>1. store \in Buffer /\ gMarks[next] \notin 1..LineCount(store)
      BY <1>1 DEF Visitable, target, GlobalInv, GlobalTyped
    <3>2. CASE store = <<>>
      BY <3>1, <3>2 DEF Buffer
    <3>3. CASE store # <<>>
      BY <3>1, <3>3 DEF LineCount
    <3> QED BY <3>2, <3>3
  <2> QED BY <2>1, <2>2 DEF Points
<1>6. Visits'
  <2> SUFFICES ASSUME ~Phantom, NEW i \in 1..Len(flagged), i < next + 1
               PROVE  flagged[i] \in visited \/ Points(store, flagged[i], Gone)
    BY <1>1, <1>2 DEF GlobalInv, Visits
  <2>1. i < next \/ i = next
    BY <1>1
  <2> QED BY <1>2, <1>5, <2>1 DEF GlobalInv, Visits
<1>7. Good(store, fresh)' /\ Reversible' /\ LastChange'
  BY <1>1, <1>2 DEF GlobalInv, Reversible, LastChange, Ground
<1> QED BY <1>3, <1>4, <1>6, <1>7 DEF GlobalInv

\* The line a match is visited on is the line that matched.
LEMMA TargetMatched ==
  ASSUME GlobalInv, running, next <= Len(gMarks), Visitable
  PROVE  /\ next \in 1..Len(gMarks) /\ next \in 1..Len(flagged)
         /\ target \in 1..LineCount(store)
         /\ ~Phantom => Get(store, target).id = flagged[next]
<1>0. /\ next \in 1..Len(gMarks) /\ Len(flagged) = Len(gMarks)
      /\ store \in Buffer /\ DOMAIN store = 1..Len(store)
      /\ target \in 1..LineCount(store)
  BY DEF GlobalInv, GlobalTyped, MatchesFollowed, running, Buffer, Visitable
<1> SUFFICES ASSUME ~Phantom PROVE Get(store, target).id = flagged[next]
  BY <1>0
<1>1. Points(store, flagged[next], gMarks[next])
  BY <1>0 DEF GlobalInv, MatchesFollowed
<1>2. target = gMarks[next] /\ target \in 1..LineCount(store) /\ target # Gone
  BY DEF target, Visitable, LineCount, Gone
<1>3. target \in 1..Len(store) /\ store[target].id = flagged[next]
  BY <1>1, <1>2 DEF Points
<1> QED BY <1>0, <1>3 DEF Get, InRange

LEMMA GlobalVisitInv ==
  ASSUME Identified, GlobalInv, GlobalVisit
  PROVE  GlobalInv'
<1>1. running /\ next # 0 /\ next <= Len(gMarks) /\ Visitable
  BY DEF GlobalVisit, running
<1>2. /\ next \in 1..Len(gMarks) /\ next \in 1..Len(flagged)
      /\ target \in Nat
      /\ ~Phantom => Get(store, target).id = flagged[next]
  BY <1>1, TargetMatched
<1>3. /\ body \in Command /\ cursor \in 1..LineCount(store) /\ phase = "none"
  BY <1>1, GlobalAssumption DEF GlobalInv, InLoop
<1>4. PICK stop \in Stops(body, target) :
        LET e == Executed(body, cursor, target, stop)
        IN  /\ Edited(e)
            /\ IF e.ok
                 THEN /\ cursor' = e.cursor
                      /\ cur' = e.recs
                      /\ gMarks' = e.gMarks
                      /\ gLastEdit' = e.gLastEdit
                      /\ next' = next + 1
                      /\ lastStepRedo' = TRUE /\ dotUndo' = FALSE
                      /\ visited' = visited \cup {Get(store, target).id}
                      /\ UNCHANGED <<open, undo, redo, body, flagged, before, was, is, phase>>
                 ELSE GlobalLeave(e.recs, e.lines)
  BY DEF GlobalVisit
<1> DEFINE e == Executed(body, cursor, target, stop)
<1>5. Finished(Found(cursor), e)
  BY <1>2, <1>3, CommandRuns, Zenon
<1>6. /\ Edited(e)
      /\ e.ok => /\ cursor' = e.cursor /\ cur' = e.recs
                 /\ gMarks' = e.gMarks /\ gLastEdit' = e.gLastEdit
                 /\ next' = next + 1 /\ lastStepRedo' = TRUE
                 /\ visited' = visited \cup {Get(store, target).id}
                 /\ UNCHANGED <<undo, redo, body, flagged, before, was, is, phase>>
      /\ ~e.ok => GlobalLeave(e.recs, e.lines)
  BY <1>4
<1> HIDE DEF e
<1>7. /\ store' = e.lines /\ store' \in Buffer /\ Good(store', fresh')
      /\ marks' \in [Mark -> Number] /\ fresh' \in Nat /\ fresh <= fresh'
      /\ e.recs \in ChangeSet /\ trust' \in {"whole", "astray"}
      /\ ~Astray' => ~Astray /\ Chain(Ground, e.recs, store')
      /\ e.gMarks \in Seq(Number) /\ Len(e.gMarks) = Len(gMarks)
      /\ e.gLastEdit \in Int /\ e.cursor \in Int
      /\ ~Phantom => \A i \in 1..Len(flagged) : Points(store', flagged[i], e.gMarks[i])
      /\ NoneBack(store, store', fresh)
  <2>1. cursor \in Int
    BY <1>3
  <2> QED BY <1>2, <1>5, <1>6, <2>1, Effect
<1>8. CASE ~e.ok
  BY <1>1, <1>6, <1>7, <1>8, Leaving
<1>9. CASE e.ok
  <2>1. /\ cursor' = e.cursor /\ cur' = e.recs
        /\ gMarks' = e.gMarks /\ gLastEdit' = e.gLastEdit
        /\ next' = next + 1 /\ next \in Nat /\ next' # 0 /\ running' /\ lastStepRedo' = TRUE
        /\ ~Phantom => visited' = visited \cup {flagged[next]}
        /\ UNCHANGED <<undo, redo, body, flagged, before, was, is, phase>>
    BY <1>2, <1>6, <1>9 DEF running
  <2>0. Phantom' = Phantom
    BY <1>1, <2>1 DEF Phantom
  <2>2. GlobalTyped'
    BY <1>7, <2>1 DEF GlobalInv, GlobalTyped
  <2>3. AtRest' /\ InLoop' /\ LastChange'
    <3>1. e.cursor \in 1..LineCount(store')
      BY <1>5, <1>7, <1>9 DEF Finished
    <3> QED BY <1>1, <1>3, <2>1, <3>1 DEF GlobalInv, AtRest, InLoop, LastChange
  <2>4. MatchesFollowed'
    <3>1. ~Phantom => \A i \in 1..Len(flagged) : flagged[i] < fresh'
      <4> SUFFICES ASSUME ~Phantom PROVE \A i \in 1..Len(flagged) : flagged[i] < fresh'
        OBVIOUS
      <4> TAKE i \in 1..Len(flagged)
      <4>1. flagged[i] \in Nat /\ flagged[i] < fresh /\ fresh \in Nat
        BY DEF GlobalInv, GlobalTyped, MatchesFollowed
      <4> QED BY <1>7, <4>1
    <3> QED BY <1>7, <2>0, <2>1, <3>1 DEF GlobalInv, MatchesFollowed
  <2>5. Visits'
    <3> SUFFICES ASSUME ~Phantom PROVE Visits'
      BY <2>0 DEF Visits
    <3>1. ASSUME NEW i \in 1..Len(flagged), i < next + 1
          PROVE  flagged[i] \in visited' \/ Points(store', flagged[i], Gone)
      <4>1. CASE i = next
        BY <2>1, <4>1
      <4>2. CASE i < next
        <5>1. flagged[i] \in visited \/ Points(store, flagged[i], Gone)
          BY <1>1, <4>2 DEF GlobalInv, Visits
        <5>2. CASE Points(store, flagged[i], Gone)
          <6>1. flagged[i] < fresh /\ \A j \in 1..Len(store) : store[j].id # flagged[i]
            BY <5>2 DEF Points, Gone, GlobalInv, MatchesFollowed
          <6>2. \A j \in 1..Len(store') : store'[j].id # flagged[i]
            BY <1>7, <6>1 DEF NoneBack
          <6> QED BY <6>2 DEF Points
        <5> QED BY <2>1, <5>1, <5>2
      <4> QED BY <2>1, <3>1, <4>1, <4>2
    <3>2. visited' \subseteq {flagged[i] : i \in DOMAIN flagged}
      <4>1. next \in DOMAIN flagged
        BY <1>2 DEF GlobalInv, GlobalTyped
      <4> QED BY <1>1, <2>1, <4>1 DEF GlobalInv, Visits
    <3> QED BY <2>1, <3>1, <3>2 DEF Visits
  <2>6. Reversible'
    <3>1. Ground = before /\ Ground' = before
      BY <1>1, <2>1 DEF Ground
    <3> SUFFICES ASSUME ~Astray' PROVE Reversible'
      BY DEF Reversible
    <3>2. /\ before \in Buffer /\ fresh \in Nat /\ Good(before, fresh)
          /\ Stacks(undo, redo, before, fresh)
      BY <1>7, <3>1 DEF GlobalInv, GlobalTyped, Reversible
    <3>3. Good(before, fresh') /\ Stacks(undo, redo, before, fresh')
      BY <1>7, <3>2, StacksLater, GoodLater
    <3> QED BY <1>7, <2>1, <3>1, <3>3 DEF Reversible
  <2> QED BY <1>7, <2>2, <2>3, <2>4, <2>5, <2>6 DEF GlobalInv
<1> QED BY <1>8, <1>9

\* Done, or interrupted between two matches.
LEMMA GlobalEndInv ==
  ASSUME Identified, GlobalInv, running, GlobalLeave(cur, store),
         UNCHANGED <<store, marks, fresh, trust>>
  PROVE  GlobalInv'
<1>1. /\ cur \in ChangeSet /\ store \in Buffer /\ fresh \in Nat /\ Good(store, fresh)
      /\ marks \in [Mark -> Number] /\ trust \in {"whole", "astray"}
      /\ ~Astray => Chain(Ground, cur, store)
  BY DEF GlobalInv, GlobalTyped, Reversible
<1>2. /\ store' \in Buffer /\ fresh' \in Nat /\ fresh <= fresh' /\ Good(store', fresh')
      /\ marks' \in [Mark -> Number] /\ trust' \in {"whole", "astray"}
      /\ ~Astray' => ~Astray /\ Chain(Ground, cur, store')
      /\ GlobalLeave(cur, store')
  BY <1>1 DEF Astray
<1> QED BY <1>1, <1>2, Leaving

\* What Undo and Redo do at rest, and what they find and leave.
LEMMA UndoTakesBack ==
  ASSUME GlobalInv, ~Astray, ~running, Undo
  PROVE  /\ store' \in Buffer /\ Good(store', fresh) /\ Stacks(undo', redo', store', fresh)
         /\ Chain(store', Last(undo), store) /\ Last(redo') = Last(undo) /\ redo' # <<>>
         /\ undo' \in Seq(ChangeSet) /\ redo' \in Seq(ChangeSet) /\ cur' = cur
<1>1. /\ store \in Buffer /\ undo \in Seq(ChangeSet) /\ redo \in Seq(ChangeSet)
      /\ Good(store, fresh) /\ Stacks(undo, redo, store, fresh)
  BY DEF GlobalInv, GlobalTyped, Reversible, Ground
<1>2. /\ undo # <<>> /\ store' = RevertAll(store, Last(undo)) /\ undo' = Front(undo)
      /\ redo' = Append(redo, Last(undo)) /\ cur' = cur
  BY DEF Undo
<1>3. Last(undo) \in ChangeSet /\ Front(undo) \in Seq(ChangeSet)
  BY <1>1, <1>2, FrontLast
<1>4. Last(redo') = Last(undo) /\ redo' # <<>> /\ redo' \in Seq(ChangeSet)
  <2>1. Len(redo') = Len(redo) + 1 /\ redo'[Len(redo) + 1] = Last(undo)
    BY <1>1, <1>2, <1>3
  <2> QED BY <1>1, <1>2, <1>3, <2>1 DEF Last
<1> QED BY <1>1, <1>2, <1>3, <1>4, StacksUndo

LEMMA RedoAppliesAgain ==
  ASSUME GlobalInv, ~Astray, ~running, Redo
  PROVE  /\ store' \in Buffer /\ Good(store', fresh) /\ Stacks(undo', redo', store', fresh)
         /\ Chain(store, Last(redo), store') /\ Last(undo') = Last(redo) /\ undo' # <<>>
         /\ undo' \in Seq(ChangeSet) /\ redo' \in Seq(ChangeSet) /\ cur' = cur
<1>1. /\ store \in Buffer /\ undo \in Seq(ChangeSet) /\ redo \in Seq(ChangeSet)
      /\ Good(store, fresh) /\ Stacks(undo, redo, store, fresh)
  BY DEF GlobalInv, GlobalTyped, Reversible, Ground
<1>2. /\ redo # <<>> /\ store' = ReplayAll(store, Last(redo)) /\ redo' = Front(redo)
      /\ undo' = Append(undo, Last(redo)) /\ cur' = cur
  BY DEF Redo
<1>3. Last(redo) \in ChangeSet /\ Front(redo) \in Seq(ChangeSet)
  BY <1>1, <1>2, FrontLast
<1>4. Last(undo') = Last(redo) /\ undo' # <<>> /\ undo' \in Seq(ChangeSet)
  <2>1. Len(undo') = Len(undo) + 1 /\ undo'[Len(undo) + 1] = Last(redo)
    BY <1>1, <1>2, <1>3
  <2> QED BY <1>1, <1>2, <1>3, <2>1 DEF Last
<1> QED BY <1>1, <1>2, <1>3, <1>4, StacksRedo

\* The last command taken back, or done again.
LEMMA LastUndone ==
  ASSUME GlobalInv, ~Astray, ~running, phase = "done", Undo
  PROVE  store' = was
<1>1. /\ Chain(was, Last(undo), store) /\ Chain(store', Last(undo), store)
      /\ was \in Buffer /\ store' \in Buffer
  BY UndoTakesBack DEF GlobalInv, LastChange, GlobalTyped
<1>2. Last(undo) \in ChangeSet
  BY FrontLast DEF Undo, GlobalInv, GlobalTyped
<1> QED BY <1>1, <1>2, ChainReverts

LEMMA LastRedone ==
  ASSUME GlobalInv, ~Astray, ~running, phase = "undone", Redo
  PROVE  store' = is
<1>1. Chain(store, Last(redo), is) /\ Chain(store, Last(redo), store')
  BY RedoAppliesAgain DEF GlobalInv, LastChange
<1> QED BY <1>1, ChainReplays

\* One step of u or . keeps all but the direction and what the last command was.
LEMMA StepBackInv ==
  ASSUME GlobalInv, ~Astray, ~running, Undo \/ Redo, Walked,
         UNCHANGED <<marks, cursor, loop, fresh, was, is>>,
         lastStepRedo' \in BOOLEAN, phase' \in {"none", "done", "undone"}, LastChange'
  PROVE  GlobalInv'
<1>1. UNCHANGED <<gMarks, gLastEdit, body, next, flagged, visited, before>> /\ ~running'
  BY DEF loop, running
<1>2. /\ store' \in Buffer /\ Good(store', fresh) /\ Stacks(undo', redo', store', fresh)
      /\ undo' \in Seq(ChangeSet) /\ redo' \in Seq(ChangeSet) /\ cur' = cur
  BY UndoTakesBack, RedoAppliesAgain
<1>3. cur = <<>> /\ gMarks = <<>> /\ flagged = <<>>
  BY DEF GlobalInv, AtRest
<1>4. GlobalTyped'
  <2>1. trust' = "whole"
    BY DEF Walked
  <2> QED BY <1>1, <1>2, <2>1 DEF GlobalInv, GlobalTyped
<1>5. AtRest' /\ InLoop' /\ MatchesFollowed' /\ Visits'
  BY <1>1, <1>2, <1>3 DEF AtRest, InLoop, MatchesFollowed, Visits
<1>6. Reversible'
  <2>1. Ground' = store' /\ Chain(store', <<>>, store')
    BY <1>1, <1>2, ChainEmpty DEF Ground
  <2> QED BY <1>2, <1>3, <2>1 DEF Reversible
<1> QED BY <1>2, <1>4, <1>5, <1>6 DEF GlobalInv

LEMMA ExUndoInv ==
  ASSUME GlobalInv, ExUndo
  PROVE  Torn' \/ GlobalInv'
<1>0. CASE Astray
  BY <1>0 DEF ExUndo, Walked, Torn
<1> SUFFICES ASSUME ~Astray PROVE GlobalInv'
  BY <1>0
<1>1. /\ ~running /\ Walked /\ UNCHANGED <<marks, cursor, loop, fresh, was, is>>
      /\ lastStepRedo => Undo
      /\ ~lastStepRedo => Redo
      /\ lastStepRedo' = ~lastStepRedo /\ lastStepRedo \in BOOLEAN
      /\ phase = "done" => phase' = "undone"
      /\ phase = "undone" => phase' = "done"
      /\ phase = "none" => phase' = "none"
      /\ phase \in {"none", "done", "undone"}
  BY DEF ExUndo, GlobalInv, GlobalTyped
<1>2. CASE phase = "done"
  <2>1. Undo /\ is = store
    BY <1>1, <1>2 DEF GlobalInv, LastChange
  <2>2. /\ store' = was /\ Chain(store', Last(undo), store)
        /\ Last(redo') = Last(undo) /\ redo' # <<>>
    BY <1>1, <1>2, <2>1, LastUndone, UndoTakesBack
  <2>3. lastStepRedo' = FALSE /\ phase' = "undone" /\ was' = was /\ is' = is
    BY <1>1, <1>2 DEF GlobalInv, LastChange
  <2>4. LastChange'
    BY <2>1, <2>2, <2>3 DEF LastChange
  <2> QED BY <1>1, <2>1, <2>3, <2>4, StepBackInv
<1>3. CASE phase = "undone"
  <2>1. Redo /\ was = store
    BY <1>1, <1>3 DEF GlobalInv, LastChange
  <2>2. /\ store' = is /\ Chain(store, Last(redo), store')
        /\ Last(undo') = Last(redo) /\ undo' # <<>>
    BY <1>1, <1>3, <2>1, LastRedone, RedoAppliesAgain
  <2>3. lastStepRedo' = TRUE /\ phase' = "done" /\ was' = was /\ is' = is
    BY <1>1, <1>3 DEF GlobalInv, LastChange
  <2>4. LastChange'
    BY <2>1, <2>2, <2>3 DEF LastChange
  <2> QED BY <1>1, <2>1, <2>3, <2>4, StepBackInv
<1>4. CASE phase = "none"
  <2>1. LastChange'
    BY <1>1, <1>4 DEF LastChange
  <2>2. lastStepRedo' \in BOOLEAN
    BY <1>1
  <2> QED BY <1>1, <1>4, <2>1, <2>2, StepBackInv
<1> QED BY <1>1, <1>2, <1>3, <1>4

LEMMA DotUndoInv ==
  ASSUME GlobalInv, DotUndo
  PROVE  Torn' \/ GlobalInv'
<1>0. CASE Astray
  BY <1>0 DEF DotUndo, Walked, Torn
<1> SUFFICES ASSUME ~Astray PROVE GlobalInv'
  BY <1>0
<1>1. /\ ~running /\ Walked /\ (Undo \/ Redo) /\ phase' = "none"
      /\ UNCHANGED <<marks, cursor, loop, fresh, was, is>> /\ lastStepRedo' = lastStepRedo
  BY DEF DotUndo
<1>2. lastStepRedo' \in BOOLEAN /\ phase' \in {"none", "done", "undone"}
  BY <1>1 DEF GlobalInv, GlobalTyped
<1>3. LastChange'
  BY <1>1 DEF LastChange
<1> QED BY <1>1, <1>2, <1>3, StepBackInv

\* The invariant is inductive, until an undo walks the record of an edit astray.
LEMMA GlobalStep ==
  ASSUME Identified, GlobalInv, [GNext]_gvars
  PROVE  Torn' \/ GlobalInv'
<1>0. LineCount(store) \in Nat /\ Over \in Nat
  BY UndoLogAssumption DEF LineCount, GlobalInv, GlobalTyped, Buffer
<1>1. ASSUME NEW c \in Command, NEW lno \in 0..(LineCount(store) + Over), Execute(c, lno)
      PROVE  GlobalInv'
  <2>1. lno \in Nat
    BY <1>0
  <2> QED BY <1>1, <2>1, ExecuteInv
<1>2. ASSUME NEW lno \in 1..(LineCount(store) + Over), NEW m \in Mark, ExMark(lno, m)
      PROVE  GlobalInv'
  <2>1. lno \in Nat
    BY <1>0
  <2> QED BY <1>2, <2>1, ExMarkInv
<1>3. ASSUME NEW c \in Bodies, NEW l1 \in 1..LineCount(store), NEW l2 \in 1..LineCount(store),
             NEW invert \in BOOLEAN, l1 <= l2, GlobalStart(c, l1, l2, invert)
      PROVE  GlobalInv'
  BY <1>3, GlobalStartInv
<1>4. CASE GlobalSkip
  BY <1>4, GlobalSkipInv
<1>5. CASE GlobalVisit
  BY <1>5, GlobalVisitInv
<1>6. CASE GlobalInterrupted
  BY <1>6, GlobalEndInv DEF GlobalInterrupted
<1>7. CASE GlobalEnd
  BY <1>7, GlobalEndInv DEF GlobalEnd
<1>8. CASE ExUndo
  BY <1>8, ExUndoInv
<1>9. CASE DotUndo
  BY <1>9, DotUndoInv
<1>10. CASE UNCHANGED gvars
  BY <1>10, SameInv DEF gvars, log
<1> QED BY <1>1, <1>2, <1>3, <1>4, <1>5, <1>6, <1>7, <1>8, <1>9, <1>10 DEF GNext

\* What is torn stays so.
LEMMA TornStays ==
  ASSUME Torn, [GNext]_gvars
  PROVE  Torn'
<1>1. ASSUME NEW c, NEW lno, Execute(c, lno)
      PROVE  trust' = trust
  BY <1>1 DEF Execute, Edited, Torn
<1>2. ASSUME NEW lno, NEW m, ExMark(lno, m)
      PROVE  trust' = trust
  BY <1>2 DEF ExMark
<1>3. ASSUME NEW c, NEW l1, NEW l2, NEW invert, GlobalStart(c, l1, l2, invert)
      PROVE  trust' = trust
  BY <1>3 DEF GlobalStart
<1>4. CASE GlobalVisit
  BY <1>4 DEF GlobalVisit, Edited, Torn
<1>5. CASE GlobalSkip \/ GlobalInterrupted \/ GlobalEnd
  BY <1>5 DEF GlobalSkip, GlobalInterrupted, GlobalEnd, Torn
<1>6. CASE ExUndo \/ DotUndo
  BY <1>6 DEF ExUndo, DotUndo, Walked, Astray, Torn
<1>7. CASE UNCHANGED gvars
  BY <1>7 DEF gvars, Torn
<1> QED BY <1>1, <1>2, <1>3, <1>4, <1>5, <1>6, <1>7 DEF GNext, Torn

-----------------------------------------------------------------------------
(***************************************************************************)
(* The theorems.                                                            *)
(***************************************************************************)

\* In every session the invariant holds.
LEMMA GlobalAlways ==
  ASSUME Identified
  PROVE  GSpec => [](Torn \/ GlobalInv)
<1>1. GInit => Torn \/ GlobalInv
  BY GlobalInit
<1>2. (Torn \/ GlobalInv) /\ [GNext]_gvars => (Torn \/ GlobalInv)'
  BY GlobalStep, TornStays
<1> QED BY <1>1, <1>2, PTL DEF GSpec

\* While :global runs, each number in its match list is the number of the line
\* that was matched, wherever insertions and deletions have shifted it, and none
\* if that line is deleted, as a move deletes it (exsearch.go, global;
\* screen.go, insertLine and deleteLine).  Bodies may go to marks and to numbers
\* that the buffer has not; until an undo walks such an edit.
THEOREM MatchesTracked ==
  ASSUME Identified
  PROVE  GSpec => []MatchTracked
<1>1. Torn \/ GlobalInv => MatchTracked
  <2> SUFFICES ASSUME GlobalInv, ~Phantom, NEW i \in DOMAIN gMarks
               PROVE  gMarks[i] = IF flagged[i] \in Ids(store) THEN LineOf(store, flagged[i])
                                                               ELSE Gone
    BY DEF MatchTracked
  <2>1. store \in Buffer /\ Distinct(store) /\ Points(store, flagged[i], gMarks[i])
    BY DEF GlobalInv, GlobalTyped, MatchesFollowed, Good
  <2> QED BY <2>1, PointsIs
<1> QED BY <1>1, GlobalAlways, PTL

\* A :global that runs to its end has run its command on every match still in
\* the buffer, and on no line that did not match (exsearch.go, global), whatever
\* its body does; until an undo walks an edit astray.
THEOREM NoMatchMissed ==
  ASSUME Identified
  PROVE  GSpec => NoneMissed
<1>1. ASSUME Torn \/ GlobalInv, GlobalEnd, ~Torn, ~Phantom
      PROVE  /\ \A i \in DOMAIN flagged : flagged[i] \in visited \/ flagged[i] \notin Ids(store)
             /\ visited \subseteq {flagged[i] : i \in DOMAIN flagged}
  <2>1. running /\ next > Len(gMarks) /\ next \in Nat /\ Len(flagged) = Len(gMarks)
    BY <1>1 DEF GlobalEnd, GlobalInv, GlobalTyped, MatchesFollowed
  <2>2. ASSUME NEW i \in DOMAIN flagged
        PROVE  flagged[i] \in visited \/ flagged[i] \notin Ids(store)
    <3>1. i \in 1..Len(flagged) /\ i < next /\ DOMAIN store = 1..Len(store)
      BY <1>1, <2>1 DEF GlobalInv, GlobalTyped, Buffer
    <3>2. flagged[i] \in visited \/ Points(store, flagged[i], Gone)
      BY <1>1, <2>1, <3>1 DEF GlobalInv, Visits
    <3> QED BY <3>1, <3>2 DEF Points, Ids, Gone
  <2> QED BY <1>1, <2>1, <2>2 DEF GlobalInv, Visits
<1>2. (Torn \/ GlobalInv) /\ [GNext]_gvars =>
        [GlobalEnd /\ ~Torn /\ ~Phantom =>
                      /\ \A i \in DOMAIN flagged :
                           flagged[i] \in visited \/ flagged[i] \notin Ids(store)
                      /\ visited \subseteq {flagged[i] : i \in DOMAIN flagged}]_gvars
  BY <1>1
<1> QED BY <1>2, GlobalAlways, PTL DEF NoneMissed, GSpec

\* One u takes the whole last command back, a :global included, and the next u
\* does it again (vi.go, doUndoCommand; exsearch.go, global), in a session that
\* has inserted and deleted only at numbers of its buffer.
THEOREM OneUndoEnough ==
  ASSUME Identified
  PROVE  GSpec => OneUndo
<1>1. ASSUME Torn \/ GlobalInv, ExUndo, ~Astray
      PROVE  /\ phase = "done" => store' = was
             /\ phase = "undone" => store' = is
  <2>1. GlobalInv /\ LastChange
    BY <1>1 DEF Torn, Astray, GlobalInv
  <2> QED BY <1>1, <2>1, LastUndone, LastRedone DEF ExUndo, LastChange
<1>2. (Torn \/ GlobalInv) /\ [GNext]_gvars =>
        [ExUndo /\ ~Astray =>
                   /\ phase = "done" => store' = was
                   /\ phase = "undone" => store' = is]_gvars
  BY <1>1
<1> QED BY <1>2, GlobalAlways, PTL DEF OneUndo, GSpec

\* A number that goes where its line goes stays on it.
LEMMA StaysIs ==
  ASSUME Identified, GlobalInv, GlobalInv', NEW m \in Mark,
         \A id \in Nat : id < fresh /\ Points(store, id, marks[m]) => Points(store', id, marks'[m])
  PROVE  StaysOn(m)
<1> SUFFICES ASSUME marks[m] \in DOMAIN store
             PROVE  LET id == store[marks[m]].id
                    IN  marks'[m] = IF id \in Ids(store') THEN LineOf(store', id) ELSE Gone
  BY DEF StaysOn
<1> DEFINE id == store[marks[m]].id
<1>1. /\ store \in Buffer /\ store' \in Buffer /\ Distinct(store')
      /\ DOMAIN store = 1..Len(store) /\ marks[m] \in 1..Len(store)
  <2>1. store \in Buffer /\ store' \in Buffer
    BY DEF GlobalInv, GlobalTyped
  <2>2. Distinct(store')
    BY DEF GlobalInv, Good
  <2>3. DOMAIN store = 1..Len(store)
    BY <2>1 DEF Buffer
  <2> QED BY <2>1, <2>2, <2>3
<1>2. id \in Nat /\ id < fresh
  BY <1>1, LineParts DEF GlobalInv, Good, Below
<1>3. Points(store, id, marks[m])
  BY <1>1 DEF Points
<1> HIDE DEF id
<1>4. Points(store', id, marks'[m])
  BY <1>2, <1>3
<1> QED BY <1>1, <1>4, PointsIs DEF id

\* No command takes a mark off its line: it goes where the line goes, and is
\* gone once the line is (mark.go; screen.go, insertLine and deleteLine).  A
\* line moved is deleted, and the mark on it gone; a mark put behind the buffer
\* stands on no line; and all this until an undo walks an edit astray.
THEOREM MarksStay ==
  ASSUME Identified
  PROVE  GSpec => MarksFollow
<1> DEFINE Follows == \/ Torn
                      \/ \A m \in Mark : StaysOn(m)
                      \/ \E lno \in 1..(LineCount(store) + Over), m \in Mark : ExMark(lno, m)
                      \/ ExUndo
                      \/ DotUndo
<1>1. ASSUME GlobalInv, GlobalInv', UNCHANGED <<store, marks>>
      PROVE  Follows
  BY <1>1, StaysIs
<1>2. ASSUME GlobalInv, GlobalInv', NEW c \in Command,
             NEW lno \in 0..(LineCount(store) + Over), Execute(c, lno)
      PROVE  Follows
  <2>1. ~running /\ lno \in Nat
    BY <1>2, UndoLogAssumption DEF Execute, GlobalInv, GlobalTyped, LineCount, Buffer
  <2>2. PICK stop \in Stops(c, lno), at \in 1..LineCount(store) : Edited(Executed(c, at, lno, stop))
    BY <1>2 DEF Execute
  <2>0. at \in Int
    OBVIOUS
  <2>3. Finished(Found(at), Executed(c, at, lno, stop))
    BY <1>2, <2>1, CommandRuns, Zenon
  <2>4. \A m \in Mark, id \in Nat :
          id < fresh /\ Points(store, id, marks[m]) => Points(store', id, marks'[m])
    BY <1>2, <2>0, <2>1, <2>2, <2>3, Effect
  <2> QED BY <1>2, <2>4, StaysIs
<1>4. ASSUME GlobalInv, GlobalInv', GlobalVisit
      PROVE  Follows
  <2>1. running /\ next \in 1..Len(gMarks) /\ target \in Nat
    BY <1>4, TargetMatched DEF GlobalVisit
  <2>2. body \in Command /\ cursor \in 1..LineCount(store) /\ cursor \in Int
    BY <1>4, GlobalAssumption DEF GlobalVisit, GlobalInv, InLoop
  <2>3. PICK stop \in Stops(body, target) : Edited(Executed(body, cursor, target, stop))
    BY <1>4 DEF GlobalVisit
  <2>4. Finished(Found(cursor), Executed(body, cursor, target, stop))
    BY <1>4, <2>1, <2>2, CommandRuns, Zenon
  <2>5. \A m \in Mark, id \in Nat :
          id < fresh /\ Points(store, id, marks[m]) => Points(store', id, marks'[m])
    BY <1>4, <2>1, <2>2, <2>3, <2>4, Effect
  <2> QED BY <1>4, <2>5, StaysIs
<1>5. ASSUME Torn \/ GlobalInv, (Torn \/ GlobalInv)', [GNext]_gvars
      PROVE  Follows \/ UNCHANGED gvars
  <2>1. ASSUME NEW c \in Bodies, NEW l1, NEW l2, NEW invert, GlobalStart(c, l1, l2, invert)
        PROVE  UNCHANGED <<store, marks>> /\ trust' = trust
    BY <2>1 DEF GlobalStart, Begin
  <2>2. GlobalSkip \/ GlobalInterrupted \/ GlobalEnd =>
          UNCHANGED <<store, marks>> /\ trust' = trust
    BY DEF GlobalSkip, GlobalInterrupted, GlobalEnd, log
  <2>3. Torn \/ ExUndo \/ DotUndo => Follows
    OBVIOUS
  <2>4. \A lno \in 1..(LineCount(store) + Over), m \in Mark : ExMark(lno, m) => Follows
    OBVIOUS
  <2>5. ASSUME ~Torn, GlobalVisit \/ \E c \in Command, lno \in 0..(LineCount(store) + Over) : Execute(c, lno)
        PROVE  ~Torn'
    BY <2>5 DEF GlobalVisit, Execute, Edited, Torn
  <2>6. ~Torn => GlobalInv /\ (~Torn' => GlobalInv')
    BY <1>5
  <2>7. ~Torn /\ trust' = trust => ~Torn'
    BY DEF Torn
  <2> HIDE DEF Follows
  <2>8. CASE GlobalVisit \/ \E c \in Command, lno \in 0..(LineCount(store) + Over) : Execute(c, lno)
    BY <1>2, <1>4, <2>3, <2>5, <2>6, <2>8
  <2> QED BY <1>1, <1>5, <2>1, <2>2, <2>3, <2>4, <2>6, <2>7, <2>8 DEF GNext
<1>6. (Torn \/ GlobalInv) /\ (Torn \/ GlobalInv)' /\ [GNext]_gvars => [Follows]_gvars
  BY <1>5
<1> QED BY <1>6, GlobalAlways, PTL DEF MarksFollow, GSpec
=============================================================================
