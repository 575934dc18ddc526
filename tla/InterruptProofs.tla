--------------------------- MODULE InterruptProofs ---------------------------
(***************************************************************************)
(* No event is lost or overtaken between the terminal and Input, and a ^C   *)
(* leaves nothing behind for a later command, for any bound on the events   *)
(* of a session and the lines of ex mode.                                   *)
(***************************************************************************)
EXTENDS Interrupt, SequenceTheorems, TLAPS

\* A forwarder that has ended has nothing in its hands.
EndedEmpty == source = "gone" => queue = <<>> /\ ~noting

\* Before the first ex line nothing runs in ex mode and nothing leaves it.
FirstEx == lines = 0 /\ loop = "ex" => exMode /\ step = "idle"

\* Between the two resets the flag can only have been set by a ^C that is
\* still on its way: the reset of the flag is behind, and no event is taken.
HalfReset ==
  lines = 0 /\ loop # "ex" /\ step = "chan" /\ flag => noting \/ "intr" \in Seen(queue)

\* The inductive invariant.
InterruptInv == TypeOK /\ InOrder /\ NoneLeft /\ EndedEmpty /\ FirstEx /\ HalfReset

-----------------------------------------------------------------------------
\* What an appended event, and a taken one, mean for the events in a queue.
LEMMA SeenAppend ==
  ASSUME NEW s \in Seq(Event), NEW e \in Event
  PROVE  Seen(Append(s, e)) = Seen(s) \cup {e}
<1>1. /\ Len(s) \in Nat /\ DOMAIN s = 1..Len(s)
      /\ DOMAIN Append(s, e) = 1..(Len(s) + 1)
      /\ \A i \in 1..Len(s) : Append(s, e)[i] = s[i]
      /\ Append(s, e)[Len(s) + 1] = e
  OBVIOUS
<1> QED BY <1>1 DEF Seen

LEMMA SeenTail ==
  ASSUME NEW s \in Seq(Event), s # <<>>
  PROVE  Seen(s) = Seen(Tail(s)) \cup {Head(s)}
<1>1. /\ Len(s) \in Nat /\ Len(s) > 0 /\ DOMAIN s = 1..Len(s)
      /\ DOMAIN Tail(s) = 1..(Len(s) - 1)
      /\ Head(s) = s[1]
      /\ \A i \in 1..(Len(s) - 1) : Tail(s)[i] = s[i + 1]
  OBVIOUS
<1>2. ASSUME NEW i \in 1..Len(s), i # 1
      PROVE  s[i] = Tail(s)[i - 1] /\ i - 1 \in DOMAIN Tail(s)
  <2>1. i - 1 \in 1..(Len(s) - 1) /\ (i - 1) + 1 = i
    BY <1>1, <1>2
  <2> QED BY <1>1, <2>1
<1>3. 1 \in DOMAIN s /\ \A i \in DOMAIN Tail(s) : i + 1 \in DOMAIN s
  BY <1>1
<1>4. Seen(s) \subseteq Seen(Tail(s)) \cup {Head(s)}
  <2>1. ASSUME NEW i \in DOMAIN s PROVE s[i] \in Seen(Tail(s)) \cup {Head(s)}
    <3>1. CASE i = 1
      BY <1>1, <3>1
    <3>2. CASE i # 1
      BY <1>1, <1>2, <3>2 DEF Seen
    <3> QED BY <3>1, <3>2
  <2> QED BY <2>1 DEF Seen
<1>5. Seen(Tail(s)) \cup {Head(s)} \subseteq Seen(s)
  BY <1>1, <1>3 DEF Seen
<1> QED BY <1>4, <1>5

\* A sequence is its first element and the rest.
LEMMA HeadAndTail ==
  ASSUME NEW s \in Seq(Event), s # <<>>
  PROVE  s = <<Head(s)>> \o Tail(s)
<1>1. Head(s) \in Event /\ Tail(s) \in Seq(Event) /\ Len(Tail(s)) = Len(s) - 1
      /\ \A i \in 1..Len(Tail(s)) : Tail(s)[i] = s[i + 1]
  BY HeadTailProperties
<1> DEFINE t == <<Head(s)>> \o Tail(s)
<1>2. t \in Seq(Event) /\ Len(t) = Len(s)
  BY <1>1
<1>3. ASSUME NEW i \in 1..Len(s) PROVE s[i] = t[i]
  <2>1. CASE i = 1
    BY <1>1, <2>1
  <2>2. CASE i # 1
    <3>1. i - 1 \in 1..Len(Tail(s)) /\ (i - 1) + 1 = i
      BY <1>1, <2>2
    <3>2. t[i] = Tail(s)[i - 1]
      BY <1>1, <2>2
    <3> QED BY <1>1, <3>1, <3>2
  <2> QED BY <2>1, <2>2
<1> HIDE DEF t
<1> QED BY <1>2, <1>3, SeqEqual

\* The forwarder takes an event off the screen: the order stays.
LEMMA EventReceived ==
  ASSUME NEW h \in Seq(Event), NEW q \in Seq(Event), NEW s \in Seq(Event), s # <<>>
  PROVE  h \o q \o <<>> \o s = h \o q \o <<Head(s)>> \o Tail(s)
<1>1. Head(s) \in Event /\ Tail(s) \in Seq(Event) /\ <<Head(s)>> \in Seq(Event)
  BY HeadTailProperties
<1>2. h \o q \in Seq(Event) /\ h \o q \o <<>> = h \o q
  BY ConcatEmptySeq
<1>3. h \o q \o <<Head(s)>> \o Tail(s) = h \o q \o (<<Head(s)>> \o Tail(s))
  BY <1>1, <1>2, ConcatAssociative
<1> QED BY <1>2, <1>3, HeadAndTail

\* It hands the event to the main loop's queue: the order stays.
LEMMA EventQueued ==
  ASSUME NEW h \in Seq(Event), NEW q \in Seq(Event), NEW s \in Seq(Event), NEW e \in Event
  PROVE  h \o Append(q, e) \o <<>> \o s = h \o q \o <<e>> \o s
<1>1. Append(q, e) \in Seq(Event) /\ <<e>> \in Seq(Event) /\ Append(q, e) = q \o <<e>>
  BY AppendIsConcat
<1>2. h \o Append(q, e) \in Seq(Event)
  BY <1>1
<1>3. h \o Append(q, e) \o <<>> = h \o Append(q, e)
  BY <1>2, ConcatEmptySeq
<1>4. h \o (q \o <<e>>) = h \o q \o <<e>>
  BY <1>1, ConcatAssociative
<1> QED BY <1>1, <1>3, <1>4

\* The main loop gives the head of the queue to Input: the order stays.
LEMMA EventHandled ==
  ASSUME NEW h \in Seq(Event), NEW q \in Seq(Event), q # <<>>
  PROVE  Append(h, Head(q)) \o Tail(q) = h \o q
<1>1. Head(q) \in Event /\ Tail(q) \in Seq(Event) /\ <<Head(q)>> \in Seq(Event)
  BY HeadTailProperties
<1>2. Append(h, Head(q)) = h \o <<Head(q)>>
  BY <1>1, AppendIsConcat
<1>3. h \o <<Head(q)>> \o Tail(q) = h \o (<<Head(q)>> \o Tail(q))
  BY <1>1, ConcatAssociative
<1> QED BY <1>2, <1>3, HeadAndTail

\* A typed event comes last.
LEMMA EventTyped ==
  ASSUME NEW b \in Seq(Event), NEW s \in Seq(Event), NEW e \in Event
  PROVE  b \o Append(s, e) = Append(b \o s, e)
<1>1. b \o s \in Seq(Event) /\ <<e>> \in Seq(Event)
  OBVIOUS
<1>2. Append(s, e) = s \o <<e>> /\ Append(b \o s, e) = b \o s \o <<e>>
  BY <1>1, AppendIsConcat
<1>3. b \o (s \o <<e>>) = b \o s \o <<e>>
  BY <1>1, ConcatAssociative
<1> QED BY <1>2, <1>3

-----------------------------------------------------------------------------
LEMMA TypeInit == Init => TypeOK
<1>1. Init => lines \in Nat
  BY DEF Init
<1> QED BY <1>1, EmptySeq DEF Init, TypeOK

\* The types are kept by every step.
LEMMA TypeStep == TypeOK /\ [Next]_vars => TypeOK'
<1> SUFFICES ASSUME TypeOK, [Next]_vars PROVE TypeOK'
  OBVIOUS
<1> USE DEF TypeOK
<1>1. CASE TypeKey
  <2>1. PICK k \in Keys : screen' = Append(screen, k) /\ typed' = Append(typed, k)
    BY <1>1 DEF TypeKey
  <2>2. k \in Event
    BY DEF Event
  <2>3. screen' \in Seq(Event) /\ typed' \in Seq(Event)
    BY <2>1, <2>2
  <2> QED BY <1>1, <2>3 DEF TypeKey, fwdVars, intVars, runVars
<1>2. CASE SourceCloses
  <2>1. screen' \in Seq(Event)
    BY <1>2, HeadTailProperties DEF SourceCloses
  <2> QED BY <1>2, <2>1 DEF SourceCloses, intVars, runVars, history
<1>3. CASE Receive
  <2>1. screen' \in Seq(Event) /\ Head(screen) \in Event
    BY <1>3, HeadTailProperties DEF Receive, RawReady
  <2>2. queue' \in Seq(Event)
    <3>1. Append(queue, Head(screen)) \in Seq(Event)
      BY <2>1
    <3> QED BY <1>3, <3>1 DEF Receive
  <2> QED BY <1>3, <2>1, <2>2 DEF Receive, RawReady, runVars, history
<1>4. CASE Signal
  <2>1. queue' \in Seq(Event)
    BY <1>4 DEF Signal, Event
  <2> QED BY <1>4, <2>1 DEF Signal, runVars, history
<1>5. CASE ForwarderEnds
  BY <1>5 DEF ForwarderEnds, intVars, runVars, history
<1>6. CASE Take
  <2>1. queue' \in Seq(Event) /\ running' \in Event
    BY <1>6, HeadTailProperties DEF Take
  <2>2. handled' \in Seq(Event)
    BY <1>6, <2>1 DEF Take
  <2> QED BY <1>6, <2>1, <2>2 DEF Take, intVars
<1>17. CASE TimeOut
  BY <1>17 DEF TimeOut, Event, fwdVars, intVars, history
<1>7. CASE EndBurst
  BY <1>7 DEF EndBurst, fwdVars, intVars, runVars, history
<1>8. CASE Leave
  <2>1. screen' \in Seq(Event)
    BY <1>8 DEF Leave, Event
  <2> QED BY <1>8, <2>1 DEF Leave, intVars, runVars, history
<1>9. CASE RunQuick
  BY <1>9 DEF RunQuick, Return, fwdVars, intVars, history
<1>10. CASE SearchEnds \/ ShellEnds \/ Abort
  BY <1>10 DEF SearchEnds, ShellEnds, Abort, SearchAborts, ShellKilled, Return, fwdVars,
               intVars, history
<1>11. CASE Reset
  BY <1>11 DEF Reset, ResetFlag, ResetChannel, fwdVars, history
<1>12. CASE ExLine
  BY <1>12 DEF ExLine, fwdVars, intVars
<1>13. CASE VisualAgain
  BY <1>13 DEF VisualAgain, intVars, runVars
<1>14. CASE UNCHANGED vars
  BY <1>14 DEF vars, fwdVars, intVars, runVars, history
<1> QED
  BY <1>1, <1>2, <1>3, <1>4, <1>5, <1>6, <1>7, <1>8, <1>9, <1>10, <1>11, <1>12, <1>13,
     <1>14, <1>17 DEF Next, Forwarder

-----------------------------------------------------------------------------
\* What the steps of a command have in common: no event moves.
LEMMA RunStep ==
  ASSUME RunQuick \/ SearchEnds \/ ShellEnds \/ Abort
  PROVE  /\ step = "run" /\ step' = (IF loop = "ex" THEN "idle" ELSE "flag")
         /\ UNCHANGED <<screen, source, noting, queue, flag, running, loop, typed, handled,
                       lines>>
         /\ chan' => chan
<1>1. CASE RunQuick
  BY <1>1 DEF RunQuick, Return, fwdVars, intVars, history
<1>2. CASE SearchEnds \/ SearchAborts
  BY <1>2 DEF SearchEnds, SearchAborts, Return, fwdVars, intVars, history
<1>3. CASE ShellEnds
  BY <1>3 DEF ShellEnds, Return, fwdVars, intVars, history
<1>4. CASE ShellKilled
  BY <1>4 DEF ShellKilled, Return, fwdVars, intVars, history
<1> QED BY <1>1, <1>2, <1>3, <1>4 DEF Abort

\* The invariant is inductive.
LEMMA InterruptStep == InterruptInv /\ [Next]_vars => InterruptInv'
<1> SUFFICES ASSUME InterruptInv, [Next]_vars PROVE InterruptInv'
  OBVIOUS
<1>1. TypeOK /\ TypeOK'
  BY TypeStep DEF InterruptInv
<1> DEFINE N == IF noting THEN <<"intr">> ELSE <<>>
<1>2. N \in Seq(Event) /\ screen \in Seq(Event) /\ queue \in Seq(Event)
      /\ handled \in Seq(Event) /\ "intr" \in Event
  <2>1. "intr" \in Event
    BY DEF Event
  <2> QED BY <1>1, <2>1 DEF TypeOK
<1>3. CASE TypeKey
  <2>1. PICK k \in Keys : screen' = Append(screen, k) /\ typed' = Append(typed, k)
    BY <1>3 DEF TypeKey
  <2>2. k \in Event
    BY DEF Event
  <2>3. /\ loop # "ex"
        /\ UNCHANGED <<source, noting, queue, flag, chan, running, step, exMode, loop, handled,
                      lines>>
    BY <1>3 DEF TypeKey, fwdVars, intVars, runVars
  <2>4. InOrder'
    <3>1. handled \o queue \o N \o Append(screen, k)
            = Append(handled \o queue \o N \o screen, k)
      <4>1. handled \o queue \o N \in Seq(Event)
        BY <1>2
      <4> QED BY <1>2, <2>2, <4>1, EventTyped
    <3>2. typed = handled \o queue \o N \o screen
      BY <2>3 DEF InterruptInv, InOrder
    <3> QED BY <2>1, <2>3, <3>1, <3>2 DEF InOrder
  <2> QED
    BY <1>1, <2>3, <2>4
    DEF InterruptInv, NoneLeft, Unanswered, EndedEmpty, FirstEx, HalfReset
<1>4. CASE SourceCloses
  <2>1. /\ source = "closing" /\ source' = "closed"
        /\ UNCHANGED <<noting, queue, flag, chan, running, step, exMode, loop, lines>>
    BY <1>4 DEF SourceCloses, intVars, runVars, history
  <2>2. loop = "ex"
    BY <1>1, <2>1 DEF TypeOK
  <2> QED
    BY <1>1, <2>1, <2>2
    DEF InterruptInv, InOrder, NoneLeft, EndedEmpty, FirstEx, HalfReset
<1>5. CASE Receive
  <2>1. /\ screen # <<>> /\ source \in {"open", "closing"} /\ ~noting /\ screen' = Tail(screen)
        /\ UNCHANGED <<source, chan, running, step, exMode, loop, typed, handled, lines>>
    BY <1>5 DEF Receive, RawReady, runVars, history
  <2>2. Head(screen) \in Event /\ Tail(screen) \in Seq(Event)
    BY <1>2, <2>1, HeadTailProperties
  <2>3. EndedEmpty' /\ FirstEx'
    BY <2>1 DEF InterruptInv, EndedEmpty, FirstEx
  <2>4. loop # "ex" => typed = handled \o queue \o <<>> \o screen
    BY <2>1 DEF InterruptInv, InOrder
  <2>5. loop # "ex" => typed = handled \o queue \o <<Head(screen)>> \o Tail(screen)
    BY <1>2, <2>1, <2>4, EventReceived
  <2>6. CASE Head(screen) = "intr"
    <3>1. flag' = TRUE /\ noting' = TRUE /\ queue' = queue
      BY <1>5, <2>6 DEF Receive
    <3>2. InOrder'
      BY <2>1, <2>5, <2>6, <3>1 DEF InOrder
    <3> QED
      BY <1>1, <2>1, <2>3, <3>1, <3>2 DEF InterruptInv, NoneLeft, Unanswered, HalfReset
  <2>7. CASE Head(screen) # "intr"
    <3>1. queue' = Append(queue, Head(screen)) /\ UNCHANGED <<flag, noting>>
      BY <1>5, <2>7 DEF Receive
    <3>2. InOrder'
      <4>1. handled \o Append(queue, Head(screen)) \o <<>> \o Tail(screen)
              = handled \o queue \o <<Head(screen)>> \o Tail(screen)
        BY <1>2, <2>2, EventQueued
      <4> QED BY <2>1, <2>5, <3>1, <4>1 DEF InOrder
    <3>3. Seen(queue) \subseteq Seen(queue')
      BY <1>2, <2>2, <3>1, SeenAppend
    <3> QED
      BY <1>1, <2>1, <2>3, <3>1, <3>2, <3>3 DEF InterruptInv, NoneLeft, Unanswered, HalfReset
  <2> QED BY <2>6, <2>7
<1>6. CASE Signal
  <2>1. /\ noting /\ chan' = TRUE /\ noting' = FALSE /\ queue' = Append(queue, "intr")
        /\ UNCHANGED <<screen, source, flag, running, step, exMode, loop, typed, handled, lines>>
    BY <1>6 DEF Signal, runVars, history
  <2>2. "intr" \in Seen(queue')
    BY <1>2, <2>1, SeenAppend
  <2>3. source # "gone"
    BY <2>1 DEF InterruptInv, EndedEmpty
  <2>4. InOrder'
    <3>1. handled \o Append(queue, "intr") \o <<>> \o screen
            = handled \o queue \o <<"intr">> \o screen
      BY <1>2, EventQueued
    <3> QED BY <2>1, <3>1 DEF InterruptInv, InOrder
  <2> QED
    BY <1>1, <2>1, <2>2, <2>3, <2>4
    DEF InterruptInv, NoneLeft, Unanswered, EndedEmpty, FirstEx, HalfReset
<1>7. CASE ForwarderEnds
  <2>1. /\ source = "closed" /\ ~noting /\ queue' = <<>>
        /\ UNCHANGED <<screen, noting, flag, chan, running, step, exMode, loop, lines>>
    BY <1>7 DEF ForwarderEnds, intVars, runVars, history
  <2>2. loop = "ex"
    BY <1>1, <2>1 DEF TypeOK
  <2> QED
    BY <1>1, <2>1, <2>2
    DEF InterruptInv, InOrder, NoneLeft, EndedEmpty, FirstEx, HalfReset
<1>8. CASE Take
  <2>1. /\ step = "idle" /\ ~noting /\ queue # <<>> /\ source = "open"
        /\ running' = Head(queue) /\ queue' = Tail(queue)
        /\ handled' = Append(handled, Head(queue)) /\ step' = "run" /\ loop' = "burst"
        /\ UNCHANGED <<screen, source, noting, flag, chan, typed, lines>>
    BY <1>8 DEF Take, intVars
  <2>2. Seen(queue) = Seen(queue') \cup {running'}
    BY <1>2, <2>1, SeenTail
  <2>3. loop # "ex"
    BY <1>1, <2>1 DEF TypeOK
  <2>4. InOrder'
    <3>1. Append(handled, Head(queue)) \o Tail(queue) \o <<>> \o screen
            = handled \o queue \o <<>> \o screen
      BY <1>2, <2>1, EventHandled
    <3> QED BY <2>1, <2>3, <3>1 DEF InterruptInv, InOrder
  <2>5. NoneLeft'
    BY <2>1, <2>2, <2>3 DEF InterruptInv, NoneLeft, Unanswered
  <2> QED
    BY <1>1, <2>1, <2>4, <2>5 DEF InterruptInv, EndedEmpty, FirstEx, HalfReset
<1>17. CASE TimeOut
  BY <1>1, <1>17
  DEF TimeOut, fwdVars, intVars, history, InterruptInv, InOrder, NoneLeft, Unanswered,
      EndedEmpty, FirstEx, HalfReset
<1>9. CASE EndBurst
  BY <1>1, <1>9
  DEF EndBurst, fwdVars, intVars, runVars, history, InterruptInv, InOrder, NoneLeft,
      Unanswered, EndedEmpty, FirstEx, HalfReset
<1>10. CASE Leave
  BY <1>1, <1>10
  DEF Leave, intVars, runVars, history, InterruptInv, InOrder, NoneLeft, EndedEmpty,
      FirstEx, HalfReset
<1>11. CASE RunQuick \/ SearchEnds \/ ShellEnds \/ Abort
  <2>1. /\ step = "run" /\ step' = (IF loop = "ex" THEN "idle" ELSE "flag")
        /\ UNCHANGED <<screen, source, noting, queue, flag, running, loop, typed, handled,
                      lines>>
        /\ chan' => chan
    BY <1>11, RunStep
  <2>2. lines = 0 => loop # "ex"
    BY <2>1 DEF InterruptInv, FirstEx
  <2> QED
    BY <1>1, <2>1, <2>2
    DEF InterruptInv, InOrder, NoneLeft, Unanswered, EndedEmpty, FirstEx, HalfReset
<1>12. CASE ResetFlag
  BY <1>1, <1>12
  DEF ResetFlag, fwdVars, history, TypeOK, InterruptInv, InOrder, NoneLeft, Unanswered,
      EndedEmpty, FirstEx, HalfReset
<1>13. CASE ResetChannel
  BY <1>1, <1>13
  DEF ResetChannel, fwdVars, history, TypeOK, InterruptInv, InOrder, NoneLeft, Unanswered,
      EndedEmpty, FirstEx, HalfReset
<1>14. CASE ExLine
  <2>1. lines' # 0
    BY <1>1, <1>14 DEF ExLine, TypeOK
  <2> QED
    BY <1>1, <1>14, <2>1
    DEF ExLine, fwdVars, intVars, InterruptInv, InOrder, NoneLeft, EndedEmpty, FirstEx,
        HalfReset
<1>15. CASE VisualAgain
  <2>1. /\ loop = "ex" /\ source = "gone" /\ ~exMode
        /\ source' = "open" /\ typed' = screen /\ handled' = <<>>
        /\ UNCHANGED <<screen, noting, queue, flag, chan, running, step, exMode, lines>>
    BY <1>15 DEF VisualAgain, intVars, runVars
  <2>2. lines # 0
    BY <2>1 DEF InterruptInv, FirstEx
  <2>3. queue = <<>> /\ ~noting
    BY <2>1 DEF InterruptInv, EndedEmpty
  <2>4. InOrder'
    <3>1. <<>> \o <<>> \o <<>> \o screen = screen
      BY <1>2, ConcatEmptySeq
    <3> QED BY <2>1, <2>3, <3>1 DEF InOrder
  <2> QED
    BY <1>1, <2>1, <2>2, <2>4 DEF InterruptInv, NoneLeft, EndedEmpty, FirstEx, HalfReset
<1>16. CASE UNCHANGED vars
  BY <1>1, <1>16
  DEF vars, fwdVars, intVars, runVars, history, InterruptInv, InOrder, NoneLeft, Unanswered,
      EndedEmpty, FirstEx, HalfReset
<1> QED
  BY <1>3, <1>4, <1>5, <1>6, <1>7, <1>8, <1>9, <1>10, <1>11, <1>12, <1>13, <1>14, <1>15,
     <1>16, <1>17 DEF Next, Forwarder, Reset

\* Every reachable state satisfies the invariant.
LEMMA InterruptInvariant == Spec => []InterruptInv
<1>1. Init => InterruptInv
  <2> SUFFICES ASSUME Init PROVE InterruptInv
    OBVIOUS
  <2>1. <<>> \o <<>> \o <<>> \o <<>> = <<>>
    BY EmptySeq, ConcatEmptySeq
  <2> QED
    BY TypeInit, <2>1
    DEF Init, InterruptInv, InOrder, NoneLeft, EndedEmpty, FirstEx, HalfReset
<1>2. InterruptInv /\ [Next]_vars => InterruptInv'
  BY InterruptStep
<1> QED BY <1>1, <1>2, PTL DEF Spec

-----------------------------------------------------------------------------
\* The variables have their types, and the reader, the loop and the resets
\* their pairing, for sessions of any length.
THEOREM InterruptTyped == Spec => []TypeOK
<1>1. InterruptInv => TypeOK
  BY DEF InterruptInv
<1> QED BY <1>1, InterruptInvariant, PTL

\* The forwarder loses, doubles and reorders no event.
THEOREM EventsInOrder == Spec => []InOrder
<1>1. InterruptInv => InOrder
  BY DEF InterruptInv
<1> QED BY <1>1, InterruptInvariant, PTL

\* A ^C leaves nothing behind once its own Input has returned.
THEOREM NothingLeft == Spec => []NoneLeft
<1>1. InterruptInv => NoneLeft
  BY DEF InterruptInv
<1> QED BY <1>1, InterruptInvariant, PTL
=============================================================================
