----------------------------- MODULE Interrupt -----------------------------
(***************************************************************************)
(* ^C between two goroutines.  The forwarder of the terminal frontend       *)
(* (frontend/tcell/screen.go, forwardInterrupts) reads the screen's events, *)
(* notes each ^C at once in the engine's flag and channel, and queues every *)
(* event for the main loop.  The main loop feeds the queued events to       *)
(* Engine.Input one by one; a searching command polls the flag, a command   *)
(* that waits for a child selects on the channel, and both are reset when   *)
(* Input returns.  Noting and resetting are two steps each, and the steps   *)
(* of the two goroutines interleave.                                        *)
(*                                                                         *)
(* Q leaves the visual loop for ex mode, where lines are read from the      *)
(* terminal and fed to exFeed.  There ^C is SIGINT, which the host reads    *)
(* between two commands and which sets neither flag nor channel: it changes *)
(* nothing here and has no action.                                          *)
(*                                                                         *)
(* An event is what the engine does when its last key arrives: "quick" ends *)
(* at once, "search" polls, "shell" waits for a child that may never end,   *)
(* "Q" enters ex mode, "intr" is ^C.  A timer of the visual loop runs out    *)
(* in the same Input.  Resizes and signals do not touch the interrupt and    *)
(* are left out.                                                            *)
(***************************************************************************)
EXTENDS Sequences, Naturals

CONSTANTS
  Keys,       \* the events the user may type in the visual loop
  ExLines,    \* the lines the user may enter in ex mode
  MaxTyped,   \* bound: events of one visual session
  MaxLines    \* bound: lines entered in ex mode

ASSUME KeysAssumption ==
  /\ Keys \subseteq {"quick", "search", "shell", "Q", "intr"}
  /\ ExLines \subseteq {"quick", "search", "shell", "vi"}
ASSUME BoundsAssumption == MaxTyped \in Nat /\ MaxLines \in Nat

VARIABLES
  screen,     \* events the terminal library holds, not yet read (external)
  source,     \* its reader: "open", "closing", "closed", "gone"
  noting,     \* the forwarder has set the flag for a ^C, not yet the channel
  queue,      \* the forwarder's queue
  flag,       \* Engine.interrupted
  chan,       \* Engine.interruptCh holds its token
  running,    \* the event or line the main goroutine executes
  step,       \* "idle", "run", then "flag" and "chan" of clearInterrupt
  exMode,     \* ExActive()
  loop,       \* the main loop: "wait" or "burst" in runVisual, else "ex"
  typed,      \* history: the events of this visual session, as typed
  handled,    \* history: those given to Input
  lines       \* history: the ex lines entered (bounded)

fwdVars  == <<source, noting, queue>>
intVars  == <<flag, chan>>
runVars  == <<running, step, exMode>>
history  == <<typed, handled, lines>>
vars == <<screen, fwdVars, intVars, runVars, loop, history>>

Long == {"search", "shell"}

Init ==
  /\ screen = <<>> /\ source = "open" /\ noting = FALSE /\ queue = <<>>
  /\ flag = FALSE /\ chan = FALSE
  /\ running = "quick" /\ step = "idle" /\ exMode = FALSE /\ loop = "wait"
  /\ typed = <<>> /\ handled = <<>> /\ lines = 0

-----------------------------------------------------------------------------
(* The user and the terminal library. *)

\* A key is typed while the screen is up.
TypeKey ==
  /\ loop # "ex"
  /\ Len(typed) < MaxTyped
  /\ \E k \in Keys :
       /\ screen' = Append(screen, k)
       /\ typed' = Append(typed, k)
  /\ UNCHANGED <<fwdVars, intVars, runVars, loop, handled, lines>>

\* The reader selects between the closed quit channel and the next event, and
\* between it and handing that event on, at random: it may still deliver events
\* (Receive), and when it closes raw, an event it has just taken off the screen
\* is dropped.
SourceCloses ==
  /\ source = "closing"
  /\ source' = "closed"
  /\ \/ UNCHANGED screen
     \/ screen # <<>> /\ screen' = Tail(screen)
  /\ UNCHANGED <<noting, queue, intVars, runVars, loop, history>>

-----------------------------------------------------------------------------
(* The forwarder: receive from raw, note a ^C, hand on to the main loop. *)

\* Faulty: reads on only when nothing waits to be handed over.
RawReadyDrained == source \in {"open", "closing"} /\ ~noting /\ screen # <<>> /\ queue = <<>>

\* raw is received whatever is queued.
RawReady == source \in {"open", "closing"} /\ ~noting /\ screen # <<>>

\* An ordinary event is queued; for a ^C, Interrupt() first stores the flag.
Receive ==
  /\ RawReady
  /\ screen' = Tail(screen)
  /\ IF Head(screen) = "intr"
       THEN flag' = TRUE /\ noting' = TRUE /\ UNCHANGED queue
       ELSE queue' = Append(queue, Head(screen)) /\ UNCHANGED <<flag, noting>>
  /\ UNCHANGED <<source, chan, runVars, loop, history>>

\* Faulty: a ^C overtakes the events typed before it.
SignalFirst ==
  /\ noting
  /\ chan' = TRUE
  /\ noting' = FALSE
  /\ queue' = <<"intr">> \o queue
  /\ UNCHANGED <<screen, source, flag, runVars, loop, history>>

\* Then it puts the token, unless one is there, and the ^C is queued.
Signal ==
  /\ noting
  /\ chan' = TRUE
  /\ noting' = FALSE
  /\ queue' = Append(queue, "intr")
  /\ UNCHANGED <<screen, source, flag, runVars, loop, history>>

\* raw is closed: whatever is queued is dropped.
ForwarderEnds ==
  /\ source = "closed" /\ ~noting
  /\ source' = "gone"
  /\ queue' = <<>>
  /\ UNCHANGED <<screen, noting, intVars, runVars, loop, history>>

-----------------------------------------------------------------------------
(* The main goroutine in the visual loop. *)

\* processEvents or runVisual receives the next event and calls Input.  A
\* burst goes on whatever mode its last event left.
Take ==
  /\ step = "idle" /\ ~noting /\ queue # <<>>
  /\ loop = "burst" \/ (loop = "wait" /\ ~exMode)
  /\ source = "open"
  /\ running' = Head(queue)
  /\ queue' = Tail(queue)
  /\ handled' = Append(handled, Head(queue))
  /\ step' = "run"
  /\ loop' = "burst"
  /\ UNCHANGED <<screen, source, noting, intVars, exMode, typed, lines>>

\* The timer of a map prefix or a showmatch flash runs out: Input gets a timeout,
\* and keys that were held back may complete a command.
TimeOut ==
  /\ step = "idle" /\ loop = "wait" /\ ~exMode
  /\ running' \in {"quick"} \cup {k \in Keys : handled # <<>> /\ k # "intr"}
  /\ step' = "run"
  /\ UNCHANGED <<screen, fwdVars, intVars, exMode, loop, history>>

\* No event is ready: the burst is painted and ends.
EndBurst ==
  /\ loop = "burst" /\ step = "idle"
  /\ loop' = "wait"
  /\ UNCHANGED <<screen, fwdVars, intVars, runVars, history>>

\* Faulty: the visual loop ends and its reader keeps reading.
LeaveReading ==
  /\ loop = "wait" /\ step = "idle" /\ exMode
  /\ loop' = "ex"
  /\ screen' = Append(screen, "intr")
  /\ UNCHANGED <<fwdVars, intVars, runVars, history>>

\* The visual loop sees ex mode: it closes quit and posts an interrupt event
\* of its own, to wake the reader.
Leave ==
  /\ loop = "wait" /\ step = "idle" /\ exMode
  /\ loop' = "ex"
  /\ source' = "closing"
  /\ screen' = Append(screen, "intr")
  /\ UNCHANGED <<noting, queue, intVars, runVars, history>>

-----------------------------------------------------------------------------
(* A command of the engine, from the visual loop or from an ex line. *)

\* Input's deferred clearInterrupt follows; exFeed has none.
Return == step' = IF loop = "ex" THEN "idle" ELSE "flag"

\* A command that neither polls nor waits.
RunQuick ==
  /\ step = "run" /\ running \notin Long
  /\ exMode' = CASE running = "Q"  -> TRUE
                 [] running = "vi" -> FALSE
                 [] OTHER          -> exMode
  /\ Return
  /\ UNCHANGED <<screen, fwdVars, intVars, running, loop, history>>

\* A poll finds the flag clear: the search may end with it, or go on.
SearchEnds ==
  /\ step = "run" /\ running = "search" /\ ~flag
  /\ Return
  /\ UNCHANGED <<screen, fwdVars, intVars, running, exMode, loop, history>>

\* A poll finds the flag set.
SearchAborts ==
  /\ step = "run" /\ running = "search" /\ flag
  /\ Return
  /\ UNCHANGED <<screen, fwdVars, intVars, running, exMode, loop, history>>

\* awaitCmd: the child ended.
ShellEnds ==
  /\ step = "run" /\ running = "shell"
  /\ Return
  /\ UNCHANGED <<screen, fwdVars, intVars, running, exMode, loop, history>>

\* awaitCmd: the token is received and the child killed.
ShellKilled ==
  /\ step = "run" /\ running = "shell" /\ chan
  /\ chan' = FALSE
  /\ Return
  /\ UNCHANGED <<screen, fwdVars, flag, running, exMode, loop, history>>

\* clearInterrupt, first half.
ResetFlag ==
  /\ step = "flag"
  /\ flag' = FALSE
  /\ step' = "chan"
  /\ UNCHANGED <<screen, fwdVars, chan, running, exMode, loop, history>>

\* Faulty: the token is left in the channel.
ResetFlagOnly ==
  /\ step = "chan"
  /\ step' = "idle"
  /\ UNCHANGED <<screen, fwdVars, intVars, running, exMode, loop, history>>

\* clearInterrupt, second half.
ResetChannel ==
  /\ step = "chan"
  /\ chan' = FALSE
  /\ step' = "idle"
  /\ UNCHANGED <<screen, fwdVars, flag, running, exMode, loop, history>>

-----------------------------------------------------------------------------
(* Ex mode.  The user enters a line, or returns to the visual loop, only     *)
(* once the goroutines of the last visual session have ended.               *)

ExLine ==
  /\ loop = "ex" /\ source = "gone" /\ step = "idle" /\ exMode
  /\ lines < MaxLines
  /\ running' \in ExLines
  /\ step' = "run"
  /\ lines' = lines + 1
  /\ UNCHANGED <<screen, fwdVars, intVars, exMode, loop, typed, handled>>

\* A new reader and forwarder find what the screen still holds.
VisualAgain ==
  /\ loop = "ex" /\ source = "gone" /\ step = "idle" /\ ~exMode
  /\ loop' = "wait"
  /\ source' = "open"
  /\ typed' = screen
  /\ handled' = <<>>
  /\ UNCHANGED <<screen, noting, queue, intVars, runVars, lines>>

-----------------------------------------------------------------------------
Forwarder == Receive \/ Signal \/ ForwarderEnds
Abort == SearchAborts \/ ShellKilled
Reset == ResetFlag \/ ResetChannel

Next ==
  \/ TypeKey \/ SourceCloses \/ Forwarder
  \/ Take \/ TimeOut \/ EndBurst \/ Leave
  \/ RunQuick \/ SearchEnds \/ ShellEnds \/ Abort \/ Reset
  \/ ExLine \/ VisualAgain

\* The goroutines are scheduled; a search keeps polling; a child need not end.
Fairness ==
  /\ WF_vars(Forwarder) /\ WF_vars(Take) /\ WF_vars(RunQuick)
  /\ WF_vars(Abort) /\ WF_vars(Reset)

Spec == Init /\ [][Next]_vars /\ Fairness

-----------------------------------------------------------------------------
Event == Keys \cup {"intr"}
Seen(s) == {s[i] : i \in DOMAIN s}

\* The variables have their types; a reader is open exactly while the visual
\* loop runs, and only Input resets the interrupt.
TypeOK ==
  /\ screen \in Seq(Event) /\ queue \in Seq(Event)
  /\ typed \in Seq(Event) /\ handled \in Seq(Event) /\ lines \in Nat
  /\ source \in {"open", "closing", "closed", "gone"}
  /\ noting \in BOOLEAN /\ flag \in BOOLEAN /\ chan \in BOOLEAN /\ exMode \in BOOLEAN
  /\ running \in Event \cup ExLines \cup {"quick"}
  /\ step \in {"idle", "run", "flag", "chan"}
  /\ loop \in {"wait", "burst", "ex"}
  /\ (source = "open") <=> (loop # "ex")
  /\ loop = "ex" => step \in {"idle", "run"}

\* The events typed in a visual session reach Input in the order they were
\* typed, none lost and none twice, though the forwarder reads ahead of the
\* main loop and stops halfway to note a ^C.
InOrder ==
  loop # "ex" =>
    typed = handled \o queue \o (IF noting THEN <<"intr">> ELSE <<>>) \o screen

\* A ^C the main loop has not been given yet.
Unanswered ==
  \/ noting
  \/ "intr" \in Seen(queue)
  \/ step # "idle" /\ running = "intr"

\* Until ex mode is first entered, flag and channel are set only for a ^C
\* whose own event is still on its way to Input: once that Input has returned
\* nothing of it is left, however the two resets interleave with the two
\* notes, so no later command is aborted by it.
NoneLeft == lines = 0 /\ loop # "ex" /\ (flag \/ chan) => Unanswered

\* No interrupt is left from before when an ex line starts to run (interrupt.go:
\* "a stale ^C cannot abort the next command").  Violated: nothing resets in ex
\* mode what is noted when the visual loop ends.
ExLineFresh == loop = "ex" /\ step = "run" => ~flag

\* A command in the visual loop is stopped by a ^C typed while it runs, with
\* any number of events typed ahead of the ^C, even if the command would never
\* end by itself.
InterruptStops ==
  (step = "run" /\ running \in Long /\ loop # "ex" /\ "intr" \in Seen(screen))
     ~> (step # "run")
=============================================================================
