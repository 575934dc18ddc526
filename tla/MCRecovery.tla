----------------------------- MODULE MCRecovery -----------------------------
(***************************************************************************)
(* A bounded instance of the recovery machinery.                            *)
(***************************************************************************)
EXTENDS Recovery, TLC

CONSTANTS f1, f2, rel

\* The one relative name stands for f1 in the process's directory.
ByDir == [d \in Dirs |-> [nm \in {rel} |-> IF d = Home THEN f1 ELSE f2]]

\* Screens and texts are model values that are only compared with each other,
\* so permuting them gives the same behaviours.
Symmetry == Permutations(Screens) \cup Permutations(Texts)

\* The state without what is never read again: the buffers of screens that are
\* not on display, and, when the session is over, which screen was active and
\* the buffers the snapshot does not account for.
Read == IF alive THEN shown ELSE {covered} \ {None}

StillRead ==
  <<alive, cwd, IF alive THEN cur ELSE None,
    [s \in Read |-> <<name[s], text[s], modified[s], undoable[s]>>],
    pending, rpath, rdirty, rkeep, dir, clock, faults, crashes, covered, preserved, owed>>

\* What meets what is bounded.  Two screens meet failing writes, on files with
\* absolute names within a second; insert mode is gone through with one screen.
ScreensMeet ==
  /\ cwd = Home /\ clock = 0 /\ crashes = 0
  /\ \A s \in shown : name[s] \notin Relative
  /\ pending => Cardinality(shown) = 1

\* Sessions of one screen, of whole commands and with the disk at its best, meet
\* directories, a relative name, a clock and crashes; the first to crash may have
\* had two screens.  The one behind the last crash is followed until it has a
\* recovery file of its own.
SessionsMeet ==
  /\ alive => Cardinality(shown) = 1
  /\ faults = 0 /\ ~pending
  /\ alive /\ crashes = MaxCrashes => rpath = None

Bounds == ScreensMeet \/ SessionsMeet
=============================================================================
