-------------------------------- MODULE Files --------------------------------
(***************************************************************************)
(* Editor sessions and the files they edit: the commands that write the     *)
(* buffer and those that leave it (engine/excmds.go, exfile.go), the write  *)
(* itself (engine/engine.go) and the advisory lock (engine/lock_unix.go).   *)
(*                                                                         *)
(* Each session is a process of its own.  What a command does to the file   *)
(* system is one step for each call that other sessions can see; a process  *)
(* may die between any two.  A write goes to a temporary file first, which  *)
(* nobody else sees: the rename that puts it in place is the step.          *)
(*                                                                         *)
(* Nobody looks at what Write returns: when the disk is full or a line does  *)
(* not get there, what the file gets is short, and the command goes on as    *)
(* if it were whole.                                                         *)
(*                                                                         *)
(* A lock sits on the file's inode.  A rename puts another inode there: the *)
(* lock of the old one is still held, and locks nothing (Orphan).           *)
(***************************************************************************)
EXTENDS Naturals, Sequences

CONSTANTS
  Session,    \* the processes
  File,       \* the names of files
  Text,       \* the texts that are told apart
  Scrap,      \* any other: of an empty buffer, a part, texts appended
  Missing,    \* what a file that does not exist holds
  NoLock, Orphan,
  Disks,      \* what the files may hold at the beginning
  Argv,       \* the argument list of each session
  Autowrite,  \* the option
  Ranges      \* what a write command writes: "all", a "part", or "append"

ASSUME FilesAssumption ==
  /\ Scrap \notin Text /\ Missing \notin Text \cup {Scrap}
  /\ {NoLock, Orphan} \cap File = {} /\ NoLock # Orphan
  /\ Disks \subseteq [File -> Text \cup {Missing}]
  /\ Argv \in Seq(File) /\ Argv # <<>>
  /\ Autowrite \in BOOLEAN
  /\ Ranges \subseteq {"all", "part", "append"}

VARIABLES
  disk,     \* file -> its content
  lock,     \* session -> the file whose lock it holds (lockF)
  buf,      \* session -> its buffer
  job,      \* session -> the command it is in
  up,       \* is the session running?
  seen,     \* history: what the file got, or gave, when it was last written
            \* as a whole, or read
  short     \* history: was that less than the buffer?

fvars == <<disk, lock, buf, job, up, seen, short>>

Content == Text \cup {Scrap}

Buffer ==
  [name : File, text : Content, modified : BOOLEAN, nameChanged : BOOLEAN,
   readonly : BOOLEAN, argIdx : DOMAIN Argv]

\* A command writes (range "none": nothing), and then stays, quits, or opens
\* another file.  A write is forced, or its guards were passed, or it is an
\* automatic one, which has none.
Job ==
  [step : {"idle", "start", "write", "append", "settle", "leave", "lock"},
   range : {"none", "all", "part", "append"}, target : File,
   force : BOOLEAN, auto : BOOLEAN,
   then : {"stay", "quit", "open"}, file : File, argIdx : DOMAIN Argv]

FTypeOK ==
  /\ disk \in [File -> Content \cup {Missing}]
  /\ lock \in [Session -> File \cup {NoLock, Orphan}]
  /\ buf \in [Session -> Buffer]
  /\ job \in [Session -> Job]
  /\ up \in [Session -> BOOLEAN]
  /\ seen \in [Session -> Content]
  /\ short \in [Session -> BOOLEAN]

-----------------------------------------------------------------------------

FreshBuffer ==
  [name |-> Argv[1], text |-> Scrap, modified |-> FALSE,
   nameChanged |-> FALSE, readonly |-> FALSE, argIdx |-> 1]

Parked ==
  [step |-> "idle", range |-> "none", target |-> Argv[1], force |-> FALSE,
   auto |-> FALSE, then |-> "open", file |-> Argv[1], argIdx |-> 1]

FInit ==
  /\ disk \in Disks
  /\ lock = [s \in Session |-> NoLock]
  /\ buf = [s \in Session |-> FreshBuffer]
  /\ job = [s \in Session |-> Parked]
  /\ up = [s \in Session |-> FALSE]
  /\ seen = [s \in Session |-> Scrap]
  /\ short = [s \in Session |-> FALSE]

\* What a session that has ended leaves in the model.
Ended(s) ==
  /\ up' = [up EXCEPT ![s] = FALSE]
  /\ lock' = [lock EXCEPT ![s] = NoLock]
  /\ buf' = [buf EXCEPT ![s] = FreshBuffer]
  /\ job' = [job EXCEPT ![s] = Parked]
  /\ seen' = [seen EXCEPT ![s] = Scrap]
  /\ short' = [short EXCEPT ![s] = FALSE]

\* The first file is opened; a session that cannot ends at once (Crash).
Start(s) ==
  /\ ~up[s]
  /\ up' = [up EXCEPT ![s] = TRUE]
  /\ job' = [job EXCEPT ![s].step = "start"]
  /\ UNCHANGED <<disk, lock, buf, seen, short>>

Idle(s) == up[s] /\ job[s].step = "idle"
At(s, step) == up[s] /\ job[s].step = step
Moving(s) == At(s, "start") \/ (At(s, "leave") /\ job[s].then = "open")

Edit(s) ==
  /\ Idle(s)
  /\ \E t \in Text \ {buf[s].text} :
       buf' = [buf EXCEPT ![s].text = t, ![s].modified = TRUE]
  /\ UNCHANGED <<disk, lock, job, up, seen, short>>

\* :f with a name.
exFile(s, f) ==
  /\ Idle(s)
  /\ buf' = [buf EXCEPT ![s].name = f,
                        ![s].nameChanged = @ \/ f # buf[s].name]
  /\ UNCHANGED <<disk, lock, job, up, seen, short>>

-----------------------------------------------------------------------------
(***************************************************************************)
(* Where a command goes when it has written, or instead of writing.         *)
(***************************************************************************)

\* Faulty variant: the list is counted from 0, the files from 1.
ArgMovesShifted(s) ==
  {[then |-> "open", file |-> Argv[i], argIdx |-> i - 1] :
     i \in {buf[s].argIdx + 1, buf[s].argIdx - 1, 1} \cap DOMAIN Argv}

\* :n, :prev and :rewind.
ArgMoves(s) ==
  {[then |-> "open", file |-> Argv[i], argIdx |-> i] :
     i \in {buf[s].argIdx + 1, buf[s].argIdx - 1, 1} \cap DOMAIN Argv}

\* :e, and the jumps to a tag or the alternate file.
FileMoves(s) ==
  {[then |-> "open", file |-> f, argIdx |-> buf[s].argIdx] : f \in File}

Stays(s) == [then |-> "stay", file |-> buf[s].name, argIdx |-> buf[s].argIdx]
Quits(s) == [Stays(s) EXCEPT !.then = "quit"]

Command(step, range, target, force, auto, move) ==
  [step |-> step, range |-> range, target |-> target, force |-> force,
   auto |-> auto, then |-> move.then, file |-> move.file, argIdx |-> move.argIdx]

\* Leaving the buffer without writing it: a modified one only with !.
Depart(s, force) ==
  /\ Idle(s)
  /\ ~buf[s].modified \/ force
  /\ \E move \in {Quits(s)} \cup ArgMoves(s) \cup FileMoves(s) :
       job' = [job EXCEPT ![s] =
                 Command("leave", "none", buf[s].name, force, FALSE, move)]
  /\ UNCHANGED <<disk, lock, buf, up, seen, short>>

\* :w, :wq, :x and :wn.  A read-only file is not written, and a file that is
\* not the buffer's own not replaced, without !.
exWrite(s, f, range, force) ==
  LET own == f = buf[s].name IN
  /\ Idle(s)
  /\ ~force => /\ ~(own /\ buf[s].readonly)
               /\ \/ range = "append"
                  \/ own /\ ~buf[s].nameChanged
                  \/ disk[f] = Missing
  /\ \E move \in {Stays(s), Quits(s)}
                  \cup {m \in ArgMoves(s) : m.argIdx = buf[s].argIdx + 1} :
       job' = [job EXCEPT ![s] =
                 Command(IF range = "append" THEN "append" ELSE "write",
                         range, f, force, FALSE, move)]
  /\ UNCHANGED <<disk, lock, buf, up, seen, short>>

\* Autowrite: Save("") before a move (checkModified), which a read-only
\* session does not do, or before a shell command or a suspension, which it
\* does.
Autosave(s) ==
  /\ Autowrite
  /\ Idle(s)
  /\ buf[s].modified
  /\ \E move \in {Stays(s)} \cup ArgMoves(s) \cup FileMoves(s) :
       /\ buf[s].readonly => move.then = "stay"
       /\ job' = [job EXCEPT ![s] =
                    Command("write", "all", buf[s].name, FALSE, TRUE, move)]
  /\ UNCHANGED <<disk, lock, buf, up, seen, short>>

-----------------------------------------------------------------------------
(***************************************************************************)
(* The steps of a command.                                                  *)
(***************************************************************************)

Written(s) == IF job[s].range = "all" THEN buf[s].text ELSE Scrap

\* Faulty variant: :wq and the others do not look at the error.
WriteFailsUnseen(s) ==
  /\ At(s, "write") \/ At(s, "append")
  /\ job' = [job EXCEPT ![s].step = "leave"]
  /\ UNCHANGED <<disk, lock, buf, up, seen, short>>

\* An error that is looked at, or an interrupt, before the rename: nothing has
\* happened, and the command ends here.
WriteFails(s) ==
  /\ At(s, "write")
  /\ job' = [job EXCEPT ![s] = Parked]
  /\ UNCHANGED <<disk, lock, buf, up, seen, short>>

\* What the file gets: all that is written, or less.
Put(s) == {Written(s), Scrap}

\* Faulty variant: a write of a range is taken for a save.
ReplaceSettled(s) ==
  LET f == job[s].target IN
  /\ At(s, "write")
  /\ \E put \in Put(s) :
       /\ disk' = [disk EXCEPT ![f] = put]
       /\ IF job[s].range = "all"
            THEN /\ seen' = [seen EXCEPT ![s] = put]
                 /\ short' = [short EXCEPT ![s] = put # buf[s].text]
            ELSE UNCHANGED <<seen, short>>
  /\ lock' = [t \in Session |-> IF lock[t] = f THEN Orphan ELSE lock[t]]
  /\ job' = [job EXCEPT ![s].step = "settle"]
  /\ UNCHANGED <<buf, up>>

\* The rename.  Whoever had locked the file has locked the old inode.
Replace(s) ==
  LET f == job[s].target IN
  /\ At(s, "write")
  /\ \E put \in Put(s) :
       /\ disk' = [disk EXCEPT ![f] = put]
       /\ IF job[s].range = "all"
            THEN /\ seen' = [seen EXCEPT ![s] = put]
                 /\ short' = [short EXCEPT ![s] = put # buf[s].text]
            ELSE UNCHANGED <<seen, short>>
  /\ lock' = [t \in Session |-> IF lock[t] = f THEN Orphan ELSE lock[t]]
  /\ job' = [job EXCEPT ![s].step =
               IF job[s].range = "all" THEN "settle" ELSE "leave"]
  /\ UNCHANGED <<buf, up>>

\* :w >> writes in place: the text, a part of it or nothing is appended, to a
\* file that now exists.
Appended(f) == {Scrap, disk[f]} \ {Missing}

AppendTo(s) ==
  /\ At(s, "append")
  /\ \E put \in Appended(job[s].target) :
       disk' = [disk EXCEPT ![job[s].target] = put]
  /\ job' = [job EXCEPT ![s].step = "leave"]
  /\ UNCHANGED <<lock, buf, up, seen, short>>

\* An interrupt leaves what has been appended so far; if the file cannot be
\* opened it is as it was.
AppendFails(s) ==
  /\ At(s, "append")
  /\ \E put \in Appended(job[s].target) \cup {disk[job[s].target]} :
       disk' = [disk EXCEPT ![job[s].target] = put]
  /\ job' = [job EXCEPT ![s] = Parked]
  /\ UNCHANGED <<lock, buf, up, seen, short>>

LockedElsewhere(s, f) == \E t \in Session \ {s} : lock[t] = f

\* What the session holds afterwards.
acquireLock(s, f) == IF LockedElsewhere(s, f) THEN NoLock ELSE f

\* Save has written the buffer's own file: it is clean, and if the session
\* had a lock it takes that of the new inode.
Settle(s) ==
  LET f == job[s].target
      own == f = buf[s].name
  IN
  /\ At(s, "settle")
  /\ IF own
       THEN /\ buf' = [buf EXCEPT ![s].modified = FALSE, ![s].nameChanged = FALSE]
            /\ lock' = IF lock[s] = NoLock THEN lock
                       ELSE [lock EXCEPT ![s] = acquireLock(s, f)]
       ELSE UNCHANGED <<buf, lock>>
  /\ job' = [job EXCEPT ![s].step = "leave"]
  /\ UNCHANGED <<disk, up, seen, short>>

\* The argument index has moved, the file could not be opened.
OpenFails(s) ==
  /\ At(s, "leave") /\ job[s].then = "open"
  /\ buf' = [buf EXCEPT ![s].argIdx = job[s].argIdx]
  /\ job' = [job EXCEPT ![s] = Parked]
  /\ UNCHANGED <<disk, lock, up, seen, short>>

\* A file that does not exist is a new, empty buffer; the lock stays.
OpenNew(s) ==
  LET f == job[s].file IN
  /\ Moving(s)
  /\ disk[f] = Missing
  /\ buf' = [buf EXCEPT ![s].name = f, ![s].text = Scrap, ![s].modified = FALSE,
                        ![s].nameChanged = FALSE, ![s].argIdx = job[s].argIdx]
  /\ seen' = [seen EXCEPT ![s] = Scrap]
  /\ short' = [short EXCEPT ![s] = FALSE]
  /\ job' = [job EXCEPT ![s] = Parked]
  /\ UNCHANGED <<disk, lock, up>>

Open(s) ==
  LET f == job[s].file IN
  /\ Moving(s)
  /\ disk[f] # Missing
  /\ buf' = [buf EXCEPT ![s].name = f, ![s].text = disk[f], ![s].modified = FALSE,
                        ![s].nameChanged = FALSE, ![s].argIdx = job[s].argIdx]
  /\ seen' = [seen EXCEPT ![s] = disk[f]]
  /\ short' = [short EXCEPT ![s] = FALSE]
  /\ lock' = [lock EXCEPT ![s] = NoLock]
  /\ job' = [job EXCEPT ![s].step = "lock"]
  /\ UNCHANGED <<disk, up>>

\* A file somebody else has locked is read-only here.
TakeLock(s) ==
  LET f == job[s].file IN
  /\ At(s, "lock")
  /\ lock' = [lock EXCEPT ![s] = acquireLock(s, f)]
  /\ buf' = [buf EXCEPT ![s].readonly = @ \/ LockedElsewhere(s, f)]
  /\ job' = [job EXCEPT ![s] = Parked]
  /\ UNCHANGED <<disk, up, seen, short>>

Stay(s) ==
  /\ At(s, "leave") /\ job[s].then = "stay"
  /\ job' = [job EXCEPT ![s] = Parked]
  /\ UNCHANGED <<disk, lock, buf, up, seen, short>>

Quit(s) ==
  /\ At(s, "leave") /\ job[s].then = "quit"
  /\ Ended(s)
  /\ UNCHANGED disk

Crash(s) == up[s] /\ Ended(s) /\ UNCHANGED disk

FNext ==
  \E s \in Session :
    \/ Start(s) \/ Edit(s) \/ Crash(s) \/ Autosave(s)
    \/ \E f \in File : exFile(s, f)
    \/ \E force \in BOOLEAN :
         \/ Depart(s, force)
         \/ \E f \in File, range \in Ranges : exWrite(s, f, range, force)
    \/ WriteFails(s) \/ Replace(s) \/ AppendTo(s) \/ AppendFails(s) \/ Settle(s)
    \/ OpenFails(s) \/ OpenNew(s) \/ Open(s) \/ TakeLock(s) \/ Stay(s) \/ Quit(s)

FSpec == FInit /\ [][FNext]_fvars

-----------------------------------------------------------------------------
(***************************************************************************)
(* Properties.                                                              *)
(***************************************************************************)

\* A buffer that is not marked as modified is what the file gave or got when
\* it was last read, or written as a whole, through renamings, partial and
\* failed writes, and writes to other files (excmds.go, exWrite: a partial write
\* "never clears the modified flag"); except when that write came out short
\* and nobody noticed.
CleanIsSaved ==
  \A s \in Session : ~buf[s].modified /\ ~short[s] => buf[s].text = seen[s]

Leaves(s) == Quit(s) \/ Open(s) \/ OpenNew(s)

\* The buffer a command is given in is not left without ! before its text has
\* been written as a whole, whichever command leaves it; except when that write
\* came out short, and by :wq, :x and :wn with a range, which quit after having
\* written a part (split.go, finishQuit: "Callers must have already done any
\* write and dirty/force checks").
LeftWhole ==
  [][\A s \in Session :
       Leaves(s) /\ ~job[s].force /\ ~short[s] /\ job[s].range \in {"none", "all"}
         => buf[s].text = seen[s]]_fvars

\* Between commands, what a clean buffer holds has reached the file (engine.go:
\* "writeFile saves the buffer to path, atomically via a temp file + rename").
\* Violated: the errors of Write are dropped, and what did get there is renamed
\* over the file.
CleanReachedFile ==
  \A s \in Session : Idle(s) /\ ~buf[s].modified => buf[s].text = seen[s]

\* No file is replaced without ! while another session that edits it holds its
\* lock (engine.go, Open: "open read-only and warn so the readonly write-guard
\* protects the first session's edits").
LockProtects ==
  [][\A s, t \in Session :
       Replace(t) /\ ~job[t].force /\ s # t /\ buf[s].name = job[t].target
         => lock[s] # job[t].target]_fvars
=============================================================================
