------------------------------ MODULE Recovery ------------------------------
(***************************************************************************)
(* Crash recovery (engine/recovery.go and its callers).  The engine keeps   *)
(* one recovery state for the whole editor, however many screens are on     *)
(* display; the snapshots are files of the recovery directory, which         *)
(* outlive the session.  A buffer is abstracted to its text, a recovery      *)
(* file's name to its place in the order of the directory, and time to the   *)
(* whole seconds a snapshot records.                                        *)
(***************************************************************************)
EXTENDS Integers, FiniteSets

CONSTANTS
  Screens,    \* the screens that can be on display
  Dirs,       \* the directories the editor can be in
  Home,       \* the one the process was started in
  Files,      \* the files that can be edited, as absolute names
  Relative,   \* the relative names that can be typed
  At,         \* directory -> relative name -> the file it stands for there
  Texts,      \* the contents a buffer can have
  Ids,        \* the names CreateTemp can give a recovery file
  NoName,     \* the buffer has no file
  None,       \* no screen, no recovery file, no snapshot
  MaxClock,   \* seconds explored
  MaxFaults,  \* number of failing disk writes explored
  MaxCrashes  \* number of sessions that end without a clean exit

Names == Files \cup Relative

ASSUME RecoveryAssumption ==
  /\ Home \in Dirs /\ At \in [Dirs -> [Relative -> Files]]
  /\ Files \cap Relative = {} /\ NoName \notin Names
  /\ None \notin Screens \cup Ids /\ Ids \subseteq Nat
  /\ MaxClock \in Nat /\ MaxFaults \in Nat /\ MaxCrashes \in Nat

VARIABLES
  alive,     \* a session is running
  cwd,       \* the editor's directory, which :cd sets
  shown,     \* the screens on display
  cur,       \* the active one
  name,      \* screen -> its file, as it was typed
  text,      \* screen -> the content of its buffer
  modified,  \* screen -> changed since it was last written
  undoable,  \* screen -> its undo log is not empty
  pending,   \* text is being typed: the change set of cur is still open
  rpath,     \* recoverPath
  rdirty,    \* recoverDirty: changes are not in the snapshot yet
  rkeep,     \* recoverKeep: :preserve has been given
  dir,       \* the snapshots in the recovery directory
  clock,     \* the time, in seconds
  faults,    \* writes that failed so far
  crashes    \* sessions that crashed so far

\* What the properties compare with; read by no action.
VARIABLES
  covered,   \* the screen whose unsaved changes the snapshot accounts for
  preserved, \* the snapshots :preserve has written, as last written
  owed       \* file -> the snapshot a crashed session left behind of it

bufs == <<name, text, modified, undoable>>
recovery == <<rpath, rdirty, rkeep, dir, faults, covered>>
vars == <<alive, cwd, shown, cur, name, text, modified, undoable, pending, rpath, rdirty,
          rkeep, dir, clock, faults, crashes, covered, preserved, owed>>

Snapshot == [id : Ids, orig : Files, text : Texts, time : 0..MaxClock]
SnapIds(d) == {r.id : r \in d}

\* No two files of a directory have the same name.
DistinctIds(d) == \A r, s \in d : r.id = s.id => r = s

TypeOK ==
  /\ alive \in BOOLEAN /\ pending \in BOOLEAN /\ cwd \in Dirs
  /\ shown \subseteq Screens /\ cur \in shown
  /\ name \in [Screens -> Names \cup {NoName}]
  /\ text \in [Screens -> Texts]
  /\ modified \in [Screens -> BOOLEAN]
  /\ undoable \in [Screens -> BOOLEAN]
  /\ rpath \in Ids \cup {None} /\ rdirty \in BOOLEAN /\ rkeep \in BOOLEAN
  /\ dir \subseteq Snapshot
  /\ DistinctIds(dir)
  /\ clock \in 0..MaxClock
  /\ faults \in 0..MaxFaults /\ crashes \in 0..MaxCrashes
  /\ covered \in shown \cup {None}
  /\ preserved \subseteq Snapshot
  /\ owed \in [Files -> Snapshot \cup {None}]

(***************************************************************************)
(* Names.                                                                   *)
(***************************************************************************)
\* The file name nm stands for in directory d.
FileAt(d, nm) == IF nm \in Relative THEN At[d][nm] ELSE nm

\* The editor resolves names against its own directory.
resolvePath(nm) == FileAt(cwd, nm)

\* filepath.Abs resolves them against the one of the process, which :cd does
\* not change.
Abs(nm) == FileAt(Home, nm)

(***************************************************************************)
(* The recovery directory.                                                  *)
(***************************************************************************)
Without(d, id) == {r \in d : r.id # id}

\* Faulty variant: a snapshot is written beside the one it replaces.
StoredBeside(d, r) == d \cup {r}

\* The snapshot is written to a temporary file and renamed over its path.
Stored(d, r) == Without(d, r.id) \cup {r}

\* Faulty variant: the recovery file is named after the file being edited.
UnusedByName(d) == IF d # {} THEN SnapIds(d) ELSE Ids

\* os.CreateTemp: a name no file in the directory has.
Unused(d) == Ids \ SnapIds(d)

\* The snapshots of file f.
Matches(d, f) == {r \in d : r.orig = f}

\* Faulty variant: the first match in the directory is taken.
NewestIsFirst(d, f) == {r \in Matches(d, f) : \A q \in Matches(d, f) : r.id <= q.id}

\* findRecovery: the snapshot of file f with the latest time, and of several
\* with that time the first in the directory's order; or none.
Newest(d, f) ==
  {r \in Matches(d, f) :
     \A q \in Matches(d, f) : q.time < r.time \/ (q.time = r.time /\ r.id <= q.id)}

(***************************************************************************)
(* syncRecovery.  nm, tx and mod are the name, text and modified flag of    *)
(* the active screen at the time of the call, dirty is recoverDirty; due    *)
(* tells whether the throttling interval has passed.                        *)
(***************************************************************************)
CreateFails(dirty) ==
  /\ rpath = None
  /\ rdirty' = dirty /\ UNCHANGED <<rpath, dir, covered>>
  /\ faults' = faults + 1

WriteFails(id) ==
  /\ rpath' = id /\ rdirty' = FALSE /\ UNCHANGED dir
  /\ covered' = None
  /\ faults' = faults + 1

WriteSucceeds(id, nm, tx) ==
  /\ rpath' = id /\ rdirty' = FALSE
  /\ dir' = Stored(dir, [id |-> id, orig |-> resolvePath(nm), text |-> tx, time |-> clock])
  /\ covered' = cur
  /\ UNCHANGED faults

SyncRecovery(force, due, nm, tx, mod, dirty) ==
  IF mod /\ nm # NoName /\ dirty /\ (force \/ due)
    THEN \/ faults < MaxFaults /\ CreateFails(dirty)
         \/ \E id \in IF rpath = None THEN Unused(dir) ELSE {rpath} :
               \/ WriteSucceeds(id, nm, tx)
               \/ faults < MaxFaults /\ WriteFails(id)
    ELSE rdirty' = dirty /\ UNCHANGED <<rpath, dir, faults, covered>>

\* A new snapshot of the active buffer takes the place of what was owed for
\* its file, and of what :preserve had written to the session's recovery file.
OwedAfterSync ==
  owed' = [f \in Files |->
             IF dir' # dir /\ f = resolvePath(name[cur]) THEN None ELSE owed[f]]

PreservedAfterSync ==
  {r \in preserved : r.id # rpath}
    \cup {r \in dir' : r.id = rpath /\ r.id \in SnapIds(preserved)}

\* Faulty variant: a throttled change is not remembered as unsynced.
NoteRecoveryForgets(nm, tx) ==
  IF nm = NoName
    THEN UNCHANGED <<rpath, rdirty, dir, faults, covered>>
    ELSE \/ SyncRecovery(rpath = None, TRUE, nm, tx, TRUE, TRUE)
         \/ rpath # None /\ UNCHANGED <<rpath, rdirty, dir, faults, covered>>

\* noteRecovery, called by endChange: the first change is written at once,
\* later ones when the interval has passed.
NoteRecovery(nm, tx) ==
  IF nm = NoName
    THEN UNCHANGED <<rpath, rdirty, dir, faults, covered>>
    ELSE \E due \in BOOLEAN : SyncRecovery(rpath = None, due, nm, tx, TRUE, TRUE)

\* Faulty variant: a preserved snapshot is deleted like any other.
RemovedAlways(d) == Without(d, rpath)

\* What removeRecovery leaves in the directory.
Removed(d) == IF rkeep THEN d ELSE Without(d, rpath)

RemoveRecovery ==
  /\ dir' = Removed(dir)
  /\ rpath' = None /\ rdirty' = FALSE /\ rkeep' = FALSE
  /\ covered' = None
  /\ UNCHANGED faults

-----------------------------------------------------------------------------
(***************************************************************************)
(* Editing.                                                                 *)
(***************************************************************************)
Idle == alive /\ ~pending

\* Text goes into the buffer while insert mode lasts.
Type ==
  /\ alive
  /\ \E t \in Texts \ {text[cur]} : text' = [text EXCEPT ![cur] = t]
  /\ pending' = TRUE
  /\ UNCHANGED <<alive, cwd, shown, cur, name, modified, undoable, recovery, clock,
                 crashes, preserved, owed>>

\* endChange, at the end of a command or of insert mode.
EndChange(tx, changed) ==
  /\ modified' = [modified EXCEPT ![cur] = TRUE]
  /\ undoable' = [undoable EXCEPT ![cur] = @ \/ changed]
  /\ NoteRecovery(name[cur], tx)
  /\ OwedAfterSync
  /\ preserved' = PreservedAfterSync
  /\ UNCHANGED <<alive, cwd, shown, cur, name, rkeep, clock, crashes>>

FinishInsert ==
  /\ alive /\ pending
  /\ pending' = FALSE
  /\ EndChange(text[cur], TRUE)
  /\ UNCHANGED text

\* A command that changes the buffer, or only could have.
Change ==
  /\ Idle
  /\ \E t \in Texts : /\ text' = [text EXCEPT ![cur] = t]
                      /\ EndChange(t, t # text[cur])
  /\ UNCHANGED pending

\* doUndoCommand: the buffer is modified, and no one is told.
UndoCommand ==
  /\ Idle /\ undoable[cur]
  /\ \E t \in Texts : text' = [text EXCEPT ![cur] = t]
  /\ modified' = [modified EXCEPT ![cur] = TRUE]
  /\ covered' = IF covered = cur THEN None ELSE covered
  /\ UNCHANGED <<alive, cwd, shown, cur, name, undoable, pending, rpath, rdirty, rkeep,
                 dir, clock, faults, crashes, preserved, owed>>

\* :w, to the file of the buffer or to another one.
Save(given) ==
  /\ Idle
  /\ LET nm == IF name[cur] = NoName THEN given ELSE name[cur]
     IN  /\ name' = [name EXCEPT ![cur] = nm]
         /\ IF resolvePath(given) = resolvePath(nm)
              THEN /\ modified' = [modified EXCEPT ![cur] = FALSE]
                   /\ RemoveRecovery
              ELSE UNCHANGED <<modified, recovery>>
  /\ UNCHANGED <<alive, cwd, shown, cur, text, undoable, pending, clock, crashes,
                 preserved, owed>>

\* :f name.  The snapshot keeps the old name until the next one is written.
Rename(n) ==
  /\ Idle /\ n # name[cur]
  /\ name' = [name EXCEPT ![cur] = n]
  /\ covered' = IF covered = cur THEN None ELSE covered
  /\ UNCHANGED <<alive, cwd, shown, cur, text, modified, undoable, pending, rpath,
                 rdirty, rkeep, dir, clock, faults, crashes, preserved, owed>>

\* :cd[!] d.  Relative names stand for other files from here on; the snapshot
\* names the old one until the next is written.
Cd(d, force) ==
  /\ Idle /\ d # cwd
  /\ modified[cur] /\ name[cur] \in Relative => force
  /\ cwd' = d
  /\ covered' = IF covered # None /\ name[covered] \in Relative THEN None ELSE covered
  /\ UNCHANGED <<alive, shown, cur, bufs, pending, rpath, rdirty, rkeep, dir, clock,
                 faults, crashes, preserved, owed>>

-----------------------------------------------------------------------------
(***************************************************************************)
(* Files, screens and the end of a session.                                 *)
(***************************************************************************)
\* Screen s holds the buffer of file n with text t.
Loaded(s, n, t, mod) ==
  /\ name' = [name EXCEPT ![s] = n]
  /\ text' = [text EXCEPT ![s] = t]
  /\ modified' = [modified EXCEPT ![s] = mod]
  /\ undoable' = [undoable EXCEPT ![s] = FALSE]

\* :e[!] nm, and the other commands that replace the buffer by a file.
EditFile(nm, force) ==
  /\ Idle /\ (modified[cur] => force)
  /\ \E t \in Texts : Loaded(cur, nm, t, FALSE)
  /\ RemoveRecovery
  /\ UNCHANGED <<alive, cwd, shown, cur, pending, clock, crashes, preserved, owed>>

\* :E nm.  A screen beside the active one; the recovery state is not touched.
EditNewScreen(nm) ==
  /\ Idle
  /\ \E s \in Screens \ shown, t \in Texts :
        Loaded(s, nm, t, FALSE) /\ shown' = shown \cup {s} /\ cur' = s
  /\ UNCHANGED <<alive, cwd, pending, recovery, clock, crashes, preserved, owed>>

SwitchScreen ==
  /\ Idle
  /\ cur' \in shown \ {cur}
  /\ UNCHANGED <<alive, cwd, shown, bufs, pending, recovery, clock, crashes, preserved,
                 owed>>

\* :q[!].  With other screens on display only this one is closed.
Quit(force) ==
  /\ Idle /\ (modified[cur] => force)
  /\ IF shown = {cur}
       THEN alive' = FALSE /\ RemoveRecovery /\ UNCHANGED <<shown, cur>>
       ELSE /\ shown' = shown \ {cur}
            /\ cur' \in shown'
            /\ covered' = IF covered = cur THEN None ELSE covered
            /\ UNCHANGED <<alive, rpath, rdirty, rkeep, dir, faults>>
  /\ UNCHANGED <<cwd, bufs, pending, clock, crashes, preserved, owed>>

\* ^\ in ex mode.
QuitFromBackslash ==
  /\ Idle
  /\ alive' = FALSE
  /\ RemoveRecovery
  /\ UNCHANGED <<cwd, shown, cur, bufs, pending, clock, crashes, preserved, owed>>

\* :preserve, of a buffer with changes.
Preserve ==
  /\ Idle /\ name[cur] # NoName /\ modified[cur]
  /\ SyncRecovery(TRUE, TRUE, name[cur], text[cur], TRUE, rdirty)
  /\ rkeep' = TRUE
  /\ preserved' = PreservedAfterSync \cup {r \in dir' : r.id = rpath'}
  /\ OwedAfterSync
  /\ UNCHANGED <<alive, cwd, shown, cur, bufs, pending, clock, crashes>>

\* The snapshot rec becomes the buffer and the session's own, unless it was so
\* already: then replaceBuffer has just deleted it.
RecoverFrom(rec, force) ==
  /\ Idle /\ (modified[cur] => force)
  /\ Loaded(cur, rec.orig, rec.text, TRUE)
  /\ dir' = Removed(dir)
  /\ rpath' = rec.id /\ rdirty' = FALSE /\ rkeep' = FALSE
  /\ preserved' = preserved \ {rec}
  /\ owed' = [owed EXCEPT ![rec.orig] = None]
  /\ UNCHANGED <<alive, cwd, shown, cur, pending, clock, faults, crashes>>

\* :recover[!] nm.
Recover(nm, force) ==
  \E rec \in Newest(dir, Abs(nm)) :
    RecoverFrom(rec, force) /\ covered' = IF rec \in dir' THEN cur ELSE None

\* :recover[!] of a recovery file by its own name, the newest of its file or not.
RecoverPath(force) ==
  \E rec \in dir : RecoverFrom(rec, force) /\ covered' = None

\* The host calls SyncRecovery when the user pauses.
IdleFlush ==
  /\ alive /\ rdirty /\ modified[cur]
  /\ SyncRecovery(TRUE, TRUE, name[cur], text[cur], TRUE, rdirty)
  /\ OwedAfterSync
  /\ preserved' = PreservedAfterSync
  /\ UNCHANGED <<alive, cwd, shown, cur, bufs, pending, rkeep, clock, crashes>>

\* What the dead session leaves to be recovered: its snapshot in d, id.
LeftBehind(d, id) ==
  [f \in Files |->
     IF \E r \in d : r.id = id /\ r.orig = f THEN CHOOSE r \in d : r.id = id ELSE owed[f]]

\* Faulty variant: the last sync obeys the throttling interval.
FatalSyncUnforced(due) ==
  SyncRecovery(FALSE, due, name[cur], text[cur], modified[cur], rdirty)

\* preserveAndQuit syncs the active screen; due has no influence.
FatalSync(due) ==
  SyncRecovery(TRUE, due, name[cur], text[cur], modified[cur], rdirty)

\* A fatal signal.
FatalSignal ==
  /\ alive /\ crashes < MaxCrashes
  /\ \E due \in BOOLEAN : FatalSync(due)
  /\ alive' = FALSE
  /\ crashes' = crashes + 1
  /\ owed' = IF covered' = None THEN owed ELSE LeftBehind(dir', rpath')
  /\ preserved' = PreservedAfterSync
  /\ UNCHANGED <<cwd, shown, cur, bufs, pending, rkeep, clock>>

\* The editor or the system dies.
Crash ==
  /\ alive /\ crashes < MaxCrashes
  /\ alive' = FALSE
  /\ crashes' = crashes + 1
  /\ owed' = IF covered = None THEN owed ELSE LeftBehind(dir, rpath)
  /\ UNCHANGED <<cwd, shown, cur, bufs, pending, recovery, clock, preserved>>

\* govi [nm], with a new recovery state, in the directory of the process or in
\* the one a tab of the macOS app is given.
Start(nm) ==
  /\ ~alive
  /\ alive' = TRUE /\ pending' = FALSE /\ cwd' \in Dirs
  /\ \E s \in Screens, t \in Texts :
        /\ shown' = {s} /\ cur' = s
        /\ Loaded(s, nm, t, FALSE)
  /\ rpath' = None /\ rdirty' = FALSE /\ rkeep' = FALSE /\ covered' = None
  /\ UNCHANGED <<dir, clock, faults, crashes, preserved, owed>>

\* A second goes by.  The clock is never set back.
Tick ==
  /\ clock < MaxClock
  /\ clock' = clock + 1
  /\ UNCHANGED <<alive, cwd, shown, cur, bufs, pending, recovery, crashes, preserved, owed>>

Init ==
  /\ alive = TRUE /\ pending = FALSE /\ cwd \in Dirs
  /\ \E s \in Screens : shown = {s} /\ cur = s
  /\ \E nm \in Names \cup {NoName}, t \in Texts :
        /\ name = [s \in Screens |-> nm]
        /\ text = [s \in Screens |-> t]
  /\ modified = [s \in Screens |-> FALSE]
  /\ undoable = [s \in Screens |-> FALSE]
  /\ rpath = None /\ rdirty = FALSE /\ rkeep = FALSE
  /\ dir = {} /\ clock = 0
  /\ faults = 0 /\ crashes = 0
  /\ covered = None /\ preserved = {}
  /\ owed = [f \in Files |-> None]

EditStep == Type \/ FinishInsert \/ Change \/ UndoCommand

FileStep ==
  \/ \E nm \in Names : Save(nm) \/ Rename(nm)
  \/ \E nm \in Names, force \in BOOLEAN : EditFile(nm, force) \/ Recover(nm, force)
  \/ \E force \in BOOLEAN : RecoverPath(force)
  \/ \E d \in Dirs, force \in BOOLEAN : Cd(d, force)
  \/ Preserve
  \/ IdleFlush

ScreenStep ==
  \/ \E nm \in Names : EditNewScreen(nm)
  \/ SwitchScreen
  \/ \E force \in BOOLEAN : Quit(force)

SessionStep ==
  \/ QuitFromBackslash
  \/ FatalSignal
  \/ Crash
  \/ \E nm \in Names : Start(nm)
  \/ Tick

Next == EditStep \/ FileStep \/ ScreenStep \/ SessionStep

Spec == Init /\ [][Next]_vars

-----------------------------------------------------------------------------
(***************************************************************************)
(* Properties.                                                              *)
(***************************************************************************)

\* As long as the recovery state accounts for a screen, that screen has unsaved
\* changes and its snapshot is on disk under its name; unless syncing is still
\* due or text is being typed, the snapshot is the buffer (recovery.go:
\* noteRecovery, SyncRecovery).  It stops accounting for a screen at an undo, a
\* :f, a :cd below a relative name, a failed write and a sync of another screen.
SnapshotCurrent ==
  covered # None =>
    /\ modified[covered]
    /\ \E r \in dir :
         /\ r.id = rpath /\ r.orig = resolvePath(name[covered])
         /\ rdirty \/ (pending /\ cur = covered) \/ r.text = text[covered]

\* A session only ever writes and deletes the one recovery file it holds as its
\* own, whichever of its screens that stands for: those sessions that crashed
\* have left, and those :preserve has detached, keep what they hold.
OthersUntouched ==
  [][\A r \in dir : r.id = rpath \/ r \in dir']_vars

\* What :preserve wrote stays on disk, through saves, quits, crashes and later
\* sessions, until it is recovered (recovery.go: "the snapshot survives for a
\* later vi -r").  Until it lets go of the file at the next save, edit or quit,
\* the session that preserved it replaces it by newer snapshots, of another
\* screen too; preserved holds the last of them.
PreservedSurvives == preserved \subseteq dir

\* A fatal signal leaves the text of the active buffer to be recovered: if its
\* changes have been noted, no text is being typed and the disk works.
FatalSavesText ==
  [][FatalSignal /\ modified[cur] /\ name[cur] # NoName /\ ~pending
       /\ (rdirty \/ covered = cur) /\ faults' = faults
     => \E r \in dir' : r.orig = resolvePath(name[cur]) /\ r.text = text[cur]]_vars

\* No other snapshot of the file is as old as r to the second.
Untied(r) == \A q \in dir : q.orig = r.orig /\ q.time = r.time => q = r

\* Recovery after a crash brings back what the dead session had last synced,
\* whatever older snapshots of that file the directory holds, where the name
\* stands for the same file in the directories of the editor and the process,
\* and none of the others was written in the same second.
RecoverGivesBack ==
  [][\A nm \in Names, force \in BOOLEAN :
       LET left == owed[resolvePath(nm)]
       IN  Recover(nm, force) /\ resolvePath(nm) = Abs(nm) /\ left # None /\ Untied(left)
             => text'[cur] = left.text]_vars

-----------------------------------------------------------------------------
(***************************************************************************)
(* What the comments of recovery.go claim, and the code does not do.        *)
(***************************************************************************)

\* "findRecovery returns the newest recovery file whose original path matches"
\* (recovery.go:209): also of two written in the same second.
NewestIsFound ==
  [][\A nm \in Names, force \in BOOLEAN :
       LET left == owed[resolvePath(nm)]
       IN  Recover(nm, force) /\ resolvePath(nm) = Abs(nm) /\ left # None
             => text'[cur] = left.text]_vars

\* "the point of :preserve is that the snapshot survives for a later vi -r"
\* (recovery.go:121): no step overwrites it.
PreservedUnchanged == [][preserved \subseteq dir']_vars

\* "noteRecovery is called after each change to keep the recovery file current"
\* (recovery.go:48): a step that changes the text of a buffer with a file, and
\* has ended, notes it, leaves it in the recovery file, or met a failing write.
ChangesNoted ==
  [][text'[cur] # text[cur] /\ cur' = cur /\ name' = name /\ name[cur] # NoName
       /\ modified'[cur] /\ ~pending' /\ alive' /\ faults' = faults
     => rdirty' \/ \E r \in dir' : r.id = rpath' /\ r.text = text'[cur]]_vars

\* Screen s has its text in a recovery file of the directory d.
KeptIn(d, s) == \E r \in d : r.orig = resolvePath(name[s]) /\ r.text = text[s]

\* "While a buffer has unsaved changes, the engine keeps a recovery file in the
\* recovery directory" (recovery.go:16): what is done in one screen takes no
\* recovery file from another that is on display and has unsaved changes.
OtherScreensKept ==
  [][\A s \in (shown \cap shown') \ {cur} :
       modified[s] /\ KeptIn(dir, s) => KeptIn(dir', s)]_vars

\* "resolvePath maps a user-supplied path through this editor's cwd" (cwd.go:44):
\* :recover brings back the file its name stands for, also after a :cd.
RecoverFindsNamed ==
  [][\A nm \in Names, force \in BOOLEAN :
       Recover(nm, force) => name'[cur] = resolvePath(nm)]_vars
=============================================================================
