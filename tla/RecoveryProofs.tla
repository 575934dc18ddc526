---------------------------- MODULE RecoveryProofs ----------------------------
(***************************************************************************)
(* What a crash may cost, for any number of screens, files, snapshots,      *)
(* failing writes and crashed sessions: the snapshot of the session is its  *)
(* buffer or known to be behind it, no other snapshot is touched, and what  *)
(* a dead session synced is what :recover brings back.                      *)
(***************************************************************************)
EXTENDS Recovery, TLAPS

\* No snapshot of r's file in the directory d is newer than r.
IsNewest(d, r) == \A q \in d : q.orig = r.orig => q.time <= r.time

\* No snapshot is from the future.
TimesPast == \A r \in dir : r.time <= clock

\* No snapshot of the session's file is newer than the session's own, if it
\* accounts for a screen.
OwnIsNewest == covered # None => \A r \in dir : r.id = rpath => IsNewest(dir, r)

\* What a dead session left of a file is there, none of the file is newer, and a
\* running session does not hold it as its own.
OwedOnDisk ==
  \A f \in Files : owed[f] # None =>
    /\ owed[f] \in dir /\ owed[f].orig = f /\ IsNewest(dir, owed[f])
    /\ alive => owed[f].id # rpath

\* A preserved snapshot is the session's own only while it is to be kept.
KeptIfPreserved == rpath \in SnapIds(preserved) => rkeep

\* The inductive invariant.
DirInv == TimesPast /\ OwnIsNewest /\ OwedOnDisk /\ PreservedSurvives /\ KeptIfPreserved
RecoveryInv == TypeOK /\ SnapshotCurrent /\ DirInv

-----------------------------------------------------------------------------
(* Names and the directory. *)

\* A name stands for a file wherever the editor is.
LEMMA Resolved ==
  ASSUME TypeOK
  PROVE  \A nm \in Names : resolvePath(nm) \in Files
BY RecoveryAssumption DEF TypeOK, resolvePath, FileAt, Names

\* A snapshot that is written takes the place of the file it replaces.
LEMMA StoredResult ==
  ASSUME NEW d \in SUBSET Snapshot, DistinctIds(d), NEW s \in Snapshot
  PROVE  /\ Stored(d, s) \in SUBSET Snapshot /\ DistinctIds(Stored(d, s))
         /\ s \in Stored(d, s)
         /\ \A r \in d : r.id # s.id => r \in Stored(d, s)
         /\ \A r \in Stored(d, s) : r = s \/ (r \in d /\ r.id # s.id)
BY DEF Stored, Without, DistinctIds

\* No snapshot is newer than one findRecovery may find.
LEMMA NewestFound ==
  ASSUME NEW d \in SUBSET Snapshot, NEW f, NEW r \in Newest(d, f)
  PROVE  r \in d /\ r.orig = f /\ IsNewest(d, r)
<1>1. /\ r \in d /\ r.orig = f
      /\ \A q \in d : q.orig = f => q.time < r.time \/ q.time = r.time
  BY DEF Newest, Matches
<1>2. \A q \in d : q.time \in Int
  BY DEF Snapshot
<1> QED BY <1>1, <1>2 DEF IsNewest

\* Of a file's snapshots findRecovery finds the newest, if no other is as old.
LEMMA NewestUntied ==
  ASSUME NEW d \in SUBSET Snapshot, NEW f, NEW r \in Newest(d, f), NEW s \in d,
         s.orig = f, IsNewest(d, s), \A q \in d : q.orig = f /\ q.time = s.time => q = s
  PROVE  r = s
<1>1. r \in d /\ r.orig = f /\ IsNewest(d, r)
  BY NewestFound
<1>2. r.time <= s.time /\ s.time <= r.time
  BY <1>1 DEF IsNewest
<1>3. r.time \in Int /\ s.time \in Int
  BY <1>1 DEF Snapshot
<1>4. r.time = s.time
  BY <1>2, <1>3
<1> QED BY <1>1, <1>4

-----------------------------------------------------------------------------
(* syncRecovery and removeRecovery. *)

\* What a call of syncRecovery for name nm and text tx leaves: the directory as
\* it was, with the snapshot accounting for what it did unless a write failed,
\* or with a new snapshot of the active screen.  Files of other sessions, and
\* those preserved, stay, and so does all that is owed under another name.
Synced(nm, tx, dirty) ==
  /\ rpath' \in Ids \cup {None} /\ rdirty' \in BOOLEAN /\ faults' \in 0..MaxFaults
  /\ dir' \in SUBSET Snapshot /\ DistinctIds(dir')
  /\ \A r \in dir' : r.time <= clock
  /\ covered' # None => \A r \in dir' : r.id = rpath' => IsNewest(dir', r)
  /\ rpath' = rpath \/ \A r \in dir : r.id # rpath'
  /\ \A r \in dir : r.id = rpath \/ r \in dir'
  /\ \A f \in Files : owed[f] # None /\ (dir' = dir \/ f # resolvePath(nm)) =>
       owed[f] \in dir' /\ IsNewest(dir', owed[f]) /\ owed[f].id # rpath'
  /\ \/ dir' = dir /\ covered' = None
     \/ dir' = dir /\ covered' = covered /\ rpath' = rpath /\ rdirty' = dirty
     \/ /\ covered' = cur /\ nm # NoName
        /\ \E r \in dir' : r.id = rpath' /\ r.orig = resolvePath(nm) /\ r.text = tx

LEMMA SyncUntouched ==
  ASSUME TypeOK, DirInv, alive, NEW nm, NEW tx, NEW dirty \in BOOLEAN,
         rdirty' = dirty, UNCHANGED <<rpath, dir, covered>>, faults' \in 0..MaxFaults
  PROVE  Synced(nm, tx, dirty)
<1>1. covered' # None => \A r \in dir' : r.id = rpath' => IsNewest(dir', r)
  BY DEF DirInv, OwnIsNewest
<1>2. \A f \in Files : owed[f] # None =>
        owed[f] \in dir' /\ IsNewest(dir', owed[f]) /\ owed[f].id # rpath'
  BY DEF DirInv, OwedOnDisk
<1>3. \A r \in dir' : r.time <= clock
  BY DEF DirInv, TimesPast
<1> QED BY <1>1, <1>2, <1>3 DEF Synced, TypeOK

\* The file syncRecovery writes to: the session's own, or one of a new name.
LEMMA OwnOrUnused ==
  ASSUME TypeOK, NEW id \in IF rpath = None THEN Unused(dir) ELSE {rpath}
  PROVE  id \in Ids /\ (id = rpath \/ \A r \in dir : r.id # id)
BY DEF TypeOK, Unused, SnapIds

LEMMA SyncFailed ==
  ASSUME TypeOK, DirInv, alive, NEW nm, NEW tx, NEW dirty \in BOOLEAN,
         NEW id \in IF rpath = None THEN Unused(dir) ELSE {rpath},
         faults < MaxFaults, WriteFails(id)
  PROVE  Synced(nm, tx, dirty)
<1>1. /\ rpath' = id /\ rdirty' = FALSE /\ dir' = dir /\ covered' = None
      /\ faults' = faults + 1
  BY DEF WriteFails
<1>2. id \in Ids /\ (id = rpath \/ \A r \in dir : r.id # id)
  BY OwnOrUnused
<1>3. \A f \in Files : owed[f] # None =>
        owed[f] \in dir' /\ IsNewest(dir', owed[f]) /\ owed[f].id # rpath'
  BY <1>1, <1>2 DEF DirInv, OwedOnDisk
<1>4. faults' \in 0..MaxFaults
  BY <1>1, RecoveryAssumption DEF TypeOK
<1>5. \A r \in dir' : r.time <= clock
  BY <1>1 DEF DirInv, TimesPast
<1> QED BY <1>1, <1>2, <1>3, <1>4, <1>5 DEF Synced, TypeOK

LEMMA SyncWritten ==
  ASSUME TypeOK, DirInv, alive, NEW nm \in Names, NEW tx \in Texts, NEW dirty \in BOOLEAN,
         NEW id \in IF rpath = None THEN Unused(dir) ELSE {rpath},
         WriteSucceeds(id, nm, tx)
  PROVE  Synced(nm, tx, dirty)
<1> DEFINE s == [id |-> id, orig |-> resolvePath(nm), text |-> tx, time |-> clock]
<1>1. /\ rpath' = id /\ rdirty' = FALSE /\ dir' = Stored(dir, s) /\ covered' = cur
      /\ faults' = faults
  BY DEF WriteSucceeds
<1>2. id \in Ids /\ (id = rpath \/ \A r \in dir : r.id # id)
  BY OwnOrUnused
<1>3. /\ s \in Snapshot
      /\ s.id = id /\ s.orig = resolvePath(nm) /\ s.text = tx /\ s.time = clock
  BY <1>2, Resolved DEF Snapshot, TypeOK
<1> HIDE DEF s
<1>4. /\ dir' \in SUBSET Snapshot /\ DistinctIds(dir') /\ s \in dir'
      /\ \A r \in dir : r.id # id => r \in dir'
      /\ \A r \in dir' : r = s \/ (r \in dir /\ r.id # id)
  BY <1>1, <1>3, StoredResult DEF TypeOK
<1>5. clock \in Int /\ clock <= clock
  BY DEF TypeOK
<1>6. \A r \in dir' : r.time <= clock
  BY <1>3, <1>4, <1>5 DEF DirInv, TimesPast
<1>7. \A r \in dir' : r.id = rpath' => IsNewest(dir', r)
  BY <1>1, <1>3, <1>4, <1>6 DEF IsNewest
<1>8. \A r \in dir : r.id = rpath \/ r \in dir'
  BY <1>2, <1>4
<1>9. ASSUME NEW f \in Files, owed[f] # None, dir' = dir \/ f # resolvePath(nm)
      PROVE  owed[f] \in dir' /\ IsNewest(dir', owed[f]) /\ owed[f].id # rpath'
  <2>1. owed[f] \in dir /\ owed[f].orig = f /\ IsNewest(dir, owed[f]) /\ owed[f].id # rpath
    BY <1>9 DEF DirInv, OwedOnDisk
  <2>2. owed[f].id # id /\ owed[f] \in dir'
    BY <1>2, <1>4, <2>1
  <2>3. IsNewest(dir', owed[f])
    BY <1>3, <1>4, <1>9, <2>1 DEF IsNewest
  <2> QED BY <1>1, <2>2, <2>3
<1>10. nm # NoName /\ \E r \in dir' : r.id = rpath' /\ r.orig = resolvePath(nm) /\ r.text = tx
  BY <1>1, <1>3, <1>4, RecoveryAssumption
<1>11. rpath' \in Ids \cup {None} /\ rdirty' \in BOOLEAN /\ faults' \in 0..MaxFaults
  BY <1>1, <1>2 DEF TypeOK
<1> QED BY <1>1, <1>2, <1>4, <1>6, <1>7, <1>8, <1>9, <1>10, <1>11 DEF Synced

\* A sync leaves the directory untouched, fails, or writes.
LEMMA SyncResult ==
  ASSUME TypeOK, DirInv, alive, NEW force, NEW due, NEW nm \in Names \cup {NoName},
         NEW tx \in Texts, NEW mod, NEW dirty \in BOOLEAN,
         SyncRecovery(force, due, nm, tx, mod, dirty)
  PROVE  Synced(nm, tx, dirty)
<1>0. faults \in 0..MaxFaults
  BY DEF TypeOK
<1>1. CASE rdirty' = dirty /\ UNCHANGED <<rpath, dir, faults, covered>>
  BY <1>0, <1>1, SyncUntouched
<1>2. CASE faults < MaxFaults /\ CreateFails(dirty)
  <2>1. faults' \in 0..MaxFaults
    BY <1>0, <1>2, RecoveryAssumption DEF CreateFails
  <2> QED BY <1>2, <2>1, SyncUntouched DEF CreateFails
<1>3. CASE nm # NoName /\ \E id \in IF rpath = None THEN Unused(dir) ELSE {rpath} :
             \/ WriteSucceeds(id, nm, tx)
             \/ faults < MaxFaults /\ WriteFails(id)
  <2>1. PICK id \in IF rpath = None THEN Unused(dir) ELSE {rpath} :
               WriteSucceeds(id, nm, tx) \/ (faults < MaxFaults /\ WriteFails(id))
    BY <1>3
  <2>2. nm \in Names
    BY <1>3
  <2> QED BY <2>1, <2>2, SyncWritten, SyncFailed
<1> QED BY <1>1, <1>2, <1>3 DEF SyncRecovery

\* A change is noted, unless the buffer has no name.
LEMMA NoteResult ==
  ASSUME TypeOK, DirInv, alive, NEW nm \in Names \cup {NoName}, NEW tx \in Texts,
         NoteRecovery(nm, tx)
  PROVE  Synced(nm, tx, IF nm = NoName THEN rdirty ELSE TRUE)
<1>1. CASE nm = NoName
  <2>1. UNCHANGED <<rpath, rdirty, dir, faults, covered>>
    BY <1>1 DEF NoteRecovery
  <2>2. rdirty \in BOOLEAN /\ faults' \in 0..MaxFaults
    BY <2>1 DEF TypeOK
  <2> QED BY <1>1, <2>1, <2>2, SyncUntouched
<1>2. CASE nm # NoName
  <2>1. PICK due \in BOOLEAN : SyncRecovery(rpath = None, due, nm, tx, TRUE, TRUE)
    BY <1>2 DEF NoteRecovery
  <2>2. Synced(nm, tx, TRUE)
    BY <2>1, SyncResult
  <2> QED BY <1>2, <2>2
<1> QED BY <1>1, <1>2

\* removeRecovery takes the session's own snapshot, if it is not to be kept,
\* and nothing else.
LEMMA RemovedResult ==
  ASSUME TypeOK, DirInv
  PROVE  /\ Removed(dir) \in SUBSET dir
         /\ \A r \in dir : r.id = rpath \/ r \in Removed(dir)
         /\ preserved \subseteq Removed(dir)
<1>1. preserved \subseteq dir /\ (rpath \in SnapIds(preserved) => rkeep)
  BY DEF DirInv, PreservedSurvives, KeptIfPreserved
<1> QED BY <1>1 DEF Removed, Without, SnapIds

\* A sync replaces what is preserved only in the session's own file.
LEMMA PreservedSynced ==
  ASSUME TypeOK, DirInv, NEW nm, NEW tx, NEW dirty, Synced(nm, tx, dirty)
  PROVE  /\ PreservedAfterSync \subseteq dir'
         /\ rpath' \in SnapIds(PreservedAfterSync) => rpath \in SnapIds(preserved)
<1>1. preserved \subseteq dir
  BY DEF DirInv, PreservedSurvives
<1>2. /\ rpath' = rpath \/ \A r \in dir : r.id # rpath'
      /\ \A r \in dir : r.id = rpath \/ r \in dir'
  BY DEF Synced
<1>3. PreservedAfterSync \subseteq dir'
  BY <1>1, <1>2 DEF PreservedAfterSync
<1>4. ASSUME NEW r \in PreservedAfterSync, r.id = rpath'
      PROVE  rpath \in SnapIds(preserved)
  <2>1. CASE r \in preserved /\ r.id # rpath
    BY <1>1, <1>2, <1>4, <2>1
  <2>2. CASE r.id = rpath /\ r.id \in SnapIds(preserved)
    BY <2>2
  <2> QED BY <2>1, <2>2 DEF PreservedAfterSync
<1> QED BY <1>3, <1>4 DEF SnapIds
-----------------------------------------------------------------------------
(* Types. *)

LEMMA TypeInit == Init => TypeOK
<1> SUFFICES ASSUME Init PROVE TypeOK
  OBVIOUS
<1>1. dir \in SUBSET Snapshot /\ DistinctIds(dir)
  BY DEF Init, DistinctIds
<1>2. faults \in 0..MaxFaults /\ crashes \in 0..MaxCrashes /\ clock \in 0..MaxClock
  BY RecoveryAssumption DEF Init
<1>3. /\ name \in [Screens -> Names \cup {NoName}] /\ text \in [Screens -> Texts]
      /\ modified \in [Screens -> BOOLEAN] /\ undoable \in [Screens -> BOOLEAN]
      /\ owed \in [Files -> Snapshot \cup {None}]
  BY DEF Init
<1>4. shown \subseteq Screens /\ cur \in shown /\ covered \in shown \cup {None}
  BY DEF Init
<1> QED BY <1>1, <1>2, <1>3, <1>4 DEF Init, TypeOK

\* The types that a step leaving the recovery state alone keeps.
RecoveryTyped ==
  /\ rpath \in Ids \cup {None} /\ rdirty \in BOOLEAN /\ rkeep \in BOOLEAN
  /\ dir \subseteq Snapshot /\ DistinctIds(dir)
  /\ faults \in 0..MaxFaults /\ preserved \subseteq Snapshot
  /\ owed \in [Files -> Snapshot \cup {None}]

\* Those of the screens and their buffers.
ScreensTyped ==
  /\ alive \in BOOLEAN /\ pending \in BOOLEAN /\ cwd \in Dirs /\ clock \in 0..MaxClock
  /\ shown \subseteq Screens /\ cur \in shown
  /\ name \in [Screens -> Names \cup {NoName}]
  /\ text \in [Screens -> Texts]
  /\ modified \in [Screens -> BOOLEAN]
  /\ undoable \in [Screens -> BOOLEAN]
  /\ crashes \in 0..MaxCrashes
  /\ covered \in shown \cup {None}

LEMMA TypeParts ==
  /\ TypeOK <=> RecoveryTyped /\ ScreensTyped
  /\ TypeOK' <=> RecoveryTyped' /\ ScreensTyped'
BY DEF TypeOK, RecoveryTyped, ScreensTyped

LEMMA SyncTyped ==
  ASSUME TypeOK, NEW nm, NEW tx, NEW dirty, Synced(nm, tx, dirty)
  PROVE  /\ rpath' \in Ids \cup {None} /\ rdirty' \in BOOLEAN /\ faults' \in 0..MaxFaults
         /\ dir' \subseteq Snapshot /\ DistinctIds(dir')
         /\ covered' \in shown \cup {None}
         /\ PreservedAfterSync \subseteq Snapshot
<1>1. dir' \subseteq Snapshot /\ preserved \subseteq Snapshot
  BY DEF Synced, TypeOK
<1>2. PreservedAfterSync \subseteq Snapshot
  BY <1>1 DEF PreservedAfterSync
<1> QED BY <1>1, <1>2 DEF Synced, TypeOK

LEMMA RemoveTyped ==
  ASSUME TypeOK, DirInv, RemoveRecovery
  PROVE  /\ rpath' \in Ids \cup {None} /\ rdirty' \in BOOLEAN /\ rkeep' \in BOOLEAN
         /\ faults' \in 0..MaxFaults /\ dir' \subseteq Snapshot /\ DistinctIds(dir')
         /\ covered' = None
BY RemovedResult DEF RemoveRecovery, TypeOK, DistinctIds

LEMMA OwedTyped ==
  ASSUME TypeOK, OwedAfterSync
  PROVE  owed' \in [Files -> Snapshot \cup {None}]
BY DEF TypeOK, OwedAfterSync

\* What a dead session leaves are snapshots.
LEMMA LeftTyped ==
  ASSUME TypeOK, NEW d \in SUBSET Snapshot, NEW id
  PROVE  LeftBehind(d, id) \in [Files -> Snapshot \cup {None}]
<1>1. ASSUME NEW f \in Files, \E r \in d : r.id = id /\ r.orig = f
      PROVE  (CHOOSE r \in d : r.id = id) \in Snapshot
  BY <1>1
<1> QED BY <1>1 DEF LeftBehind, TypeOK

LEMMA TypeStep == RecoveryInv /\ [Next]_vars => TypeOK'
<1> SUFFICES ASSUME RecoveryInv, [Next]_vars PROVE TypeOK'
  OBVIOUS
<1>1. TypeOK /\ DirInv /\ RecoveryTyped /\ ScreensTyped
  BY TypeParts DEF RecoveryInv
<1>2. name[cur] \in Names \cup {NoName} /\ text[cur] \in Texts /\ rdirty \in BOOLEAN
  BY <1>1 DEF TypeOK
<1>3. CASE Type
  BY <1>1, <1>3, TypeParts DEF Type, recovery, RecoveryTyped, ScreensTyped
<1>4. ASSUME NEW tx \in Texts, NEW changed \in BOOLEAN, alive, EndChange(tx, changed),
             text' \in [Screens -> Texts], pending' \in BOOLEAN
      PROVE  TypeOK'
  <2>1. Synced(name[cur], tx, IF name[cur] = NoName THEN rdirty ELSE TRUE)
    BY <1>1, <1>2, <1>4, NoteResult DEF EndChange
  <2>2. RecoveryTyped' /\ covered' \in shown \cup {None}
    BY <1>1, <1>4, <2>1, SyncTyped, OwedTyped DEF EndChange, RecoveryTyped
  <2>3. undoable' \in [Screens -> BOOLEAN]
    BY <1>1, <1>4 DEF EndChange, ScreensTyped
  <2>4. ScreensTyped'
    BY <1>1, <1>4, <2>2, <2>3 DEF EndChange, ScreensTyped
  <2> QED BY <2>2, <2>4, TypeParts
<1>5. CASE FinishInsert
  BY <1>1, <1>2, <1>4, <1>5 DEF FinishInsert, ScreensTyped
<1>6. CASE Change
  <2>1. PICK t \in Texts : text' = [text EXCEPT ![cur] = t] /\ EndChange(t, t # text[cur])
    BY <1>6 DEF Change
  <2>2. text' \in [Screens -> Texts] /\ pending' \in BOOLEAN /\ alive
    BY <1>1, <1>6, <2>1 DEF Change, Idle, ScreensTyped
  <2> QED BY <1>4, <2>1, <2>2
<1>7. CASE UndoCommand
  BY <1>1, <1>7, TypeParts DEF UndoCommand, RecoveryTyped, ScreensTyped
<1>8. ASSUME NEW nm \in Names, Save(nm)
      PROVE  TypeOK'
  <2>1. RecoveryTyped' /\ covered' \in shown \cup {None}
    BY <1>1, <1>8, RemoveTyped DEF Save, recovery, RecoveryTyped, ScreensTyped
  <2>2. ScreensTyped'
    BY <1>1, <1>8, <2>1 DEF Save, ScreensTyped
  <2> QED BY <2>1, <2>2, TypeParts
<1>9. ASSUME NEW nm \in Names, Rename(nm)
      PROVE  TypeOK'
  BY <1>1, <1>9, TypeParts DEF Rename, RecoveryTyped, ScreensTyped
<1>10. ASSUME NEW nm \in Names, NEW force \in BOOLEAN, EditFile(nm, force)
       PROVE  TypeOK'
  <2>1. RecoveryTyped' /\ covered' \in shown \cup {None}
    BY <1>1, <1>10, RemoveTyped DEF EditFile, RecoveryTyped
  <2>2. ScreensTyped'
    BY <1>1, <1>10, <2>1 DEF EditFile, Loaded, ScreensTyped
  <2> QED BY <2>1, <2>2, TypeParts
<1>11. ASSUME NEW rec \in dir, NEW force \in BOOLEAN, RecoverFrom(rec, force),
              covered' \in {cur, None}
       PROVE  TypeOK'
  <2>1. rec.id \in Ids /\ rec.text \in Texts /\ rec.orig \in Names
    BY <1>1 DEF Snapshot, RecoveryTyped, Names
  <2>2. /\ Loaded(cur, rec.orig, rec.text, TRUE) /\ dir' = Removed(dir)
        /\ rpath' = rec.id /\ preserved' = preserved \ {rec}
        /\ owed' = [owed EXCEPT ![rec.orig] = None] /\ rdirty' = FALSE /\ rkeep' = FALSE
        /\ UNCHANGED <<alive, cwd, shown, cur, pending, clock, faults, crashes>>
    BY <1>11 DEF RecoverFrom
  <2>3. dir' \subseteq Snapshot /\ DistinctIds(dir')
    BY <1>1, <2>2, RemovedResult DEF RecoveryTyped, DistinctIds
  <2>4. RecoveryTyped'
    BY <1>1, <2>1, <2>2, <2>3 DEF RecoveryTyped
  <2>5. ScreensTyped'
    BY <1>1, <1>11, <2>1, <2>2 DEF Loaded, ScreensTyped
  <2> QED BY <2>4, <2>5, TypeParts
<1>12. ASSUME NEW nm \in Names, NEW force \in BOOLEAN, Recover(nm, force)
       PROVE  TypeOK'
  <2>1. PICK rec \in Newest(dir, Abs(nm)) : RecoverFrom(rec, force) /\ covered' \in {cur, None}
    BY <1>12 DEF Recover
  <2>2. rec \in dir
    BY <1>1, <2>1, NewestFound DEF RecoveryTyped
  <2> QED BY <1>11, <2>1, <2>2
<1>13. ASSUME NEW force \in BOOLEAN, RecoverPath(force)
       PROVE  TypeOK'
  BY <1>11, <1>13 DEF RecoverPath
<1>14. ASSUME NEW d \in Dirs, NEW force \in BOOLEAN, Cd(d, force)
       PROVE  TypeOK'
  BY <1>1, <1>14, TypeParts DEF Cd, bufs, RecoveryTyped, ScreensTyped
<1>15. CASE Preserve \/ IdleFlush
  <2>1. /\ SyncRecovery(TRUE, TRUE, name[cur], text[cur], TRUE, rdirty)
        /\ alive /\ OwedAfterSync /\ rkeep' \in BOOLEAN
        /\ UNCHANGED <<alive, cwd, shown, cur, bufs, pending, clock, crashes>>
    BY <1>1, <1>15 DEF Preserve, IdleFlush, Idle, RecoveryTyped
  <2>2. Synced(name[cur], text[cur], rdirty)
    BY <1>1, <1>2, <2>1, SyncResult
  <2>3. preserved' \subseteq PreservedAfterSync \cup dir'
    BY <1>15 DEF Preserve, IdleFlush
  <2>4. RecoveryTyped' /\ covered' \in shown \cup {None}
    BY <1>1, <2>1, <2>2, <2>3, SyncTyped, OwedTyped DEF RecoveryTyped
  <2>5. ScreensTyped'
    BY <1>1, <2>1, <2>4 DEF bufs, ScreensTyped
  <2> QED BY <2>4, <2>5, TypeParts
<1>16. ASSUME NEW nm \in Names, EditNewScreen(nm)
       PROVE  TypeOK'
  BY <1>1, <1>16, TypeParts DEF EditNewScreen, Loaded, recovery, RecoveryTyped, ScreensTyped
<1>17. CASE SwitchScreen
  BY <1>1, <1>17, TypeParts DEF SwitchScreen, bufs, recovery, RecoveryTyped, ScreensTyped
<1>18. ASSUME NEW force \in BOOLEAN, Quit(force)
       PROVE  TypeOK'
  <2>1. CASE shown = {cur}
    BY <1>1, <1>18, <2>1, RemoveTyped, TypeParts DEF Quit, bufs, RecoveryTyped, ScreensTyped
  <2>2. CASE shown # {cur}
    <3>1. /\ UNCHANGED <<alive, cwd, rpath, rdirty, rkeep, dir, faults, preserved, owed, bufs,
                        pending, clock, crashes>>
          /\ shown' = shown \ {cur} /\ cur' \in shown'
          /\ covered' = IF covered = cur THEN None ELSE covered
      BY <1>18, <2>2 DEF Quit
    <3> QED BY <1>1, <3>1, TypeParts DEF bufs, RecoveryTyped, ScreensTyped
  <2> QED BY <2>1, <2>2
<1>19. CASE QuitFromBackslash
  BY <1>1, <1>19, RemoveTyped, TypeParts
  DEF QuitFromBackslash, bufs, RecoveryTyped, ScreensTyped
<1>20. CASE FatalSignal
  <2>1. PICK due \in BOOLEAN : FatalSync(due)
    BY <1>20 DEF FatalSignal
  <2>2. Synced(name[cur], text[cur], rdirty)
    BY <1>1, <1>2, <1>20, <2>1, SyncResult DEF FatalSync, FatalSignal
  <2>3. /\ rpath' \in Ids \cup {None} /\ rdirty' \in BOOLEAN /\ faults' \in 0..MaxFaults
        /\ dir' \subseteq Snapshot /\ DistinctIds(dir')
        /\ covered' \in shown \cup {None} /\ PreservedAfterSync \subseteq Snapshot
    BY <1>1, <2>2, SyncTyped
  <2>4. owed' \in [Files -> Snapshot \cup {None}]
    BY <1>1, <1>20, <2>3, LeftTyped DEF FatalSignal, RecoveryTyped
  <2>5. crashes' \in 0..MaxCrashes
    BY <1>1, <1>20, RecoveryAssumption DEF FatalSignal, ScreensTyped
  <2> QED
    BY <1>1, <1>20, <2>3, <2>4, <2>5, TypeParts
    DEF FatalSignal, bufs, RecoveryTyped, ScreensTyped
<1>21. CASE Crash
  <2>1. owed' \in [Files -> Snapshot \cup {None}]
    BY <1>1, <1>21, LeftTyped DEF Crash, RecoveryTyped
  <2>2. crashes' \in 0..MaxCrashes
    BY <1>1, <1>21, RecoveryAssumption DEF Crash, ScreensTyped
  <2> QED
    BY <1>1, <1>21, <2>1, <2>2, TypeParts
    DEF Crash, bufs, recovery, RecoveryTyped, ScreensTyped
<1>22. ASSUME NEW nm \in Names, Start(nm)
       PROVE  TypeOK'
  BY <1>1, <1>22, TypeParts DEF Start, Loaded, RecoveryTyped, ScreensTyped
<1>23. CASE Tick
  <2>1. clock' \in 0..MaxClock
    BY <1>1, <1>23, RecoveryAssumption DEF Tick, ScreensTyped
  <2> QED BY <1>1, <1>23, <2>1, TypeParts DEF Tick, bufs, recovery, RecoveryTyped, ScreensTyped
<1>24. CASE UNCHANGED vars
  BY <1>1, <1>24, TypeParts DEF vars, RecoveryTyped, ScreensTyped
<1> QED
  BY <1>3, <1>5, <1>6, <1>7, <1>8, <1>9, <1>10, <1>12, <1>13, <1>14, <1>15, <1>16,
     <1>17, <1>18, <1>19, <1>20, <1>21, <1>22, <1>23, <1>24
  DEF Next, EditStep, FileStep, ScreenStep, SessionStep
-----------------------------------------------------------------------------
(* The directory from step to step. *)

LEMMA DirSame ==
  ASSUME TypeOK, DirInv, UNCHANGED <<rpath, dir, preserved, owed>>, rkeep' = rkeep,
         alive' => alive, covered' # None => covered # None,
         clock' = clock \/ clock' = clock + 1
  PROVE  DirInv'
<1>1. clock \in Int /\ \A r \in dir : r.time \in Int
  BY DEF TypeOK, Snapshot
<1>2. TimesPast'
  BY <1>1 DEF DirInv, TimesPast
<1> QED BY <1>2 DEF DirInv, OwnIsNewest, OwedOnDisk, PreservedSurvives, KeptIfPreserved

\* No snapshot is named None.
LEMMA NoneIsNoFile ==
  ASSUME TypeOK
  PROVE  \A r \in dir : r.id # None
BY RecoveryAssumption DEF Snapshot, TypeOK

LEMMA DirRemoved ==
  ASSUME TypeOK, DirInv, alive, RemoveRecovery, UNCHANGED <<preserved, owed, clock>>
  PROVE  DirInv'
<1>1. dir' = Removed(dir) /\ rpath' = None /\ covered' = None
  BY DEF RemoveRecovery
<1>2. /\ dir' \in SUBSET dir
      /\ \A r \in dir : r.id = rpath \/ r \in dir'
      /\ preserved \subseteq dir'
  BY <1>1, RemovedResult
<1>3. \A r \in dir' : r.id # None
  BY <1>2, NoneIsNoFile
<1>4. OwedOnDisk'
  BY <1>1, <1>2, <1>3 DEF DirInv, OwedOnDisk, IsNewest
<1>5. TimesPast'
  BY <1>2 DEF DirInv, TimesPast
<1> QED
  BY <1>1, <1>2, <1>3, <1>4, <1>5
  DEF DirInv, OwnIsNewest, PreservedSurvives, KeptIfPreserved, SnapIds

LEMMA DirSynced ==
  ASSUME TypeOK, DirInv, alive, NEW tx, NEW dirty, Synced(name[cur], tx, dirty), OwedAfterSync,
         clock' = clock,
         \/ rkeep' = rkeep /\ preserved' = PreservedAfterSync
         \/ rkeep' = TRUE /\ preserved' = PreservedAfterSync \cup {r \in dir' : r.id = rpath'}
  PROVE  DirInv'
<1>1. /\ \A r \in dir' : r.time <= clock
      /\ covered' # None => \A r \in dir' : r.id = rpath' => IsNewest(dir', r)
      /\ \A f \in Files : owed[f] # None /\ (dir' = dir \/ f # resolvePath(name[cur])) =>
           owed[f] \in dir' /\ IsNewest(dir', owed[f]) /\ owed[f].id # rpath'
  BY DEF Synced
<1>2. /\ PreservedAfterSync \subseteq dir'
      /\ rpath' \in SnapIds(PreservedAfterSync) => rkeep
  BY PreservedSynced DEF DirInv, KeptIfPreserved
<1>3. OwedOnDisk'
  <2> SUFFICES ASSUME NEW f \in Files, owed'[f] # None
               PROVE  /\ owed'[f] \in dir' /\ owed'[f].orig = f /\ IsNewest(dir', owed'[f])
                      /\ owed'[f].id # rpath'
    BY DEF OwedOnDisk, IsNewest
  <2>1. owed'[f] = owed[f] /\ (dir' = dir \/ f # resolvePath(name[cur]))
    BY DEF OwedAfterSync
  <2>2. owed[f].orig = f
    BY <2>1 DEF DirInv, OwedOnDisk
  <2> QED BY <1>1, <2>1, <2>2
<1>4. PreservedSurvives'
  BY <1>2 DEF PreservedSurvives
<1>5. KeptIfPreserved'
  BY <1>2 DEF KeptIfPreserved
<1>6. TimesPast' /\ OwnIsNewest'
  BY <1>1 DEF TimesPast, OwnIsNewest, IsNewest
<1> QED BY <1>3, <1>4, <1>5, <1>6 DEF DirInv

LEMMA DirRecovered ==
  ASSUME TypeOK, DirInv, NEW rec \in dir, NEW force, RecoverFrom(rec, force),
         covered' # None => IsNewest(dir, rec)
  PROVE  DirInv'
<1>1. /\ alive /\ dir' = Removed(dir) /\ rpath' = rec.id /\ rkeep' = FALSE
      /\ preserved' = preserved \ {rec} /\ owed' = [owed EXCEPT ![rec.orig] = None]
      /\ clock' = clock
  BY DEF RecoverFrom, Idle
<1>2. dir \subseteq Snapshot /\ \A r \in dir : r.id = rec.id => r = rec
  BY DEF TypeOK, DistinctIds
<1>3. /\ dir' \in SUBSET dir
      /\ \A r \in dir : r.id = rpath \/ r \in dir'
      /\ preserved \subseteq dir'
  BY <1>1, RemovedResult
<1>4. OwnIsNewest'
  BY <1>1, <1>2, <1>3 DEF OwnIsNewest, IsNewest
<1>5. OwedOnDisk'
  <2> SUFFICES ASSUME NEW f \in Files, owed'[f] # None
               PROVE  /\ owed'[f] \in dir' /\ owed'[f].orig = f /\ IsNewest(dir', owed'[f])
                      /\ owed'[f].id # rpath'
    BY DEF OwedOnDisk, IsNewest
  <2>1. f # rec.orig /\ owed'[f] = owed[f]
    BY <1>1 DEF TypeOK
  <2>2. owed[f] \in dir /\ owed[f].orig = f /\ IsNewest(dir, owed[f]) /\ owed[f].id # rpath
    BY <1>1, <2>1 DEF DirInv, OwedOnDisk
  <2>3. owed[f] \in dir' /\ IsNewest(dir', owed[f])
    BY <1>3, <2>2 DEF IsNewest
  <2>4. owed[f].id # rec.id
    BY <1>2, <2>1, <2>2
  <2> QED BY <1>1, <2>1, <2>2, <2>3, <2>4
<1>6. TimesPast' /\ PreservedSurvives'
  BY <1>1, <1>3 DEF DirInv, TimesPast, PreservedSurvives
<1>7. KeptIfPreserved'
  BY <1>1, <1>2, <1>3 DEF KeptIfPreserved, SnapIds
<1> QED BY <1>4, <1>5, <1>6, <1>7 DEF DirInv

\* The session's snapshot is its newest when it dies, and stays what is owed.
LEMMA LeftOnDisk ==
  ASSUME NEW d \in SUBSET Snapshot, DistinctIds(d), NEW id, NEW f \in Files,
         \A r \in d : r.id = id => IsNewest(d, r),
         LeftBehind(d, id)[f] # None,
         owed[f] # None /\ ~(\E r \in d : r.id = id /\ r.orig = f) =>
           owed[f] \in d /\ owed[f].orig = f /\ IsNewest(d, owed[f])
  PROVE  LET left == LeftBehind(d, id)[f]
         IN  left \in d /\ left.orig = f /\ IsNewest(d, left)
<1>1. CASE \E r \in d : r.id = id /\ r.orig = f
  <2>1. PICK r \in d : r.id = id /\ r.orig = f
    BY <1>1
  <2> DEFINE c == CHOOSE q \in d : q.id = id
  <2>2. c \in d /\ c.id = id
    BY <2>1
  <2>3. LeftBehind(d, id)[f] = c
    BY <1>1 DEF LeftBehind
  <2> HIDE DEF c
  <2>4. c = r
    BY <2>1, <2>2 DEF DistinctIds
  <2> QED BY <2>1, <2>3, <2>4
<1>2. CASE ~(\E r \in d : r.id = id /\ r.orig = f)
  <2>1. LeftBehind(d, id)[f] = owed[f]
    BY <1>2 DEF LeftBehind
  <2> QED BY <1>2, <2>1
<1> QED BY <1>1, <1>2

LEMMA DirKilled ==
  ASSUME TypeOK, DirInv, FatalSignal
  PROVE  DirInv'
<1>1. PICK due \in BOOLEAN : FatalSync(due)
  BY DEF FatalSignal
<1>2. Synced(name[cur], text[cur], rdirty)
  <2>1. name[cur] \in Names \cup {NoName} /\ text[cur] \in Texts /\ rdirty \in BOOLEAN /\ alive
    BY DEF TypeOK, FatalSignal
  <2> QED BY <1>1, <2>1, SyncResult DEF FatalSync
<1>3. /\ dir' \in SUBSET Snapshot /\ DistinctIds(dir')
      /\ \A r \in dir' : r.time <= clock
      /\ covered' # None => \A r \in dir' : r.id = rpath' => IsNewest(dir', r)
      /\ \A f \in Files : owed[f] # None /\ (dir' = dir \/ f # resolvePath(name[cur])) =>
           owed[f] \in dir' /\ IsNewest(dir', owed[f])
      /\ \/ dir' = dir
         \/ covered' = cur /\ \E r \in dir' : r.id = rpath' /\ r.orig = resolvePath(name[cur])
  BY <1>2 DEF Synced
<1>4. /\ ~alive' /\ rkeep' = rkeep /\ preserved' = PreservedAfterSync /\ clock' = clock
      /\ owed' = IF covered' = None THEN owed ELSE LeftBehind(dir', rpath')
  BY DEF FatalSignal
<1>5. cur # None
  BY RecoveryAssumption DEF TypeOK
<1>6. \A f \in Files : owed[f] # None => owed[f].orig = f
  BY DEF DirInv, OwedOnDisk
<1>7. OwedOnDisk'
  <2> SUFFICES ASSUME NEW f \in Files, owed'[f] # None
               PROVE  owed'[f] \in dir' /\ owed'[f].orig = f /\ IsNewest(dir', owed'[f])
    BY <1>4 DEF OwedOnDisk, IsNewest
  <2>1. CASE covered' = None
    BY <1>3, <1>4, <1>5, <1>6, <2>1
  <2>2. CASE covered' # None
    <3>1. owed'[f] = LeftBehind(dir', rpath')[f]
      BY <1>4, <2>2
    <3>2. \A r \in dir' : r.id = rpath' => IsNewest(dir', r)
      BY <1>3, <2>2
    <3>3. owed[f] # None /\ ~(\E r \in dir' : r.id = rpath' /\ r.orig = f) =>
            owed[f] \in dir' /\ owed[f].orig = f /\ IsNewest(dir', owed[f])
      BY <1>3, <1>6
    <3>4. LET left == LeftBehind(dir', rpath')[f]
          IN  left \in dir' /\ left.orig = f /\ IsNewest(dir', left)
      BY <1>3, <3>1, <3>2, <3>3, LeftOnDisk
    <3> QED BY <3>1, <3>4
  <2> QED BY <2>1, <2>2
<1>8. PreservedSurvives' /\ KeptIfPreserved'
  BY <1>2, <1>4, PreservedSynced DEF DirInv, PreservedSurvives, KeptIfPreserved
<1>9. TimesPast' /\ OwnIsNewest'
  BY <1>3, <1>4 DEF TimesPast, OwnIsNewest, IsNewest
<1> QED BY <1>7, <1>8, <1>9 DEF DirInv

LEMMA DirCrashed ==
  ASSUME TypeOK, DirInv, Crash
  PROVE  DirInv'
<1>1. /\ ~alive' /\ UNCHANGED <<rpath, rkeep, dir, preserved, covered, clock>>
      /\ owed' = IF covered = None THEN owed ELSE LeftBehind(dir, rpath)
  BY DEF Crash, recovery
<1>2. dir \in SUBSET Snapshot /\ DistinctIds(dir) /\ OwnIsNewest /\ OwedOnDisk
  BY DEF TypeOK, DirInv
<1>3. OwedOnDisk'
  <2> SUFFICES ASSUME NEW f \in Files, owed'[f] # None
               PROVE  owed'[f] \in dir /\ owed'[f].orig = f /\ IsNewest(dir, owed'[f])
    BY <1>1 DEF OwedOnDisk
  <2>1. CASE covered = None
    BY <1>1, <1>2, <2>1 DEF OwedOnDisk
  <2>2. CASE covered # None
    <3>1. owed'[f] = LeftBehind(dir, rpath)[f]
      BY <1>1, <2>2
    <3>2. \A r \in dir : r.id = rpath => IsNewest(dir, r)
      BY <1>2, <2>2 DEF OwnIsNewest
    <3>3. owed[f] # None => owed[f] \in dir /\ owed[f].orig = f /\ IsNewest(dir, owed[f])
      BY <1>2 DEF OwedOnDisk
    <3>4. LET left == LeftBehind(dir, rpath)[f]
          IN  left \in dir /\ left.orig = f /\ IsNewest(dir, left)
      BY <1>2, <3>1, <3>2, <3>3, LeftOnDisk
    <3> QED BY <3>1, <3>4
  <2> QED BY <2>1, <2>2
<1> QED BY <1>1, <1>2, <1>3 DEF DirInv, TimesPast, OwnIsNewest, PreservedSurvives, KeptIfPreserved

LEMMA DirStarted ==
  ASSUME TypeOK, DirInv, NEW nm, Start(nm)
  PROVE  DirInv'
<1>1. rpath' = None /\ covered' = None /\ UNCHANGED <<dir, preserved, owed, clock>>
  BY DEF Start
<1>2. (\A r \in dir : r.id # None) /\ preserved \subseteq dir
  BY NoneIsNoFile DEF DirInv, PreservedSurvives
<1> QED
  BY <1>1, <1>2
  DEF DirInv, TimesPast, OwnIsNewest, OwedOnDisk, PreservedSurvives, KeptIfPreserved, SnapIds

\* What is preserved or owed to a dead session outlasts every step.
LEMMA DirStep == RecoveryInv /\ [Next]_vars => DirInv'
<1> SUFFICES ASSUME RecoveryInv, [Next]_vars PROVE DirInv'
  OBVIOUS
<1>1. TypeOK /\ DirInv
  BY DEF RecoveryInv
<1>2. name[cur] \in Names \cup {NoName} /\ text[cur] \in Texts /\ rdirty \in BOOLEAN
  BY <1>1 DEF TypeOK
<1>3. CASE Type \/ UndoCommand \/ SwitchScreen \/ Tick \/ UNCHANGED vars
  BY <1>1, <1>3, DirSame DEF Type, UndoCommand, SwitchScreen, Tick, recovery, vars
<1>4. ASSUME NEW tx \in Texts, NEW changed, alive, EndChange(tx, changed)
      PROVE  DirInv'
  <2>1. Synced(name[cur], tx, IF name[cur] = NoName THEN rdirty ELSE TRUE)
    BY <1>1, <1>2, <1>4, NoteResult DEF EndChange
  <2> QED BY <1>1, <1>4, <2>1, DirSynced DEF EndChange
<1>5. CASE FinishInsert
  BY <1>2, <1>4, <1>5 DEF FinishInsert
<1>6. CASE Change
  BY <1>4, <1>6 DEF Change, Idle
<1>7. ASSUME NEW nm \in Names, Save(nm) \/ Rename(nm) \/ EditNewScreen(nm)
      PROVE  DirInv'
  <2>1. CASE Save(nm)
    <3>1. CASE RemoveRecovery
      BY <1>1, <2>1, <3>1, DirRemoved DEF Save, Idle
    <3>2. CASE UNCHANGED <<modified, recovery>>
      BY <1>1, <2>1, <3>2, DirSame DEF Save, recovery
    <3> QED BY <2>1, <3>1, <3>2 DEF Save
  <2>2. CASE Rename(nm)
    BY <1>1, <2>2, DirSame DEF Rename
  <2>3. CASE EditNewScreen(nm)
    BY <1>1, <2>3, DirSame DEF EditNewScreen, recovery
  <2> QED BY <1>7, <2>1, <2>2, <2>3
<1>8. ASSUME NEW nm \in Names, NEW force \in BOOLEAN, EditFile(nm, force)
      PROVE  DirInv'
  BY <1>1, <1>8, DirRemoved DEF EditFile, Idle
<1>9. ASSUME NEW nm \in Names, NEW force \in BOOLEAN, Recover(nm, force)
      PROVE  DirInv'
  <2>1. PICK rec \in Newest(dir, Abs(nm)) : RecoverFrom(rec, force)
    BY <1>9 DEF Recover
  <2>2. rec \in dir /\ IsNewest(dir, rec)
    BY <1>1, <2>1, NewestFound DEF TypeOK
  <2> QED BY <1>1, <2>1, <2>2, DirRecovered
<1>10. ASSUME NEW force \in BOOLEAN, RecoverPath(force)
       PROVE  DirInv'
  BY <1>1, <1>10, DirRecovered DEF RecoverPath
<1>11. ASSUME NEW d \in Dirs, NEW force \in BOOLEAN, Cd(d, force)
       PROVE  DirInv'
  BY <1>1, <1>11, DirSame DEF Cd
<1>12. CASE Preserve \/ IdleFlush
  <2>1. /\ SyncRecovery(TRUE, TRUE, name[cur], text[cur], TRUE, rdirty)
        /\ alive /\ OwedAfterSync /\ clock' = clock
        /\ \/ rkeep' = rkeep /\ preserved' = PreservedAfterSync
           \/ rkeep' = TRUE /\ preserved' = PreservedAfterSync \cup {r \in dir' : r.id = rpath'}
    BY <1>12 DEF Preserve, IdleFlush, Idle
  <2>2. Synced(name[cur], text[cur], rdirty)
    BY <1>1, <1>2, <2>1, SyncResult
  <2> QED BY <1>1, <2>1, <2>2, DirSynced
<1>13. ASSUME NEW force \in BOOLEAN, Quit(force)
       PROVE  DirInv'
  <2>1. CASE RemoveRecovery
    BY <1>1, <1>13, <2>1, DirRemoved DEF Quit, Idle
  <2>2. CASE /\ UNCHANGED <<alive, rpath, rdirty, rkeep, dir, faults>>
             /\ covered' = IF covered = cur THEN None ELSE covered
    BY <1>1, <1>13, <2>2, DirSame DEF Quit
  <2> QED BY <1>13, <2>1, <2>2 DEF Quit
<1>14. CASE QuitFromBackslash
  BY <1>1, <1>14, DirRemoved DEF QuitFromBackslash, Idle
<1>15. CASE FatalSignal \/ Crash
  BY <1>1, <1>15, DirKilled, DirCrashed
<1>16. ASSUME NEW nm \in Names, Start(nm)
       PROVE  DirInv'
  BY <1>1, <1>16, DirStarted
<1> QED
  BY <1>3, <1>5, <1>6, <1>7, <1>8, <1>9, <1>10, <1>11, <1>12, <1>13, <1>14, <1>15, <1>16
  DEF Next, EditStep, FileStep, ScreenStep, SessionStep
-----------------------------------------------------------------------------
(* The snapshot and the buffer from step to step. *)

\* The file a snapshot accounts for has a name.
LEMMA CoveredNamed ==
  ASSUME TypeOK, SnapshotCurrent, covered # None
  PROVE  name[covered] # NoName
<1>1. PICK r \in dir : r.orig = resolvePath(name[covered])
  BY DEF SnapshotCurrent
<1>2. r.orig \in Files
  BY DEF TypeOK, Snapshot
<1> QED BY <1>1, <1>2, RecoveryAssumption DEF resolvePath, FileAt, Names

\* Nothing the snapshot is compared with changes.
LEMMA CurrentSame ==
  ASSUME SnapshotCurrent, UNCHANGED <<rpath, dir, rdirty>>,
         covered' # None => /\ covered' = covered
                            /\ FileAt(cwd', name[covered]) = FileAt(cwd, name[covered])
                            /\ modified'[covered] = modified[covered]
                            /\ name'[covered] = name[covered]
                            /\ text'[covered] = text[covered]
                            /\ pending /\ cur = covered => pending' /\ cur' = covered
  PROVE  SnapshotCurrent'
BY DEF SnapshotCurrent, resolvePath, FileAt

\* A sync of an unchanged buffer, by :preserve, when the user pauses, or for a
\* fatal signal.
LEMMA CurrentSynced ==
  ASSUME TypeOK, SnapshotCurrent, modified[cur] \/ covered' = covered,
         Synced(name[cur], text[cur], rdirty),
         UNCHANGED <<cwd, cur, name, text, modified, pending>>
  PROVE  SnapshotCurrent'
<1>1. CASE dir' = dir /\ covered' = None
  BY <1>1 DEF SnapshotCurrent
<1>2. CASE dir' = dir /\ covered' = covered /\ rpath' = rpath /\ rdirty' = rdirty
  BY <1>2, CurrentSame
<1>3. CASE /\ covered' = cur /\ name[cur] # NoName
           /\ \E r \in dir' : r.id = rpath' /\ r.orig = resolvePath(name[cur]) /\ r.text = text[cur]
  <2>1. modified[cur]
    BY <1>3, RecoveryAssumption DEF SnapshotCurrent, TypeOK
  <2> QED BY <1>3, <2>1 DEF SnapshotCurrent, resolvePath, FileAt
<1> QED BY <1>1, <1>2, <1>3 DEF Synced

\* The end of a change, whether it is written at once, throttled, or fails.
LEMMA CurrentChanged ==
  ASSUME TypeOK, DirInv, SnapshotCurrent, alive, NEW tx \in Texts, NEW changed,
         EndChange(tx, changed), ~pending',
         text' \in [Screens -> Texts], text'[cur] = tx,
         \A s \in Screens : s # cur => text'[s] = text[s]
  PROVE  SnapshotCurrent'
<1> SUFFICES ASSUME covered' # None PROVE SnapshotCurrent'
  BY DEF SnapshotCurrent
<1>1. name[cur] \in Names \cup {NoName} /\ cur \in Screens /\ covered \in Screens \cup {None}
  BY DEF TypeOK
<1>2. modified' = [modified EXCEPT ![cur] = TRUE] /\ UNCHANGED <<cwd, cur, name>>
  BY DEF EndChange
<1>3. Synced(name[cur], tx, IF name[cur] = NoName THEN rdirty ELSE TRUE)
  BY <1>1, NoteResult DEF EndChange
<1>4. CASE /\ dir' = dir /\ covered' = covered /\ rpath' = rpath
           /\ rdirty' = IF name[cur] = NoName THEN rdirty ELSE TRUE
  <2>1. modified[covered] /\ modified'[covered]
    BY <1>1, <1>2, <1>4 DEF SnapshotCurrent, TypeOK
  <2>2. PICK r \in dir :
          /\ r.id = rpath /\ r.orig = resolvePath(name[covered])
          /\ rdirty \/ (pending /\ cur = covered) \/ r.text = text[covered]
    BY <1>4 DEF SnapshotCurrent
  <2>3. CASE name[cur] = NoName
    <3>1. covered # cur
      BY <1>4, <2>3, CoveredNamed
    <3>2. text'[covered] = text[covered]
      BY <1>1, <1>4, <3>1
    <3> QED
      BY <1>2, <1>4, <2>1, <2>2, <2>3, <3>1, <3>2 DEF SnapshotCurrent, resolvePath, FileAt
  <2>4. CASE name[cur] # NoName
    BY <1>2, <1>4, <2>1, <2>2, <2>4 DEF SnapshotCurrent, resolvePath, FileAt
  <2> QED BY <2>3, <2>4
<1>5. CASE /\ covered' = cur
           /\ \E r \in dir' : r.id = rpath' /\ r.orig = resolvePath(name[cur]) /\ r.text = tx
  <2>1. modified'[cur]
    BY <1>1, <1>2 DEF TypeOK
  <2> QED BY <1>2, <1>5, <2>1 DEF SnapshotCurrent, resolvePath, FileAt
<1> QED BY <1>3, <1>4, <1>5 DEF Synced

\* The snapshot of :recover is the buffer it has just been read into.
LEMMA CurrentRecovered ==
  ASSUME TypeOK, DirInv, NEW nm, NEW force, Recover(nm, force)
  PROVE  SnapshotCurrent'
<1> SUFFICES ASSUME covered' # None PROVE SnapshotCurrent'
  BY DEF SnapshotCurrent
<1>1. PICK rec \in Newest(dir, Abs(nm)) :
        RecoverFrom(rec, force) /\ covered' = IF rec \in dir' THEN cur ELSE None
  BY DEF Recover
<1>2. /\ Loaded(cur, rec.orig, rec.text, TRUE) /\ rpath' = rec.id
      /\ covered' = cur /\ rec \in dir' /\ cur \in Screens
  BY <1>1 DEF RecoverFrom, TypeOK
<1>3. modified'[cur] /\ name'[cur] = rec.orig /\ text'[cur] = rec.text
  BY <1>2 DEF Loaded, TypeOK
<1>4. FileAt(cwd', rec.orig) = rec.orig
  <2>1. rec.orig \in Files
    BY <1>1, NewestFound DEF TypeOK, Snapshot
  <2> QED BY <2>1, RecoveryAssumption DEF FileAt
<1>5. rec.orig = resolvePath(name[covered])'
  BY <1>2, <1>3, <1>4 DEF resolvePath, FileAt
<1> QED BY <1>2, <1>3, <1>5 DEF SnapshotCurrent

LEMMA CurrentStep == RecoveryInv /\ [Next]_vars => SnapshotCurrent'
<1> SUFFICES ASSUME RecoveryInv, [Next]_vars PROVE SnapshotCurrent'
  OBVIOUS
<1>1. TypeOK /\ DirInv /\ SnapshotCurrent
  BY DEF RecoveryInv
<1>2. /\ name[cur] \in Names \cup {NoName} /\ text[cur] \in Texts /\ rdirty \in BOOLEAN
      /\ cur \in shown /\ shown \subseteq Screens /\ covered \in shown \cup {None}
  BY <1>1 DEF TypeOK
<1>3. ASSUME covered' = None PROVE SnapshotCurrent'
  BY <1>3 DEF SnapshotCurrent
<1>4. CASE Type
  <2>1. PICK t \in Texts : text' = [text EXCEPT ![cur] = t]
    BY <1>4 DEF Type
  <2>2. /\ UNCHANGED <<cwd, cur, name, modified, rpath, rdirty, dir, covered>> /\ pending' = TRUE
    BY <1>4 DEF Type, recovery
  <2>3. covered # cur => text'[covered] = text[covered] \/ covered = None
    BY <1>1, <1>2, <2>1 DEF TypeOK
  <2> QED BY <1>1, <1>2, <2>2, <2>3 DEF SnapshotCurrent, resolvePath
<1>5. CASE FinishInsert
  BY <1>1, <1>2, <1>5, CurrentChanged DEF FinishInsert, TypeOK
<1>6. CASE Change
  <2>1. PICK t \in Texts : text' = [text EXCEPT ![cur] = t] /\ EndChange(t, t # text[cur])
    BY <1>6 DEF Change
  <2>2. alive /\ ~pending'
    BY <1>6 DEF Change, Idle
  <2>3. /\ text' \in [Screens -> Texts] /\ text'[cur] = t
        /\ \A s \in Screens : s # cur => text'[s] = text[s]
    BY <1>1, <1>2, <2>1 DEF TypeOK
  <2> QED BY <1>1, <2>1, <2>2, <2>3, CurrentChanged
<1>7. CASE UndoCommand
  <2>1. PICK t \in Texts : text' = [text EXCEPT ![cur] = t]
    BY <1>7 DEF UndoCommand
  <2>2. /\ UNCHANGED <<cwd, cur, name, rpath, rdirty, dir, pending>>
        /\ modified' = [modified EXCEPT ![cur] = TRUE]
        /\ covered' = IF covered = cur THEN None ELSE covered
    BY <1>7 DEF UndoCommand
  <2>3. ASSUME covered' # None
        PROVE  /\ covered' = covered /\ modified'[covered] = modified[covered]
               /\ text'[covered] = text[covered]
    BY <1>1, <1>2, <2>1, <2>2, <2>3 DEF TypeOK
  <2> QED BY <1>1, <2>2, <2>3, CurrentSame
<1>8. ASSUME NEW nm \in Names, Save(nm) PROVE SnapshotCurrent'
  <2>1. CASE RemoveRecovery
    BY <1>3, <2>1 DEF RemoveRecovery
  <2>2. CASE (name[cur] # NoName) /\ UNCHANGED <<modified, recovery>>
    <3>1. UNCHANGED <<cwd, cur, text, modified, pending, rpath, rdirty, dir, covered>>
      BY <1>8, <2>2 DEF Save, recovery
    <3>2. name' = [name EXCEPT ![cur] = name[cur]]
      BY <1>8, <2>2 DEF Save
    <3>3. name' = name
      BY <1>1, <1>2, <3>2 DEF TypeOK
    <3> QED BY <1>1, <3>1, <3>3, CurrentSame
  <2> QED BY <1>8, <2>1, <2>2 DEF Save
<1>9. ASSUME NEW nm \in Names, Rename(nm) PROVE SnapshotCurrent'
  <2>1. /\ UNCHANGED <<cwd, cur, text, modified, pending, rpath, rdirty, dir>>
        /\ name' = [name EXCEPT ![cur] = nm]
        /\ covered' = IF covered = cur THEN None ELSE covered
    BY <1>9 DEF Rename
  <2>2. covered' # None => covered' = covered /\ name'[covered] = name[covered]
    BY <1>1, <1>2, <2>1 DEF TypeOK
  <2> QED BY <1>1, <2>1, <2>2, CurrentSame
<1>10. ASSUME NEW nm \in Names, NEW force \in BOOLEAN, EditFile(nm, force) \/ Recover(nm, force)
       PROVE  SnapshotCurrent'
  BY <1>1, <1>3, <1>10, CurrentRecovered DEF EditFile, RemoveRecovery
<1>11. CASE Preserve \/ IdleFlush
  <2>1. /\ SyncRecovery(TRUE, TRUE, name[cur], text[cur], TRUE, rdirty)
        /\ alive /\ modified[cur] /\ UNCHANGED <<cwd, cur, name, text, modified, pending>>
    BY <1>11 DEF Preserve, IdleFlush, Idle, bufs
  <2>2. Synced(name[cur], text[cur], rdirty)
    BY <1>1, <1>2, <2>1, SyncResult
  <2> QED BY <1>1, <2>1, <2>2, CurrentSynced
<1>12. ASSUME NEW nm \in Names, EditNewScreen(nm) PROVE SnapshotCurrent'
  <2>1. PICK s \in Screens \ shown, t \in Texts : Loaded(s, nm, t, FALSE)
    BY <1>12 DEF EditNewScreen
  <2>2. UNCHANGED <<cwd, rpath, rdirty, dir, covered, pending>> /\ ~pending
    BY <1>12 DEF EditNewScreen, recovery, Idle
  <2>3. covered # None => /\ modified'[covered] = modified[covered]
                          /\ name'[covered] = name[covered]
                          /\ text'[covered] = text[covered]
    BY <1>1, <1>2, <2>1 DEF Loaded, TypeOK
  <2> QED BY <1>1, <2>2, <2>3, CurrentSame
<1>13. CASE SwitchScreen
  BY <1>1, <1>13, CurrentSame DEF SwitchScreen, bufs, recovery, Idle
<1>14. ASSUME NEW force \in BOOLEAN, Quit(force) PROVE SnapshotCurrent'
  <2>1. CASE RemoveRecovery
    BY <1>3, <2>1 DEF RemoveRecovery
  <2>2. CASE /\ covered' = IF covered = cur THEN None ELSE covered
             /\ UNCHANGED <<alive, rpath, rdirty, rkeep, dir, faults>>
    BY <1>1, <1>14, <2>2, CurrentSame DEF Quit, bufs, Idle
  <2> QED BY <1>14, <2>1, <2>2 DEF Quit
<1>15. CASE QuitFromBackslash
  BY <1>3, <1>15 DEF QuitFromBackslash, RemoveRecovery
<1>16. CASE FatalSignal
  <2>1. PICK due \in BOOLEAN : FatalSync(due)
    BY <1>16 DEF FatalSignal
  <2>2. alive /\ UNCHANGED <<cwd, cur, name, text, modified, pending>>
    BY <1>16 DEF FatalSignal, bufs
  <2>3. Synced(name[cur], text[cur], rdirty)
    BY <1>1, <1>2, <2>1, <2>2, SyncResult DEF FatalSync
  <2>4. modified[cur] \/ covered' = covered
    BY <2>1 DEF FatalSync, SyncRecovery
  <2> QED BY <1>1, <2>2, <2>3, <2>4, CurrentSynced
<1>17. CASE Crash
  BY <1>1, <1>17, CurrentSame DEF Crash, bufs, recovery
<1>18. ASSUME NEW nm \in Names, Start(nm) PROVE SnapshotCurrent'
  BY <1>3, <1>18 DEF Start
<1>19. CASE Tick
  BY <1>1, <1>19, CurrentSame DEF Tick, bufs, recovery
<1>20. ASSUME NEW force, RecoverPath(force) PROVE SnapshotCurrent'
  BY <1>3, <1>20 DEF RecoverPath
<1>21. ASSUME NEW d, NEW force, Cd(d, force) PROVE SnapshotCurrent'
  <2>1. /\ UNCHANGED <<bufs, cur, pending, rpath, rdirty, dir>>
        /\ covered' = IF covered # None /\ name[covered] \in Relative THEN None ELSE covered
    BY <1>21 DEF Cd
  <2>2. covered' # None =>
          covered' = covered /\ FileAt(cwd', name[covered]) = FileAt(cwd, name[covered])
    BY <2>1 DEF FileAt
  <2> QED BY <1>1, <2>1, <2>2, CurrentSame DEF bufs
<1>22. CASE UNCHANGED vars
  BY <1>1, <1>22, CurrentSame DEF vars
<1> QED
  BY <1>4, <1>5, <1>6, <1>7, <1>8, <1>9, <1>10, <1>11, <1>12, <1>13, <1>14, <1>15, <1>16,
     <1>17, <1>18, <1>19, <1>20, <1>21, <1>22
  DEF Next, EditStep, FileStep, ScreenStep, SessionStep

\* Every reachable state satisfies the invariant.
LEMMA RecoveryInvariant == Spec => []RecoveryInv
<1>1. Init => RecoveryInv
  <2> SUFFICES ASSUME Init PROVE RecoveryInv
    OBVIOUS
  <2>1. TypeOK
    BY TypeInit
  <2>2. dir = {}
    BY DEF Init
  <2>3. /\ covered = None /\ preserved = {} /\ \A f \in Files : owed[f] = None
    BY DEF Init
  <2> QED
    BY <2>1, <2>2, <2>3
    DEF RecoveryInv, SnapshotCurrent, DirInv, TimesPast, OwnIsNewest, OwedOnDisk,
        PreservedSurvives, KeptIfPreserved, SnapIds
<1>2. RecoveryInv /\ [Next]_vars => RecoveryInv'
  BY TypeStep, DirStep, CurrentStep DEF RecoveryInv
<1> QED BY <1>1, <1>2, PTL DEF Spec

-----------------------------------------------------------------------------
\* The variables have their types, and no two recovery files the same name,
\* however many sessions have written and left theirs.
THEOREM RecoveryTypes == Spec => []TypeOK
<1>1. RecoveryInv => TypeOK
  BY DEF RecoveryInv
<1> QED BY <1>1, RecoveryInvariant, PTL

\* The snapshot is the buffer it accounts for, or the engine knows that a sync
\* is due, with any number of screens sharing the one recovery state.
THEOREM SnapshotIsCurrent == Spec => []SnapshotCurrent
<1>1. RecoveryInv => SnapshotCurrent
  BY DEF RecoveryInv
<1> QED BY <1>1, RecoveryInvariant, PTL

\* No save, quit, crash or later session deletes or changes a preserved snapshot:
\* only the session that preserved it may, until it lets go of the file.
THEOREM PreservedStays == Spec => []PreservedSurvives
<1>1. RecoveryInv => PreservedSurvives
  BY DEF RecoveryInv, DirInv
<1> QED BY <1>1, RecoveryInvariant, PTL

\* A step writes and deletes at most the session's own snapshot.
THEOREM OthersStay == Spec => OthersUntouched
<1>1. ASSUME RecoveryInv, [Next]_vars
      PROVE  \A r \in dir : r.id = rpath \/ r \in dir'
  <2>1. TypeOK /\ DirInv
    BY <1>1 DEF RecoveryInv
  <2>2. name[cur] \in Names \cup {NoName} /\ text[cur] \in Texts /\ rdirty \in BOOLEAN
    BY <2>1 DEF TypeOK
  <2>3. ASSUME NEW tx, NEW dirty, Synced(name[cur], tx, dirty)
        PROVE  \A r \in dir : r.id = rpath \/ r \in dir'
    BY <2>3 DEF Synced
  <2>4. ASSUME dir' = Removed(dir)
        PROVE  \A r \in dir : r.id = rpath \/ r \in dir'
    BY <2>1, <2>4, RemovedResult
  <2>5. CASE EditStep
    <3>1. ASSUME NEW tx \in Texts, NEW changed, alive, EndChange(tx, changed)
          PROVE  \A r \in dir : r.id = rpath \/ r \in dir'
      BY <2>1, <2>2, <2>3, <3>1, NoteResult DEF EndChange
    <3>2. CASE Type \/ UndoCommand
      BY <3>2 DEF Type, UndoCommand, recovery
    <3>3. CASE FinishInsert
      BY <2>2, <3>1, <3>3 DEF FinishInsert
    <3>4. CASE Change
      BY <3>1, <3>4 DEF Change, Idle
    <3> QED BY <2>5, <3>2, <3>3, <3>4 DEF EditStep
  <2>6. CASE FileStep
    <3>1. ASSUME NEW nm \in Names, Save(nm) \/ Rename(nm)
          PROVE  dir' = Removed(dir) \/ dir' = dir
      BY <3>1 DEF Save, Rename, RemoveRecovery, recovery
    <3>2. ASSUME NEW nm \in Names, NEW force \in BOOLEAN,
                 EditFile(nm, force) \/ Recover(nm, force)
          PROVE  dir' = Removed(dir)
      BY <3>2 DEF EditFile, Recover, RecoverFrom, RemoveRecovery
    <3>3. ASSUME Preserve \/ IdleFlush
          PROVE  \A r \in dir : r.id = rpath \/ r \in dir'
      <4>1. alive /\ SyncRecovery(TRUE, TRUE, name[cur], text[cur], TRUE, rdirty)
        BY <3>3 DEF Preserve, IdleFlush, Idle
      <4> QED BY <2>1, <2>2, <2>3, <4>1, SyncResult
    <3>4. ASSUME NEW d, NEW force, Cd(d, force) PROVE dir' = dir
      BY <3>4 DEF Cd
    <3>5. ASSUME NEW force \in BOOLEAN, RecoverPath(force) PROVE dir' = Removed(dir)
      BY <3>5 DEF RecoverPath, RecoverFrom
    <3> QED BY <2>4, <2>6, <3>1, <3>2, <3>3, <3>4, <3>5 DEF FileStep
  <2>7. CASE ScreenStep
    BY <2>4, <2>7
    DEF ScreenStep, EditNewScreen, SwitchScreen, Quit, RemoveRecovery, recovery
  <2>8. CASE SessionStep
    <3>1. ASSUME FatalSignal
          PROVE  \A r \in dir : r.id = rpath \/ r \in dir'
      <4>1. PICK due \in BOOLEAN : FatalSync(due)
        BY <3>1 DEF FatalSignal
      <4>2. Synced(name[cur], text[cur], rdirty)
        BY <2>1, <2>2, <3>1, <4>1, SyncResult DEF FatalSignal, FatalSync
      <4> QED BY <2>3, <4>2
    <3> QED
      BY <2>4, <2>8, <3>1
      DEF SessionStep, QuitFromBackslash, Crash, Start, Tick, RemoveRecovery, recovery
  <2>9. CASE UNCHANGED vars
    BY <2>9 DEF vars
  <2> QED BY <1>1, <2>5, <2>6, <2>7, <2>8, <2>9 DEF Next
<1>2. RecoveryInv /\ [Next]_vars =>
        [\A r \in dir : r.id = rpath \/ r \in dir']_vars
  BY <1>1
<1> QED BY <1>2, RecoveryInvariant, PTL DEF Spec, OthersUntouched

\* A fatal signal leaves the noted text of the active buffer on disk.
THEOREM FatalSaves == Spec => FatalSavesText
<1> DEFINE Fatal == /\ FatalSignal /\ modified[cur] /\ name[cur] # NoName /\ ~pending
                    /\ (rdirty \/ covered = cur) /\ faults' = faults
           Saved == \E r \in dir' : r.orig = resolvePath(name[cur]) /\ r.text = text[cur]
<1>1. ASSUME RecoveryInv, Fatal PROVE Saved
  <2>1. TypeOK /\ DirInv /\ SnapshotCurrent
    BY <1>1 DEF RecoveryInv
  <2>2. /\ name[cur] \in Names /\ text[cur] \in Texts /\ rdirty \in BOOLEAN
        /\ cur \in Screens /\ faults \in 0..MaxFaults /\ cur # None
    BY <1>1, <2>1, RecoveryAssumption DEF TypeOK
  <2>3. PICK due \in BOOLEAN :
          SyncRecovery(TRUE, due, name[cur], text[cur], modified[cur], rdirty)
    BY <1>1 DEF FatalSignal, FatalSync
  <2>4. CASE rdirty
    <3>1. faults + 1 # faults
      BY <2>2, RecoveryAssumption
    <3>2. PICK id \in IF rpath = None THEN Unused(dir) ELSE {rpath} :
            WriteSucceeds(id, name[cur], text[cur])
      BY <1>1, <2>3, <2>4, <3>1 DEF SyncRecovery, CreateFails, WriteFails
    <3> DEFINE s == [id |-> id, orig |-> resolvePath(name[cur]), text |-> text[cur],
                     time |-> clock]
    <3>3. s \in Snapshot
      BY <2>1, <2>2, OwnOrUnused, Resolved DEF Snapshot, TypeOK
    <3>4. s \in Stored(dir, s)
      <4> HIDE DEF s
      <4> QED BY <2>1, <3>3, StoredResult DEF TypeOK
    <3>5. dir' = Stored(dir, s) /\ s.orig = resolvePath(name[cur]) /\ s.text = text[cur]
      BY <3>2 DEF WriteSucceeds
    <3> QED BY <3>4, <3>5
  <2>5. CASE ~rdirty
    <3>1. dir' = dir /\ covered = cur
      BY <1>1, <2>3, <2>5 DEF SyncRecovery
    <3> QED BY <1>1, <2>1, <2>2, <2>5, <3>1 DEF SnapshotCurrent
  <2> QED BY <2>2, <2>4, <2>5
<1>2. RecoveryInv /\ [Next]_vars => [Fatal => Saved]_vars
  BY <1>1
<1> QED BY <1>2, RecoveryInvariant, PTL DEF Spec, FatalSavesText

\* :recover finds what the last crashed session synced, if no other snapshot of
\* the file is of the same second and the name means the same file to both.
THEOREM RecoverReturns == Spec => RecoverGivesBack
<1> DEFINE left(nm) == owed[resolvePath(nm)]
           Back == \A nm \in Names, force \in BOOLEAN :
                     Recover(nm, force) /\ resolvePath(nm) = Abs(nm) /\ left(nm) # None
                       /\ Untied(left(nm)) => text'[cur] = left(nm).text
<1>1. ASSUME RecoveryInv PROVE Back
  <2> SUFFICES ASSUME NEW nm \in Names, NEW force \in BOOLEAN,
                      Recover(nm, force), resolvePath(nm) = Abs(nm), left(nm) # None,
                      Untied(left(nm))
               PROVE  text'[cur] = left(nm).text
    OBVIOUS
  <2>1. TypeOK /\ OwedOnDisk /\ dir \in SUBSET Snapshot
    BY <1>1 DEF RecoveryInv, DirInv, TypeOK
  <2>2. left(nm) \in dir /\ left(nm).orig = Abs(nm) /\ IsNewest(dir, left(nm))
    BY <2>1, Resolved DEF OwedOnDisk
  <2>3. PICK rec \in Newest(dir, Abs(nm)) : RecoverFrom(rec, force)
    BY DEF Recover
  <2>4. rec = left(nm)
    <3> HIDE DEF left
    <3> QED BY <2>1, <2>2, NewestUntied DEF Untied
  <2>5. text' = [text EXCEPT ![cur] = rec.text]
    BY <2>3 DEF RecoverFrom, Loaded
  <2> QED BY <2>1, <2>4, <2>5 DEF TypeOK
<1>2. RecoveryInv /\ [Next]_vars => [Back]_vars
  BY <1>1
<1> QED BY <1>2, RecoveryInvariant, PTL DEF Spec, RecoverGivesBack
=============================================================================
