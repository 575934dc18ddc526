----------------------------- MODULE FilesProofs -----------------------------
(***************************************************************************)
(* The modified flag of a session tells the truth, for any number of        *)
(* sessions, files and texts, as far as a write that came out short unseen   *)
(* lets it.                                                                  *)
(***************************************************************************)
EXTENDS Files, SequenceTheorems, TLAPS

\* What a session has written or read when it is about to act on it.
Secured(s) ==
  /\ ~up[s] => ~buf[s].modified /\ ~short[s]
  /\ job[s].step \in {"start", "settle"} /\ ~short[s] => buf[s].text = seen[s]
  /\ job[s].step = "write" => job[s].range # "none"
  /\ job[s].step = "append" => job[s].range = "append"
  /\ job[s].step = "leave" /\ ~job[s].force /\ job[s].range \in {"none", "all"}
       /\ ~short[s] => buf[s].text = seen[s]

FilesInv == FTypeOK /\ CleanIsSaved /\ \A s \in Session : Secured(s)

\* The places of the argument list hold files.
LEMMA ArgvFiles ==
  /\ 1 \in DOMAIN Argv
  /\ \A i \in DOMAIN Argv : Argv[i] \in File
  /\ FreshBuffer \in Buffer
  /\ Parked \in Job
<1> USE FilesAssumption
<1>1. Len(Argv) \in Nat /\ DOMAIN Argv = 1..Len(Argv)
  OBVIOUS
<1>2. Len(Argv) # 0
  BY EmptySeq
<1>3. 1 \in DOMAIN Argv
  BY <1>1, <1>2, SMT
<1>4. \A i \in DOMAIN Argv : Argv[i] \in File
  BY <1>1, ElementOfSeq
<1>5. FreshBuffer \in Buffer
  BY <1>3, <1>4 DEF FreshBuffer, Buffer, Content
<1>6. Parked \in Job
  BY <1>3, <1>4 DEF Parked, Job
<1> QED
  BY <1>3, <1>4, <1>5, <1>6

\* A command goes to a file that has a name and a place in the list.
LEMMA CommandTyped ==
  ASSUME FTypeOK, NEW s \in Session, NEW f \in File, NEW force \in BOOLEAN,
         NEW auto \in BOOLEAN, NEW step \in {"write", "append", "leave"},
         NEW range \in {"none", "all", "part", "append"},
         NEW move \in {Stays(s), Quits(s)} \cup ArgMoves(s) \cup FileMoves(s)
  PROVE  Command(step, range, f, force, auto, move) \in Job
<1>1. buf[s].name \in File /\ buf[s].argIdx \in DOMAIN Argv
  BY DEF FTypeOK, Buffer
<1>2. move.then \in {"stay", "quit", "open"} /\ move.file \in File
        /\ move.argIdx \in DOMAIN Argv
  BY <1>1, ArgvFiles DEF Stays, Quits, ArgMoves, FileMoves
<1> QED
  BY <1>2 DEF Command, Job

\* The next step of a command keeps what the command is.
LEMMA JobStep ==
  ASSUME NEW j \in Job,
         NEW step \in {"idle", "start", "write", "append", "settle", "leave", "lock"}
  PROVE  [j EXCEPT !.step = step] \in Job
BY DEF Job

\* A command that goes to its next step stays a command, of the same range and
\* force.
LEMMA StepTaken ==
  ASSUME FTypeOK, NEW s \in Session,
         NEW step \in {"idle", "start", "write", "append", "settle", "leave", "lock"},
         job' = [job EXCEPT ![s].step = step]
  PROVE  /\ job' \in [Session -> Job]
         /\ job'[s].step = step
         /\ job'[s].range = job[s].range
         /\ job'[s].force = job[s].force
<1>1. job[s] \in Job
  BY DEF FTypeOK
<1>2. job' = [job EXCEPT ![s] = [job[s] EXCEPT !.step = step]]
  BY DEF FTypeOK
<1>3. [job[s] EXCEPT !.step = step] \in Job
  BY <1>1, JobStep
<1>4. job' \in [Session -> Job]
  BY <1>2, <1>3 DEF FTypeOK
<1>5. job'[s] = [job[s] EXCEPT !.step = step]
  BY <1>2 DEF FTypeOK
<1>6. job'[s].step = step /\ job'[s].range = job[s].range /\ job'[s].force = job[s].force
  BY <1>1, <1>5 DEF Job
<1> QED
  BY <1>4, <1>6

\* A session that gets another buffer has it, and the others keep theirs.
LEMMA BufferChanged ==
  ASSUME FTypeOK, NEW s \in Session, NEW b \in Buffer, buf' = [buf EXCEPT ![s] = b]
  PROVE  buf' \in [Session -> Buffer] /\ buf'[s] = b
BY DEF FTypeOK

\* An opened file gives a well-formed buffer.
LEMMA BufferOpened ==
  ASSUME FTypeOK, NEW s \in Session, NEW t \in Content,
         buf' = [buf EXCEPT ![s].name = job[s].file, ![s].text = t,
                            ![s].modified = FALSE, ![s].nameChanged = FALSE,
                            ![s].argIdx = job[s].argIdx]
  PROVE  buf' \in [Session -> Buffer]
<1>1. job[s].file \in File /\ job[s].argIdx \in DOMAIN Argv
  BY DEF FTypeOK, Job
<1> DEFINE b == [buf[s] EXCEPT !.name = job[s].file, !.text = t, !.modified = FALSE,
                               !.nameChanged = FALSE, !.argIdx = job[s].argIdx]
<1>2. b \in Buffer
  BY <1>1 DEF FTypeOK, Buffer
<1>3. buf' = [buf EXCEPT ![s] = b]
  BY DEF FTypeOK
<1> HIDE DEF b
<1> QED
  BY <1>2, <1>3, BufferChanged

\* The invariant holds before any session has started.
LEMMA FilesInit == FInit => FilesInv
<1> SUFFICES ASSUME FInit PROVE FilesInv
  OBVIOUS
<1>1. FTypeOK
  BY ArgvFiles, FilesAssumption DEF FInit, FTypeOK, Content
<1>2. CleanIsSaved
  BY DEF FInit, CleanIsSaved, FreshBuffer
<1>3. \A s \in Session : Secured(s)
  BY DEF FInit, Secured, FreshBuffer, Parked
<1> QED
  BY <1>1, <1>2, <1>3 DEF FilesInv

\* A step of one session leaves the others as they are.
Alone(s) ==
  \A t \in Session \ {s} :
     buf'[t] = buf[t] /\ job'[t] = job[t] /\ up'[t] = up[t]
     /\ seen'[t] = seen[t] /\ short'[t] = short[t]

\* It is enough to look at the session that acts.
LEMMA OneSession ==
  ASSUME FilesInv, FTypeOK', NEW s \in Session, Alone(s),
         ~buf'[s].modified /\ ~short'[s] => buf'[s].text = seen'[s],
         Secured(s)'
  PROVE  FilesInv'
<1>1. CleanIsSaved'
  BY DEF FilesInv, CleanIsSaved, Alone
<1>2. \A t \in Session : Secured(t)'
  BY DEF FilesInv, Secured, Alone
<1> QED
  BY <1>1, <1>2 DEF FilesInv

\* Every step of every session keeps the invariant.
LEMMA FilesStep == FilesInv /\ [FNext]_fvars => FilesInv'
<1> SUFFICES ASSUME FilesInv, [FNext]_fvars PROVE FilesInv'
  OBVIOUS
<1>0. CASE UNCHANGED fvars
  BY <1>0 DEF fvars, FilesInv, FTypeOK, CleanIsSaved, Secured
<1>a. CASE FNext
  <2> PICK s \in Session :
        \/ Start(s) \/ Edit(s) \/ Crash(s) \/ Autosave(s)
        \/ \E f \in File : exFile(s, f)
        \/ \E force \in BOOLEAN :
             \/ Depart(s, force)
             \/ \E f \in File, range \in Ranges : exWrite(s, f, range, force)
        \/ WriteFails(s) \/ Replace(s) \/ AppendTo(s) \/ AppendFails(s) \/ Settle(s)
        \/ OpenFails(s) \/ OpenNew(s) \/ Open(s) \/ TakeLock(s) \/ Stay(s) \/ Quit(s)
    BY <1>a DEF FNext
  <2> USE FilesAssumption, ArgvFiles DEF FilesInv
  <2>1. CASE Start(s)
    <3>1. FTypeOK'
      BY <2>1, StepTaken DEF Start, FTypeOK
    <3>2. Alone(s)
      BY <2>1 DEF Start, Alone, FTypeOK
    <3>3. (~buf'[s].modified /\ ~short'[s] => buf'[s].text = seen'[s]) /\ Secured(s)'
      BY <2>1, StepTaken DEF Start, FTypeOK, CleanIsSaved, Secured
    <3> QED BY <3>1, <3>2, <3>3, OneSession
  <2>2. CASE Edit(s)
    <3>0. PICK t \in Text :
            buf' = [buf EXCEPT ![s].text = t, ![s].modified = TRUE]
      BY <2>2 DEF Edit
    <3> DEFINE b == [buf[s] EXCEPT !.text = t, !.modified = TRUE]
    <3>1. b \in Buffer /\ b.modified
      BY DEF FTypeOK, Buffer, Content
    <3>2. buf' = [buf EXCEPT ![s] = b]
      BY <3>0 DEF FTypeOK
    <3> HIDE DEF b
    <3>3. buf' \in [Session -> Buffer] /\ buf'[s].modified
      BY <3>1, <3>2, BufferChanged
    <3>4. FTypeOK'
      BY <2>2, <3>3 DEF Edit, FTypeOK
    <3>5. Alone(s)
      BY <2>2, <3>2 DEF Edit, Alone, FTypeOK
    <3>6. Secured(s)'
      BY <2>2 DEF Edit, Idle, Secured
    <3> QED BY <3>3, <3>4, <3>5, <3>6, OneSession
  <2>3. CASE Crash(s) \/ Quit(s)
    <3>1. Ended(s) /\ UNCHANGED disk
      BY <2>3 DEF Crash, Quit
    <3>2. FTypeOK'
      BY <3>1 DEF Ended, FTypeOK, Content
    <3>3. Alone(s)
      BY <3>1 DEF Ended, Alone, FTypeOK
    <3>4. (~buf'[s].modified /\ ~short'[s] => buf'[s].text = seen'[s]) /\ Secured(s)'
      BY <3>1 DEF Ended, FTypeOK, Secured, FreshBuffer, Parked
    <3> QED BY <3>2, <3>3, <3>4, OneSession
  <2>4. CASE Autosave(s)
    <3>1. PICK move \in {Stays(s)} \cup ArgMoves(s) \cup FileMoves(s) :
            job' = [job EXCEPT ![s] =
                      Command("write", "all", buf[s].name, FALSE, TRUE, move)]
      BY <2>4 DEF Autosave
    <3>2. buf[s].name \in File
      BY DEF FTypeOK, Buffer
    <3>3. FTypeOK'
      BY <2>4, <3>1, <3>2, CommandTyped DEF Autosave, FTypeOK
    <3>4. Alone(s)
      BY <2>4, <3>1 DEF Autosave, Alone, FTypeOK
    <3>5. (~buf'[s].modified /\ ~short'[s] => buf'[s].text = seen'[s]) /\ Secured(s)'
      BY <2>4, <3>1 DEF Autosave, Idle, FTypeOK, CleanIsSaved, Secured, Command
    <3> QED BY <3>3, <3>4, <3>5, OneSession
  <2>5. CASE \E f \in File : exFile(s, f)
    <3>0. PICK f \in File : exFile(s, f)
      BY <2>5
    <3> DEFINE changed == buf[s].nameChanged \/ f # buf[s].name
               b == [buf[s] EXCEPT !.name = f, !.nameChanged = changed]
    <3>1. b \in Buffer /\ b.modified = buf[s].modified /\ b.text = buf[s].text
      <4>1. changed \in BOOLEAN
        OBVIOUS
      <4> HIDE DEF changed
      <4> QED
        BY <4>1 DEF FTypeOK, Buffer
    <3>2. buf' = [buf EXCEPT ![s] = b]
      BY <3>0 DEF exFile, FTypeOK
    <3> HIDE DEF b
    <3>3. buf' \in [Session -> Buffer] /\ buf'[s] = b
      BY <3>1, <3>2, BufferChanged
    <3>4. FTypeOK'
      BY <3>0, <3>3 DEF exFile, FTypeOK
    <3>5. Alone(s)
      BY <3>0, <3>2 DEF exFile, Alone, FTypeOK
    <3>6. (~buf'[s].modified /\ ~short'[s] => buf'[s].text = seen'[s]) /\ Secured(s)'
      BY <3>0, <3>1, <3>3 DEF exFile, Idle, CleanIsSaved, Secured
    <3> QED BY <3>4, <3>5, <3>6, OneSession
  <2>6. CASE \E force \in BOOLEAN : Depart(s, force)
    <3>0. PICK force \in BOOLEAN : Depart(s, force)
      BY <2>6
    <3>1. PICK move \in {Quits(s)} \cup ArgMoves(s) \cup FileMoves(s) :
            job' = [job EXCEPT ![s] =
                      Command("leave", "none", buf[s].name, force, FALSE, move)]
      BY <3>0 DEF Depart
    <3>2. buf[s].name \in File
      BY DEF FTypeOK, Buffer
    <3>3. FTypeOK'
      BY <3>0, <3>1, <3>2, CommandTyped DEF Depart, FTypeOK
    <3>4. Alone(s)
      BY <3>0, <3>1 DEF Depart, Alone, FTypeOK
    <3>5. (~buf'[s].modified /\ ~short'[s] => buf'[s].text = seen'[s]) /\ Secured(s)'
      BY <3>0, <3>1 DEF Depart, Idle, FTypeOK, CleanIsSaved, Secured, Command
    <3> QED BY <3>3, <3>4, <3>5, OneSession
  <2>7. CASE \E force \in BOOLEAN, f \in File, range \in Ranges : exWrite(s, f, range, force)
    <3>0. PICK force \in BOOLEAN, f \in File, range \in Ranges : exWrite(s, f, range, force)
      BY <2>7
    <3> DEFINE step == IF range = "append" THEN "append" ELSE "write"
    <3>1. PICK move \in {Stays(s), Quits(s)} \cup ArgMoves(s) :
            job' = [job EXCEPT ![s] = Command(step, range, f, force, FALSE, move)]
      BY <3>0 DEF exWrite
    <3>2. range \in {"none", "all", "part", "append"} /\ step \in {"write", "append"}
      OBVIOUS
    <3> HIDE DEF step
    <3>3. FTypeOK'
      BY <3>0, <3>1, <3>2, CommandTyped DEF exWrite, FTypeOK
    <3>4. Alone(s)
      BY <3>0, <3>1 DEF exWrite, Alone, FTypeOK
    <3>5. (~buf'[s].modified /\ ~short'[s] => buf'[s].text = seen'[s]) /\ Secured(s)'
      BY <3>0, <3>1, <3>2 DEF exWrite, Idle, FTypeOK, CleanIsSaved, Secured, Command
    <3> QED BY <3>3, <3>4, <3>5, OneSession
  <2>8. CASE WriteFails(s) \/ Stay(s)
    <3>0. job' = [job EXCEPT ![s] = Parked] /\ UNCHANGED <<disk, lock, buf, up, seen, short>>
      BY <2>8 DEF WriteFails, Stay
    <3>1. FTypeOK'
      BY <3>0 DEF FTypeOK
    <3>2. Alone(s)
      BY <3>0 DEF Alone, FTypeOK
    <3>3. (~buf'[s].modified /\ ~short'[s] => buf'[s].text = seen'[s]) /\ Secured(s)'
      BY <3>0 DEF FTypeOK, CleanIsSaved, Secured, Parked
    <3> QED BY <3>1, <3>2, <3>3, OneSession
  <2>9. CASE Replace(s)
    <3>0. PICK put \in Put(s) :
            /\ disk' = [disk EXCEPT ![job[s].target] = put]
            /\ IF job[s].range = "all"
                 THEN /\ seen' = [seen EXCEPT ![s] = put]
                      /\ short' = [short EXCEPT ![s] = put # buf[s].text]
                 ELSE UNCHANGED <<seen, short>>
      BY <2>9 DEF Replace
    <3>1. FTypeOK'
      <4>1. job[s].target \in File /\ put \in Content
        BY DEF FTypeOK, Job, Buffer, Put, Written, Content
      <4>2. job' \in [Session -> Job]
        BY <2>9, StepTaken DEF Replace
      <4>3. seen' \in [Session -> Content] /\ short' \in [Session -> BOOLEAN]
        <5> DEFINE less == put # buf[s].text
        <5>1. less \in BOOLEAN
          OBVIOUS
        <5>2. short' = short \/ short' = [short EXCEPT ![s] = less]
          BY <3>0
        <5> HIDE DEF less
        <5> QED BY <3>0, <4>1, <5>1, <5>2 DEF FTypeOK
      <4> QED
        BY <2>9, <3>0, <4>1, <4>2, <4>3 DEF Replace, FTypeOK
    <3>2. Alone(s)
      BY <2>9, <3>0 DEF Replace, Alone, FTypeOK
    <3>3. job[s].range = "all" /\ ~short'[s] => seen'[s] = buf[s].text
      BY <3>0 DEF FTypeOK
    <3>4. ~buf'[s].modified /\ ~short'[s] => buf'[s].text = seen'[s]
      BY <2>9, <3>0, <3>3 DEF Replace, FTypeOK, CleanIsSaved
    <3>5. Secured(s)'
      <4>1. CASE job[s].range = "all"
        BY <2>9, <3>3, <4>1, StepTaken DEF Replace, At, Secured
      <4>2. CASE job[s].range # "all"
        BY <2>9, <4>2, StepTaken DEF Replace, At, Secured
      <4> QED BY <4>1, <4>2
    <3> QED BY <3>1, <3>2, <3>4, <3>5, OneSession
  <2>10. CASE AppendTo(s)
    <3>0. PICK put \in Appended(job[s].target) : disk' = [disk EXCEPT ![job[s].target] = put]
      BY <2>10 DEF AppendTo
    <3>1. FTypeOK'
      <4>1. job' \in [Session -> Job]
        BY <2>10, StepTaken DEF AppendTo
      <4>2. put \in Content \cup {Missing}
        BY DEF Appended, FTypeOK, Job, Content
      <4> QED
        BY <2>10, <3>0, <4>1, <4>2 DEF AppendTo, FTypeOK
    <3>2. Alone(s)
      BY <2>10 DEF AppendTo, Alone, FTypeOK
    <3>3. (~buf'[s].modified /\ ~short'[s] => buf'[s].text = seen'[s]) /\ Secured(s)'
      BY <2>10, StepTaken DEF AppendTo, At, CleanIsSaved, Secured
    <3> QED BY <3>1, <3>2, <3>3, OneSession
  <2>16. CASE AppendFails(s)
    <3>0. PICK put \in Appended(job[s].target) \cup {disk[job[s].target]} :
            disk' = [disk EXCEPT ![job[s].target] = put]
      BY <2>16 DEF AppendFails
    <3>1. FTypeOK'
      <4>1. put \in Content \cup {Missing}
        BY DEF Appended, FTypeOK, Job, Content
      <4> QED
        BY <2>16, <3>0, <4>1 DEF AppendFails, FTypeOK
    <3>2. Alone(s)
      BY <2>16 DEF AppendFails, Alone, FTypeOK
    <3>3. (~buf'[s].modified /\ ~short'[s] => buf'[s].text = seen'[s]) /\ Secured(s)'
      BY <2>16 DEF AppendFails, FTypeOK, CleanIsSaved, Secured, Parked
    <3> QED BY <3>1, <3>2, <3>3, OneSession
  <2>11. CASE Settle(s)
    <3>1. FTypeOK'
      <4>1. job[s].target \in File /\ acquireLock(s, job[s].target) \in File \cup {NoLock, Orphan}
        BY DEF FTypeOK, Job, acquireLock
      <4>2. job' \in [Session -> Job]
        BY <2>11, StepTaken DEF Settle
      <4>3. buf' \in [Session -> Buffer]
        <5>1. [buf[s] EXCEPT !.modified = FALSE, !.nameChanged = FALSE] \in Buffer
          BY DEF FTypeOK, Buffer
        <5>2. buf' = buf \/ buf' = [buf EXCEPT ![s] =
                                     [buf[s] EXCEPT !.modified = FALSE, !.nameChanged = FALSE]]
          BY <2>11 DEF Settle, FTypeOK
        <5> QED
          BY <5>1, <5>2 DEF FTypeOK
      <4>4. lock' \in [Session -> File \cup {NoLock, Orphan}]
        BY <2>11, <4>1 DEF Settle, FTypeOK
      <4> QED
        BY <2>11, <4>2, <4>3, <4>4 DEF Settle, FTypeOK
    <3>2. Alone(s)
      BY <2>11 DEF Settle, Alone, FTypeOK
    <3>3. ~short'[s] => buf'[s].text = seen'[s]
      BY <2>11 DEF Settle, At, FTypeOK, Secured, Buffer
    <3>4. Secured(s)'
      BY <2>11, <3>3, StepTaken DEF Settle, At, Secured
    <3> QED BY <3>1, <3>2, <3>3, <3>4, OneSession
  <2>12. CASE OpenFails(s)
    <3>1. FTypeOK'
      <4>1. job[s].argIdx \in DOMAIN Argv
        BY DEF FTypeOK, Job
      <4>2. [buf[s] EXCEPT !.argIdx = job[s].argIdx] \in Buffer
        BY <4>1 DEF FTypeOK, Buffer
      <4>3. buf' = [buf EXCEPT ![s] = [buf[s] EXCEPT !.argIdx = job[s].argIdx]]
        BY <2>12 DEF OpenFails, FTypeOK
      <4> QED
        BY <2>12, <4>2, <4>3 DEF OpenFails, FTypeOK
    <3>2. Alone(s)
      BY <2>12 DEF OpenFails, Alone, FTypeOK
    <3>3. (~buf'[s].modified /\ ~short'[s] => buf'[s].text = seen'[s]) /\ Secured(s)'
      BY <2>12 DEF OpenFails, At, FTypeOK, CleanIsSaved, Secured, Buffer, Parked
    <3> QED BY <3>1, <3>2, <3>3, OneSession
  <2>13. CASE OpenNew(s)
    <3>1. FTypeOK'
      <4>1. Scrap \in Content
        BY DEF Content
      <4>2. buf' \in [Session -> Buffer]
        BY <2>13, <4>1, BufferOpened DEF OpenNew
      <4> QED
        BY <2>13, <4>1, <4>2 DEF OpenNew, FTypeOK
    <3>2. Alone(s)
      BY <2>13 DEF OpenNew, Alone, FTypeOK
    <3>3. (~buf'[s].modified /\ ~short'[s] => buf'[s].text = seen'[s]) /\ Secured(s)'
      BY <2>13 DEF OpenNew, Moving, At, FTypeOK, Secured, Buffer, Parked
    <3> QED BY <3>1, <3>2, <3>3, OneSession
  <2>14. CASE Open(s)
    <3>1. FTypeOK'
      <4>1. job[s].file \in File /\ disk[job[s].file] \in Content
        BY <2>14 DEF Open, FTypeOK, Job
      <4>2. job' \in [Session -> Job]
        BY <2>14, StepTaken DEF Open
      <4>3. buf' \in [Session -> Buffer]
        BY <2>14, <4>1, BufferOpened DEF Open
      <4> QED
        BY <2>14, <4>1, <4>2, <4>3 DEF Open, FTypeOK
    <3>2. Alone(s)
      BY <2>14 DEF Open, Alone, FTypeOK
    <3>3. buf'[s].text = seen'[s]
      BY <2>14 DEF Open, FTypeOK, Buffer
    <3>4. Secured(s)'
      BY <2>14, <3>3, StepTaken DEF Open, Moving, At, Secured
    <3> QED BY <3>1, <3>2, <3>3, <3>4, OneSession
  <2>15. CASE TakeLock(s)
    <3>1. FTypeOK'
      <4>1. job[s].file \in File /\ acquireLock(s, job[s].file) \in File \cup {NoLock, Orphan}
        BY DEF FTypeOK, Job, acquireLock
      <4>2. buf' \in [Session -> Buffer]
        <5> DEFINE b == buf[s].readonly \/ LockedElsewhere(s, job[s].file)
                   z == [buf[s] EXCEPT !.readonly = b]
        <5>1. b \in BOOLEAN
          BY DEF LockedElsewhere, FTypeOK, Buffer
        <5> HIDE DEF b
        <5>2. z \in Buffer
          BY <5>1 DEF FTypeOK, Buffer
        <5>3. buf' = [buf EXCEPT ![s] = z]
          BY <2>15 DEF TakeLock, b
        <5> HIDE DEF z
        <5> QED BY <5>2, <5>3 DEF FTypeOK
      <4> QED
        BY <2>15, <4>1, <4>2 DEF TakeLock, FTypeOK
    <3>2. Alone(s)
      BY <2>15 DEF TakeLock, Alone, FTypeOK
    <3>3. (~buf'[s].modified /\ ~short'[s] => buf'[s].text = seen'[s]) /\ Secured(s)'
      BY <2>15 DEF TakeLock, At, FTypeOK, CleanIsSaved, Secured, Buffer, Parked
    <3> QED BY <3>1, <3>2, <3>3, OneSession
  <2> QED
    BY <2>1, <2>2, <2>3, <2>4, <2>5, <2>6, <2>7, <2>8, <2>9, <2>10, <2>11, <2>12,
       <2>13, <2>14, <2>15, <2>16
<1> QED
  BY <1>0, <1>a

\* The inductive invariant holds in every state of every session: Secured adds
\* to CleanIsSaved what a command knows between the guard of its line and the
\* moment it leaves the buffer.
LEMMA FilesInvariant == FSpec => []FilesInv
<1> QED
  BY FilesInit, FilesStep, PTL DEF FSpec

\* Every variable has its type, whatever the sessions do to each other.
THEOREM FilesTyped == FSpec => []FTypeOK
<1>1. FilesInv => FTypeOK
  BY DEF FilesInv
<1> QED
  BY <1>1, FilesInvariant, PTL

\* A buffer not marked as modified (screen.dirty) is what its file gave or got
\* when last read or written as a whole, for any number of sessions and files,
\* except after a write that came out short unnoticed (engine.go, writeFile).
THEOREM CleanSaved == FSpec => []CleanIsSaved
<1>1. FilesInv => CleanIsSaved
  BY DEF FilesInv
<1> QED
  BY <1>1, FilesInvariant, PTL

\* No way of leaving the buffer a command is given in without ! loses its text,
\* apart from a :wq, :x or :wn with a range and from a write that came out short
\* (exQuit, exXit, exWriteQuit, checkModified, exEdit).
THEOREM NothingLost == FSpec => LeftWhole
<1>1. ASSUME FilesInv, NEW s \in Session, Leaves(s), ~job[s].force, ~short[s],
             job[s].range \in {"none", "all"}
      PROVE  buf[s].text = seen[s]
  BY <1>1 DEF FilesInv, Secured, Leaves, Quit, Open, OpenNew, Moving, At
<1>2. FilesInv /\ [FNext]_fvars =>
        [\A s \in Session :
           Leaves(s) /\ ~job[s].force /\ ~short[s] /\ job[s].range \in {"none", "all"}
             => buf[s].text = seen[s]]_fvars
  BY <1>1
<1> QED
  BY <1>2, FilesInvariant, PTL DEF FSpec, LeftWhole
=============================================================================
