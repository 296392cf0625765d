---------------------------- MODULE Upload_proofs ----------------------------
(***************************************************************************)
(* What holds of an upload for every number of segments, runs, requests    *)
(* and restarts and for every choice of faults:                            *)
(*   TypeCorrect        the variables keep their types (no index runs past *)
(*                      the last segment, no count past their number);     *)
(*   OneDistribution    while nobody cancels, one token never has two      *)
(*                      distributions;                                     *)
(*   ReadyOnlyWhole     while nobody cancels, a file turns ready only when *)
(*                      all its segments are stored;                       *)
(*   NothingOutlives    a dropped row leaves no part behind.               *)
(***************************************************************************)
EXTENDS Upload, TLAPS

-----------------------------------------------------------------------------
(* The inductive invariant                                                 *)

InLoop == {"part", "lock", "send", "add", "bump"}

\* A run counts no more segments than it has passed, and stops at the last.
Counters ==
    \A r \in Runs :
        /\ runPc[r] \in {"idle", "spawned", "guard"}
              => runIdx[r] = 0 /\ runOk[r] = 0
        /\ runPc[r] \in InLoop => runOk[r] <= runIdx[r]
        /\ At(r, "sleep")
              => runOk[r] <= runIdx[r] + 1 /\ runIdx[r] < PartCount - 1

\* The mark of tryStartFinish stands as long as a run does; only a cancel
\* takes it away early.
Marked ==
    /\ \A r \in Runs : Active(r) => finishStarted
    /\ SingleRun
    /\ \A k \in Deleters : DelAt(k, "unlock") => k = "cancel"

\* Finish is accepted only after uploadStart answered.
Started ==
    /\ \A h \in Finishers : finPc[h] # "idle" => startPc = "done"
    /\ \A r \in Runs : Active(r) => startPc = "done"

Stored(i) == partSt[i] = "uploaded" /\ partMsg[i] # NoMsg
StoredBelow(n) == \A i \in Parts : i < n => Stored(i)

\* A run that has skipped nothing has stored all it passed, unless its row is
\* gone.
Tally ==
    \A r \in Runs :
        /\ At(r, "add") => runMsg[r] # NoMsg
        /\ runPc[r] \in InLoop /\ runOk[r] = runIdx[r] /\ RowExists
              => StoredBelow(runIdx[r])
        /\ At(r, "bump") /\ RowExists => Stored(runIdx[r])
        /\ At(r, "sleep") /\ runOk[r] = runIdx[r] + 1 /\ RowExists
              => StoredBelow(runIdx[r] + 1)
        /\ At(r, "end") /\ runOk[r] = PartCount /\ RowExists => Whole

-----------------------------------------------------------------------------
(* Types and counters                                                      *)

\* Every statement of internal/storage keeps the rows well typed.
LEMMA StoreTyping ==
    ASSUME StoreTypeOK, NEW i \in Parts, NEW m \in Msg \cup {NoMsg},
           \/ CreateFile \/ CreatePendingParts \/ SetReady \/ SetFileFailed
           \/ BumpDoneParts \/ MarkPartFailed(i) \/ AddPart(i, m)
           \/ DeleteFile \/ UNCHANGED rows
    PROVE  StoreTypeOK'
<1> USE PartCountAssumption DEF StoreTypeOK, FileStatus, PartStatus, rows
<1>1. CASE CreateFile  BY <1>1 DEF CreateFile
<1>2. CASE CreatePendingParts  BY <1>2 DEF CreatePendingParts
<1>3. CASE SetReady  BY <1>3 DEF SetReady
<1>4. CASE SetFileFailed  BY <1>4 DEF SetFileFailed
<1>5. CASE BumpDoneParts  BY <1>5 DEF BumpDoneParts
<1>6. CASE MarkPartFailed(i)  BY <1>6 DEF MarkPartFailed
<1>7. CASE AddPart(i, m)  BY <1>7 DEF AddPart
<1>8. CASE DeleteFile  BY <1>8 DEF DeleteFile
<1>9. CASE UNCHANGED rows  BY <1>9
<1> QED  BY <1>1, <1>2, <1>3, <1>4, <1>5, <1>6, <1>7, <1>8, <1>9

\* What only the distribution goroutine writes.
LocalsTypeOK ==
    /\ runPc \in [Runs -> RunPc]
    /\ runIdx \in [Runs -> Parts]
    /\ runOk \in [Runs -> 0 .. PartCount]
    /\ runMsg \in [Runs -> Msg \cup {NoMsg}]
    /\ runErr \in [Runs -> BOOLEAN]

\* What the distribution shares with handlers and jobs, the rows apart.
SharedTypeOK ==
    /\ tmpDir \in BOOLEAN /\ aged \in BOOLEAN
    /\ tmpPart \in SUBSET Parts
    /\ live \in SUBSET Msg
    /\ sent \in 0 .. MaxMsg
    /\ mu \in Runs \cup {NoRun}
    /\ finishStarted \in BOOLEAN
    /\ uploadCancel \in Runs \cup {NoRun}
    /\ cancelled \in SUBSET Runs

LEMMA DistTyping == DistTypeOK <=> StoreTypeOK /\ SharedTypeOK /\ LocalsTypeOK
BY DEF DistTypeOK, SharedTypeOK, LocalsTypeOK

\* A step of a run: no index leaves the segments, no count overtakes them.
LEMMA RunTyping ==
    ASSUME DistTypeOK, Counters, NEW r \in Runs, RunStep(r)
    PROVE  DistTypeOK' /\ Counters'
<1>1. StoreTypeOK /\ SharedTypeOK /\ LocalsTypeOK  BY DistTyping
<1>2. runIdx[r] \in Parts /\ runMsg[r] \in Msg \cup {NoMsg}
  BY <1>1 DEF LocalsTypeOK
<1> USE <1>1, PartCountAssumption, MaxMsgAssumption
    DEF At, Goto, LastPart, SharedTypeOK, LocalsTypeOK, RunPc, Counters,
        InLoop, Parts, Msg, tmp, telegram, signals, locals
<1> SUFFICES StoreTypeOK' /\ SharedTypeOK' /\ LocalsTypeOK' /\ Counters'
  BY DEF DistTypeOK
<1>3. CASE \/ Register(r) \/ Guard(r) \/ ReadPart(r) \/ SkipPart(r)
           \/ NoChannel(r) \/ Lock(r) \/ Wake(r) \/ Interrupted(r)
  <2> USE <1>3 DEF Register, Guard, ReadPart, SkipPart, NoChannel, Lock, Wake,
                   Interrupted
  <2>1. StoreTypeOK'  BY DEF rows, StoreTypeOK
  <2>2. SharedTypeOK'  OBVIOUS
  <2>3. LocalsTypeOK'
    <3>1. CASE Register(r)  BY <3>1
    <3>2. CASE Guard(r)  BY <3>2
    <3>3. CASE ReadPart(r)  BY <3>3
    <3>4. CASE SkipPart(r)  BY <3>4
    <3>5. CASE NoChannel(r)  BY <3>5
    <3>6. CASE Lock(r)  BY <3>6
    <3>7. CASE Wake(r)  BY <3>7
    <3>8. CASE Interrupted(r)  BY <3>8
    <3> QED  BY <1>3, <3>1, <3>2, <3>3, <3>4, <3>5, <3>6, <3>7, <3>8
  <2>4. Counters'  OBVIOUS
  <2> QED  BY <2>1, <2>2, <2>3, <2>4
<1>4. CASE \/ Send(r) \/ SendFails(r) \/ SendUnacknowledged(r) \/ Panic(r)
           \/ RecordFails(r)
  <2> USE <1>4 DEF Send, SendFails, SendUnacknowledged, Panic, RecordFails,
                   CanSend, Deliver, Abandon
  <2>1. StoreTypeOK'  BY DEF rows, StoreTypeOK
  <2>2. SharedTypeOK'
    <3>1. CASE Send(r)  BY <3>1
    <3>2. CASE SendFails(r)  BY <3>2
    <3>3. CASE SendUnacknowledged(r)  BY <3>3
    <3>4. CASE Panic(r)  BY <3>4
    <3>5. CASE RecordFails(r)  BY <3>5
    <3> QED  BY <1>4, <3>1, <3>2, <3>3, <3>4, <3>5
  <2>3. LocalsTypeOK'
    <3>1. CASE Send(r)  BY <3>1
    <3>2. CASE SendFails(r)  BY <3>2
    <3>3. CASE SendUnacknowledged(r)  BY <3>3
    <3>4. CASE Panic(r)  BY <3>4
    <3>5. CASE RecordFails(r)  BY <3>5
    <3> QED  BY <1>4, <3>1, <3>2, <3>3, <3>4, <3>5
  <2>4. Counters'  OBVIOUS
  <2> QED  BY <2>1, <2>2, <2>3, <2>4
<1>5. CASE \/ Record(r) \/ Bump(r) \/ FailPart(r) \/ FailFile(r)
           \/ Conclude(r) \/ SafeFail(r)
  <2>1. \/ AddPart(runIdx[r], runMsg[r]) \/ BumpDoneParts
        \/ MarkPartFailed(runIdx[r]) \/ SetFileFailed \/ SetReady
        \/ UNCHANGED rows
    BY <1>5 DEF Record, Bump, FailPart, FailFile, Conclude, SafeFail, Attempt
  <2>2. StoreTypeOK'  BY <1>1, <1>2, <2>1, StoreTyping
  <2> USE <1>5 DEF Record, Bump, FailPart, FailFile, Conclude, SafeFail
  <2>3. SharedTypeOK'  OBVIOUS
  <2>4. LocalsTypeOK'  OBVIOUS
  <2>5. Counters'  OBVIOUS
  <2> QED  BY <2>2, <2>3, <2>4, <2>5
<1>6. CASE CleanTmp(r) \/ SafeRead(r) \/ Finished(r)
  <2> USE <1>6 DEF CleanTmp, RemoveTmp, SafeRead, Finished
  <2>1. StoreTypeOK'  BY DEF rows, StoreTypeOK
  <2>2. SharedTypeOK'  OBVIOUS
  <2>3. LocalsTypeOK'
    <3>1. CASE CleanTmp(r)  BY <3>1
    <3>2. CASE SafeRead(r)  BY <3>2
    <3>3. CASE Finished(r)  BY <3>3
    <3> QED  BY <1>6, <3>1, <3>2, <3>3
  <2>4. Counters'  OBVIOUS
  <2> QED  BY <2>1, <2>2, <2>3, <2>4
<1> QED  BY <1>3, <1>4, <1>5, <1>6 DEF RunStep

\* A step of a deleter leaves the runs alone.
LEMMA DelTyping ==
    ASSUME DistTypeOK, DeletionTypeOK, Counters, NEW k \in Deleters, DelStep(k)
    PROVE  DistTypeOK' /\ DeletionTypeOK' /\ Counters'
<1>1. StoreTypeOK /\ SharedTypeOK /\ LocalsTypeOK  BY DistTyping
<1>2. UNCHANGED <<runPc, locals>> /\ (DeleteFile \/ UNCHANGED rows)
  BY DEF DelStep, DelRead, CancelOther, SweepOrphanDir, DelGetParts,
         DelGetPartsFails, DelMessage, DelMessageFails, DelMessageNoChannel,
         DelMessagesDone, CancelSignal, DelRow, CancelUnlock, DelTmp,
         Attempt, distVars
<1>3. LocalsTypeOK' /\ Counters'
  BY <1>1, <1>2 DEF LocalsTypeOK, Counters, locals, At
<1>4. StoreTypeOK'
  <2>1. 0 \in Parts  BY PartCountAssumption DEF Parts
  <2> QED  BY <1>1, <1>2, <2>1, StoreTyping
<1>5. SharedTypeOK'
  BY <1>1 DEF SharedTypeOK, DelStep, DelRead, CancelOther, SweepOrphanDir,
         DelGetParts, DelGetPartsFails, DelMessage, DelMessageFails,
         DelMessageNoChannel, DelMessagesDone, CancelSignal, DelRow,
         CancelUnlock, DelTmp, RemoveTmp, distVars, tmp, telegram, signals
<1>6. DeletionTypeOK'
  <2> USE <1>1 DEF DeletionTypeOK, DelPc, DelAt, DelGoto
  <2>1. Recorded \subseteq Msg  BY DEF Recorded, StoreTypeOK
  <2>2. CASE \/ DelRead(k) \/ CancelOther(k) \/ SweepOrphanDir(k)
             \/ DelGetParts(k) \/ DelGetPartsFails(k)
    BY <2>1, <2>2 DEF DelRead, CancelOther, SweepOrphanDir, DelGetParts,
                      DelGetPartsFails, delVars, KeepsRowOnFailure
  <2>3. CASE \/ DelMessage(k) \/ DelMessageFails(k) \/ DelMessageNoChannel(k)
             \/ DelMessagesDone(k)
    BY <2>3 DEF DelMessage, DelMessageFails, DelMessageNoChannel,
                DelMessagesDone, AfterMessages, KeepsRowOnFailure
  <2>4. CASE CancelSignal(k) \/ DelRow(k) \/ CancelUnlock(k) \/ DelTmp(k)
    BY <2>4 DEF CancelSignal, DelRow, AfterRow, CancelUnlock,
                DelTmp
  <2> QED  BY <2>2, <2>3, <2>4 DEF DelStep
<1> QED  BY <1>3, <1>4, <1>5, <1>6 DEF DistTypeOK, SharedTypeOK, LocalsTypeOK

\* A step of a request handler, of the clock or of a restart.
LEMMA RequestTyping ==
    ASSUME TypeOK, Counters,
           \/ Start
           \/ \E i \in Parts : Put(i)
           \/ \E h \in Finishers : Finish(h)
           \/ DayPasses
           \/ Shutdown
           \/ Crash
           \/ UNCHANGED vars
    PROVE  TypeOK' /\ Counters'
<1> USE PartCountAssumption, MaxCrashAssumption
    DEF TypeOK, reqVars, tmp, telegram, signals, distVars
<1>1. StoreTypeOK /\ SharedTypeOK /\ LocalsTypeOK /\ DeletionTypeOK
  BY DistTyping
<1>2. 0 \in Parts  BY DEF Parts
<1> SUFFICES /\ StoreTypeOK' /\ SharedTypeOK' /\ LocalsTypeOK' /\ Counters'
             /\ DeletionTypeOK'
             /\ startPc' \in {"none", "row", "parts", "done", "dead"}
             /\ putPc' \in [Parts -> {"idle", "open"}]
             /\ finPc' \in [Finishers -> {"idle", "stat", "try"}]
             /\ accepted' \in BOOLEAN
             /\ crashes' \in 0 .. MaxCrash
  BY DEF DistTypeOK, SharedTypeOK, LocalsTypeOK
<1>3. CASE Start
  <2>1. StoreTypeOK'
    BY <1>1, <1>2, <1>3, StoreTyping
       DEF Start, StartRow, StartParts, StartFails, StartDir
  <2> QED
    BY <1>1, <1>3, <2>1
       DEF Start, StartRow, StartParts, StartFails, StartDir, SharedTypeOK,
           LocalsTypeOK, locals, Counters, At, DeletionTypeOK, delVars
<1>4. CASE \E i \in Parts : Put(i)
  <2>1. PICK i \in Parts : Put(i)  BY <1>4
  <2>2. UNCHANGED <<rows, locals, runPc, delVars>>
    BY <2>1 DEF Put, PutRead, PutWrite, PutFails, PutOversize
  <2> QED
    BY <1>1, <2>1, <2>2, ZenonT(60)
       DEF Put, PutRead, PutWrite, PutFails, PutOversize, StoreTypeOK, rows,
           SharedTypeOK, LocalsTypeOK, locals, Counters, At, DeletionTypeOK,
           delVars
<1>5. CASE \E h \in Finishers : Finish(h)
  <2>1. PICK h \in Finishers : Finish(h)  BY <1>5
  <2>2. CASE FinishStarts(h)
    <3>1. PICK r \in Runs : Spawn(r)  BY <2>2 DEF FinishStarts
    <3>2. UNCHANGED <<rows, locals, delVars, startPc, putPc, crashes>>
      BY <2>2, <3>1 DEF FinishStarts, Spawn
    <3>3. StoreTypeOK' /\ DeletionTypeOK'
      BY <1>1, <3>2 DEF StoreTypeOK, rows, DeletionTypeOK, delVars
    <3>4. SharedTypeOK' /\ LocalsTypeOK'
      BY <1>1, <3>1 DEF Spawn, Goto, SharedTypeOK, LocalsTypeOK, locals, RunPc
    <3>5. Counters'
      BY <1>1, <3>1
         DEF Spawn, Goto, At, LocalsTypeOK, locals, Counters, InLoop
    <3> QED
      BY <2>2, <3>2, <3>3, <3>4, <3>5 DEF FinishStarts, FinishGoto
  <2>3. CASE ~FinishStarts(h)
    <3>1. UNCHANGED <<rows, locals, runPc, delVars>>
      BY <2>1, <2>3
         DEF Finish, FinishRead, FinishStat, FinishMissing, FinishUnavailable,
             FinishConflict, FinishRefused
    <3> QED
      BY <1>1, <2>1, <2>3, <3>1, ZenonT(60)
         DEF Finish, FinishRead, FinishStat, FinishMissing, FinishUnavailable,
             FinishConflict, FinishRefused, FinishGoto, RemoveTmp, StoreTypeOK,
             rows, SharedTypeOK, LocalsTypeOK, locals, Counters, At,
             DeletionTypeOK, delVars
  <2> QED  BY <2>2, <2>3
<1>6. CASE DayPasses \/ Shutdown
  BY <1>1, <1>6, ZenonT(60)
     DEF DayPasses, Shutdown, StoreTypeOK, rows, SharedTypeOK, LocalsTypeOK,
         locals, Counters, At, DeletionTypeOK, delVars
<1>7. CASE Crash
  <2>1. StoreTypeOK' /\ SharedTypeOK'
    BY <1>1, <1>7
       DEF Crash, RemoveTmp, StoreTypeOK, rows, SharedTypeOK
  <2>2. LocalsTypeOK' /\ Counters'
    BY <1>2, <1>7
       DEF Crash, LocalsTypeOK, RunPc, Counters, InLoop, At
  <2>3. DeletionTypeOK'
    BY <1>7 DEF Crash, DeletionTypeOK, DelPc
  <2>4. /\ startPc' \in {"none", "row", "parts", "done", "dead"}
        /\ crashes' \in 0 .. MaxCrash
    BY <1>7 DEF Crash
  <2>5. /\ putPc' \in [Parts -> {"idle", "open"}]
        /\ finPc' \in [Finishers -> {"idle", "stat", "try"}]
        /\ accepted' \in BOOLEAN
    BY <1>7, Zenon DEF Crash
  <2> QED  BY <2>1, <2>2, <2>3, <2>4, <2>5
<1>8. CASE UNCHANGED vars
  BY <1>1, <1>8
     DEF vars, StoreTypeOK, rows, SharedTypeOK, LocalsTypeOK, locals,
         Counters, At, DeletionTypeOK, delVars
<1> QED  BY <1>3, <1>4, <1>5, <1>6, <1>7, <1>8

LEMMA InitTyping == ASSUME Init PROVE TypeOK /\ Counters
<1> USE DEF Init, DistInit
<1>1. StoreTypeOK
  BY DEF StoreInit, StoreTypeOK, FileStatus, PartStatus
<1>2. SharedTypeOK
  <2>1. sent \in 0 .. MaxMsg  BY MaxMsgAssumption
  <2> QED  BY <2>1, Zenon DEF SharedTypeOK
<1>3. LocalsTypeOK /\ Counters
  BY PartCountAssumption
     DEF LocalsTypeOK, RunPc, Parts, Counters, InLoop, At
<1>4. DeletionTypeOK
  BY DEF DeletionInit, DeletionTypeOK, DelPc
<1>5. crashes \in 0 .. MaxCrash  BY MaxCrashAssumption
<1> QED  BY <1>1, <1>2, <1>3, <1>4, <1>5, DistTyping, Zenon DEF TypeOK

LEMMA StepTyping ==
    ASSUME TypeOK, Counters, [Next]_vars
    PROVE  TypeOK' /\ Counters'
<1>1. CASE \E r \in Runs : Distribute(r)
  <2>1. PICK r \in Runs : Distribute(r)  BY <1>1
  <2>2. DistTypeOK' /\ Counters'
    BY <2>1, RunTyping DEF TypeOK, Distribute
  <2> QED
    BY <2>1, <2>2
       DEF Distribute, TypeOK, DeletionTypeOK, delVars, reqVars
<1>2. CASE \E k \in Deleters : Delete(k)
  <2>1. PICK k \in Deleters : Delete(k)  BY <1>2
  <2>2. DistTypeOK' /\ DeletionTypeOK' /\ Counters'
    BY <2>1, DelTyping DEF TypeOK, Delete
  <2> QED  BY <2>1, <2>2 DEF Delete, TypeOK, reqVars
<1> QED  BY <1>1, <1>2, RequestTyping DEF Next

\* Every variable keeps its type: in particular no run indexes past the last
\* segment of UploadSegments and none counts more segments than there are.
THEOREM TypeCorrect == Spec => []TypeOK
<1>1. Init => TypeOK /\ Counters  BY InitTyping
<1>2. TypeOK /\ Counters /\ [Next]_vars => TypeOK' /\ Counters'
  BY StepTyping
<1> QED  BY <1>1, <1>2, PTL DEF Spec

-----------------------------------------------------------------------------
(* The statements a step makes                                             *)

Statement(i, m) ==
    \/ CreateFile \/ CreatePendingParts \/ SetReady \/ SetFileFailed
    \/ BumpDoneParts \/ MarkPartFailed(i) \/ AddPart(i, m)
    \/ DeleteFile \/ UNCHANGED rows

\* A step of the program makes at most one statement of internal/storage.
LEMMA OneStatement ==
    ASSUME TypeOK, [Next]_vars
    PROVE  \E i \in Parts, m \in Msg \cup {NoMsg} : Statement(i, m)
<1>1. StoreTypeOK /\ SharedTypeOK /\ LocalsTypeOK
  BY DistTyping DEF TypeOK
<1>2. 0 \in Parts /\ NoMsg \in Msg \cup {NoMsg}
  BY PartCountAssumption DEF Parts
<1>3. CASE \E r \in Runs : Distribute(r)
  <2>1. PICK r \in Runs : RunStep(r)  BY <1>3 DEF Distribute
  <2>2. runIdx[r] \in Parts /\ runMsg[r] \in Msg \cup {NoMsg}
    BY <1>1 DEF LocalsTypeOK
  <2>3. Statement(runIdx[r], runMsg[r])
    <3>1. CASE \/ Record(r) \/ Bump(r) \/ FailPart(r) \/ FailFile(r)
               \/ Conclude(r) \/ SafeFail(r)
      BY <3>1 DEF Statement, Record, Bump, FailPart, FailFile, Conclude,
                  SafeFail, Attempt
    <3>2. CASE UNCHANGED rows  BY <3>2 DEF Statement
    <3>3. \/ Record(r) \/ Bump(r) \/ FailPart(r) \/ FailFile(r)
          \/ Conclude(r) \/ SafeFail(r) \/ UNCHANGED rows
      BY <2>1 DEF RunStep, Register, Guard, ReadPart, SkipPart, NoChannel,
                  Lock, Send, SendFails, SendUnacknowledged, Panic, Abandon,
                  RecordFails, Wake, Interrupted, CleanTmp, SafeRead, Finished
    <3> QED  BY <3>1, <3>2, <3>3
  <2> QED  BY <2>2, <2>3
<1>4. CASE \E k \in Deleters : Delete(k)
  BY <1>2, <1>4
     DEF Statement, Delete, DelStep, DelRead, CancelOther, SweepOrphanDir,
         DelGetParts, DelGetPartsFails, DelMessage, DelMessageFails,
         DelMessageNoChannel, DelMessagesDone, CancelSignal, DelRow,
         CancelUnlock, DelTmp, Attempt
<1>5. CASE Start
  BY <1>2, <1>5
     DEF Statement, Start, StartRow, StartParts, StartFails, StartDir
<1>6. CASE \E h \in Finishers : Finish(h)
  <2>1. UNCHANGED rows
    BY <1>6 DEF Finish, FinishRead, FinishStat, FinishMissing,
                FinishUnavailable, FinishStarts, FinishConflict,
                FinishRefused, Spawn
  <2> QED  BY <1>2, <2>1 DEF Statement
<1>7. CASE \/ \E i \in Parts : Put(i)
           \/ DayPasses \/ Shutdown \/ Crash \/ UNCHANGED vars
  <2>1. UNCHANGED rows
    BY <1>7 DEF Put, PutRead, PutWrite, PutFails, PutOversize, DayPasses,
                Shutdown, Crash, vars
  <2> QED  BY <1>2, <2>1 DEF Statement
<1> QED  BY <1>3, <1>4, <1>5, <1>6, <1>7 DEF Next

\* The foreign key of parts: whoever still holds a segment of a dropped file
\* (a run between Send and Record, a failing one about to mark its part)
\* leaves no part behind.
THEOREM NothingOutlives == Spec => []NoGhost
<1>1. Init => NoGhost
  BY DEF Init, DistInit, StoreInit, NoGhost
<1>2. TypeOK /\ NoGhost /\ [Next]_vars => NoGhost'
  <2> SUFFICES ASSUME TypeOK, NoGhost, [Next]_vars PROVE NoGhost'
    OBVIOUS
  <2>1. PICK i \in Parts, m \in Msg \cup {NoMsg} : Statement(i, m)
    BY OneStatement
  <2> USE DEF NoGhost, RowExists
  <2>2. CASE CreateFile \/ CreatePendingParts \/ AddPart(i, m)
    BY <2>2 DEF CreateFile, CreatePendingParts, AddPart
  <2>3. CASE SetReady \/ SetFileFailed \/ BumpDoneParts \/ UNCHANGED rows
    BY <2>3 DEF SetReady, SetFileFailed, BumpDoneParts, rows
  <2>4. CASE MarkPartFailed(i)
    BY <2>4 DEF MarkPartFailed, TypeOK, DistTypeOK, StoreTypeOK
  <2>5. CASE DeleteFile  BY <2>5 DEF DeleteFile
  <2> QED  BY <2>1, <2>2, <2>3, <2>4, <2>5 DEF Statement
<1> QED  BY <1>1, <1>2, TypeCorrect, PTL DEF Spec

-----------------------------------------------------------------------------
(* One distribution at a time                                              *)

\* Which run a step moves, and when the mark of tryStartFinish changes.
LEMMA RunMoves ==
    ASSUME LocalsTypeOK, NEW r \in Runs, RunStep(r)
    PROVE  /\ Active(r)
           /\ runPc' = [runPc EXCEPT ![r] = runPc'[r]]
           /\ UNCHANGED finishStarted \/ ~Active(r)'
<1> USE DEF LocalsTypeOK, At, Goto, Active, signals
<1>1. CASE \/ Register(r) \/ Guard(r) \/ ReadPart(r) \/ SkipPart(r)
           \/ NoChannel(r) \/ Lock(r) \/ Wake(r) \/ Interrupted(r)
  BY <1>1 DEF Register, Guard, ReadPart, SkipPart, NoChannel, Lock, Wake,
              Interrupted
<1>2. CASE \/ Send(r) \/ SendFails(r) \/ SendUnacknowledged(r) \/ Panic(r)
           \/ RecordFails(r) \/ Record(r) \/ Bump(r)
  BY <1>2 DEF Send, SendFails, SendUnacknowledged, Panic, RecordFails,
              Abandon, Record, Bump
<1>3. CASE \/ FailPart(r) \/ FailFile(r) \/ Conclude(r) \/ CleanTmp(r)
           \/ SafeRead(r) \/ SafeFail(r) \/ Finished(r)
  BY <1>3 DEF FailPart, FailFile, Conclude, CleanTmp, SafeRead, SafeFail,
              Finished
<1> QED  BY <1>1, <1>2, <1>3 DEF RunStep

\* The mark outlasts the run it was set for, so a second one finds it set.
LEMMA Marking ==
    ASSUME "cancel" \notin Deleters, TypeOK, Marked, [Next]_vars
    PROVE  Marked'
<1>1. LocalsTypeOK /\ DeletionTypeOK  BY DistTyping DEF TypeOK
<1> USE <1>1 DEF Marked, SingleRun
<1>2. CASE \E r \in Runs : Distribute(r)
  <2>1. PICK r \in Runs : Distribute(r)  BY <1>2
  <2>2. /\ Active(r)
        /\ runPc' = [runPc EXCEPT ![r] = runPc'[r]]
        /\ UNCHANGED finishStarted \/ ~Active(r)'
    BY <2>1, RunMoves DEF Distribute
  <2>3. \A q \in Runs : q # r => ~Active(q) /\ ~Active(q)'
    BY <2>2 DEF Active, LocalsTypeOK
  <2> QED  BY <2>1, <2>2, <2>3 DEF Distribute, delVars, DelAt
<1>3. CASE \E k \in Deleters : Delete(k)
  <2>1. PICK k \in Deleters : DelStep(k)  BY <1>3 DEF Delete
  <2>2. ~CancelUnlock(k)  BY DEF CancelUnlock
  <2>3. UNCHANGED <<runPc, finishStarted>>
    BY <2>1, <2>2
       DEF DelStep, DelRead, CancelOther, SweepOrphanDir, DelGetParts,
           DelGetPartsFails, DelMessage, DelMessageFails,
           DelMessageNoChannel, DelMessagesDone, CancelSignal, DelRow,
           DelTmp, distVars, signals
  <2>4. \A j \in Deleters : DelAt(j, "unlock")' => j = "cancel"
    BY <2>1 DEF DelStep, DelRead, CancelOther, SweepOrphanDir, DelGetParts,
           DelGetPartsFails, DelMessage, DelMessageFails,
           DelMessageNoChannel, DelMessagesDone, CancelSignal, DelRow,
           CancelUnlock, DelTmp, DelAt, DelGoto, DeletionTypeOK, delVars,
           AfterMessages, AfterRow, KeepsRowOnFailure
  <2> QED  BY <2>3, <2>4 DEF Active
<1>4. CASE \E h \in Finishers : Finish(h)
  <2>1. PICK h \in Finishers : Finish(h)  BY <1>4
  <2>2. CASE FinishStarts(h)
    BY <2>2 DEF FinishStarts, Spawn, Goto, At, Active, LocalsTypeOK, delVars,
                DelAt
  <2>3. CASE ~FinishStarts(h)
    BY <2>1, <2>3
       DEF Finish, FinishRead, FinishStat, FinishMissing, FinishUnavailable,
           FinishConflict, FinishRefused, distVars, signals, delVars, Active,
           DelAt
  <2> QED  BY <2>2, <2>3
<1>5. CASE Start \/ DayPasses \/ Shutdown \/ UNCHANGED vars
  <2>1. UNCHANGED <<runPc, finishStarted, delPc>>
    BY <1>5 DEF Start, StartRow, StartParts, StartFails, StartDir, DayPasses,
                Shutdown, vars, distVars, signals, delVars
  <2> QED  BY <2>1 DEF Active, DelAt
<1>6. CASE \E i \in Parts : Put(i)
  <2>1. UNCHANGED <<runPc, finishStarted, delPc>>
    BY <1>6 DEF Put, PutRead, PutWrite, PutFails, PutOversize, distVars,
                signals, delVars
  <2> QED  BY <2>1 DEF Active, DelAt
<1>7. CASE Crash
  BY <1>7 DEF Crash, Active, DelAt
<1> QED  BY <1>2, <1>3, <1>4, <1>5, <1>6, <1>7 DEF Next

\* tryStartFinish: however often finish is sent and the process restarted, two
\* distributions of a token never overlap, as long as nobody cancels it (the
\* run CancelUnlocks shows why that is needed).
THEOREM OneDistribution ==
    ASSUME "cancel" \notin Deleters
    PROVE  Spec => []SingleRun
<1>1. Init => Marked
  BY DEF Init, DistInit, DeletionInit, Marked, SingleRun, Active, DelAt
<1>2. TypeOK /\ Marked /\ [Next]_vars => Marked'
  BY Marking
<1>3. Marked => SingleRun
  BY DEF Marked
<1> QED  BY <1>1, <1>2, <1>3, TypeCorrect, PTL DEF Spec

-----------------------------------------------------------------------------
(* A file turns ready only whole                                           *)

\* No statement of uploadStart meets a run: finish needs an answered start.
LEMMA Starting ==
    ASSUME TypeOK, Started, [Next]_vars
    PROVE  Started'
<1>1. LocalsTypeOK  BY DistTyping DEF TypeOK
<1> USE DEF Started
<1>2. CASE \E r \in Runs : Distribute(r)
  <2>1. PICK r \in Runs : Distribute(r)  BY <1>2
  <2>2. Active(r) /\ runPc' = [runPc EXCEPT ![r] = runPc'[r]]
    BY <1>1, <2>1, RunMoves DEF Distribute
  <2> QED  BY <1>1, <2>1, <2>2 DEF Distribute, reqVars, Active, LocalsTypeOK
<1>3. CASE \E k \in Deleters : Delete(k)
  <2>1. PICK k \in Deleters : Delete(k)  BY <1>3
  <2>2. UNCHANGED runPc
    BY <2>1 DEF Delete, DelStep, DelRead, CancelOther, SweepOrphanDir,
           DelGetParts, DelGetPartsFails, DelMessage, DelMessageFails,
           DelMessageNoChannel, DelMessagesDone, CancelSignal, DelRow,
           CancelUnlock, DelTmp, distVars
  <2> QED  BY <2>1, <2>2 DEF Delete, reqVars, Active
<1>4. CASE \E h \in Finishers : Finish(h)
  <2>1. PICK h \in Finishers : Finish(h)  BY <1>4
  <2>2. startPc = "done" /\ UNCHANGED startPc
    BY <2>1 DEF Finish, FinishRead, FinishStat, FinishMissing,
                FinishUnavailable, FinishStarts, FinishConflict, FinishRefused
  <2> QED  BY <2>2
<1>5. CASE Start
  BY <1>5 DEF Start, StartRow, StartParts, StartFails, StartDir, distVars,
              Active
<1>6. CASE \/ \E i \in Parts : Put(i)
           \/ DayPasses \/ Shutdown \/ UNCHANGED vars
  BY <1>6 DEF Put, PutRead, PutWrite, PutFails, PutOversize, DayPasses,
              Shutdown, reqVars, vars, distVars, Active
<1>7. CASE Crash
  BY <1>7 DEF Crash, Active
<1> QED  BY <1>2, <1>3, <1>4, <1>5, <1>6, <1>7 DEF Next

\* Dropping the row takes the claim of every run with it.
LEMMA TallyKept ==
    ASSUME Tally, UNCHANGED <<runPc, locals>>, DeleteFile \/ UNCHANGED rows
    PROVE  Tally'
<1>1. CASE UNCHANGED rows
  BY <1>1 DEF Tally, At, locals, rows, RowExists, Stored, StoredBelow, Whole
<1>2. CASE DeleteFile
  <2>1. ~RowExists'  BY <1>2 DEF DeleteFile, RowExists
  <2> QED  BY <2>1 DEF Tally, At, locals
<1> QED  BY <1>1, <1>2

\* The run that moves stores the segment it then counts.
LEMMA RunTally ==
    ASSUME TypeOK, Counters, SingleRun, Tally, NEW r \in Runs, RunStep(r)
    PROVE  Tally'
<1>1. StoreTypeOK /\ LocalsTypeOK  BY DistTyping DEF TypeOK
<1>2. Active(r) /\ runPc' = [runPc EXCEPT ![r] = runPc'[r]]
  BY <1>1, RunMoves
<1>3. \A q \in Runs : q # r => runPc'[q] = "idle"
  BY <1>1, <1>2 DEF SingleRun, Active, LocalsTypeOK
<1> DEFINE Claim ==
      /\ At(r, "add") => runMsg[r] # NoMsg
      /\ runPc[r] \in InLoop /\ runOk[r] = runIdx[r] /\ RowExists
            => StoredBelow(runIdx[r])
      /\ At(r, "bump") /\ RowExists => Stored(runIdx[r])
      /\ At(r, "sleep") /\ runOk[r] = runIdx[r] + 1 /\ RowExists
            => StoredBelow(runIdx[r] + 1)
      /\ At(r, "end") /\ runOk[r] = PartCount /\ RowExists => Whole
<1>4. Claim  BY DEF Tally
<1>5. SUFFICES Claim'
  BY <1>3 DEF Tally, At, InLoop
<1>6. /\ runIdx[r] \in Int /\ runIdx[r] < PartCount /\ runIdx[r] >= 0
      /\ runOk[r] \in Int /\ PartCount \in Int
      /\ runPc[r] \in {"spawned", "guard"} => runIdx[r] = 0 /\ runOk[r] = 0
      /\ runPc[r] \in InLoop => runOk[r] <= runIdx[r]
      /\ At(r, "sleep") => runOk[r] <= runIdx[r] + 1
  BY <1>1, PartCountAssumption DEF LocalsTypeOK, Parts, Counters
<1> HIDE DEF Claim
<1> USE DEF At, Goto, InLoop
<1>7. CASE \/ Register(r) \/ Lock(r) \/ Interrupted(r) \/ SafeRead(r)
           \/ SendFails(r) \/ SendUnacknowledged(r) \/ Panic(r)
           \/ RecordFails(r) \/ NoChannel(r) \/ ReadPart(r)
  <2>1. UNCHANGED <<rows, runIdx, runOk>>
    BY <1>7 DEF Register, Lock, Interrupted, SafeRead, SendFails, ReadPart,
                SendUnacknowledged, Panic, RecordFails, NoChannel, Abandon,
                locals
  <2>2. \/ runPc[r] \in InLoop /\ runPc'[r] \in {"lock", "send"}
        \/ runPc'[r] \in {"guard", "clean", "failPart", "safeFail", "done"}
    BY <1>1, <1>7
       DEF Register, Lock, Interrupted, SafeRead, SendFails, ReadPart,
           SendUnacknowledged, Panic, RecordFails, NoChannel, Abandon,
           LocalsTypeOK
  <2> QED
    BY <1>4, <2>1, <2>2 DEF Claim, rows, RowExists, StoredBelow, Stored
<1>8. CASE Guard(r)
  <2>1. runIdx'[r] = 0 /\ runPc'[r] \in {"part", "safe"}
    BY <1>1, <1>6, <1>8 DEF Guard, LocalsTypeOK
  <2> QED  BY <2>1 DEF Claim, StoredBelow, Parts
<1>9. CASE SkipPart(r)
  <2>1. UNCHANGED <<rows, runOk>>  BY <1>9 DEF SkipPart
  <2>2. runOk[r] <= runIdx[r]  BY <1>6, <1>9 DEF SkipPart
  <2>3. CASE LastPart(r)
    <3>1. runPc'[r] = "end" /\ runOk'[r] # PartCount
      BY <1>1, <1>6, <1>9, <2>1, <2>2, <2>3
         DEF SkipPart, LastPart, LocalsTypeOK
    <3> QED  BY <3>1 DEF Claim
  <2>4. CASE ~LastPart(r)
    <3>1. runPc'[r] = "part" /\ runOk'[r] # runIdx'[r]
      BY <1>1, <1>6, <1>9, <2>1, <2>2, <2>4 DEF SkipPart, LocalsTypeOK
    <3> QED  BY <3>1 DEF Claim
  <2> QED  BY <2>3, <2>4
<1>10. CASE Send(r)
  <2>1. /\ UNCHANGED <<rows, runIdx, runOk>>
        /\ runPc'[r] = "add"
        /\ runMsg'[r] = sent + 1
    BY <1>1, <1>10 DEF Send, LocalsTypeOK
  <2>2. runMsg'[r] # NoMsg
    BY <2>1 DEF TypeOK, DistTypeOK, NoMsg
  <2> QED
    BY <1>4, <1>10, <2>1, <2>2
       DEF Claim, Send, rows, RowExists, StoredBelow, Stored
<1>11. CASE Record(r)
  <2>1. /\ UNCHANGED <<runIdx, runOk>>
        /\ runPc'[r] = "bump"
        /\ AddPart(runIdx[r], runMsg[r])
        /\ runMsg[r] # NoMsg
    BY <1>1, <1>4, <1>11 DEF Record, LocalsTypeOK, locals, Claim
  <2>2. Stored(runIdx[r])'
    BY <1>1, <2>1 DEF AddPart, Stored, StoreTypeOK, LocalsTypeOK
  <2>3. \A i \in Parts : Stored(i) => Stored(i)'
    BY <1>1, <2>1 DEF AddPart, Stored, StoreTypeOK, LocalsTypeOK
  <2> QED
    BY <1>4, <1>11, <2>1, <2>2, <2>3
       DEF Claim, Record, AddPart, StoredBelow, RowExists
<1>12. CASE Bump(r)
  <2>1. /\ UNCHANGED <<status, partSt, partMsg, runIdx>>
        /\ runOk'[r] = runOk[r] + 1
        /\ runPc'[r] = IF LastPart(r) THEN "end" ELSE "sleep"
    BY <1>1, <1>12 DEF Bump, Attempt, BumpDoneParts, rows, LocalsTypeOK
  <2>2. RowExists => Stored(runIdx[r])
    BY <1>4, <1>12 DEF Claim, Bump
  <2>3. RowExists /\ runOk[r] = runIdx[r] => StoredBelow(runIdx[r] + 1)
    BY <1>4, <1>6, <1>12, <2>2 DEF Claim, Bump, StoredBelow, Parts
  <2>4. StoredBelow(PartCount) => Whole
    BY <1>6 DEF StoredBelow, Stored, Whole, Parts
  <2>5. UNCHANGED <<RowExists, Whole, StoredBelow(runIdx[r] + 1)>>
    BY <2>1 DEF RowExists, Whole, StoredBelow, Stored
  <2> QED
    BY <1>6, <2>1, <2>3, <2>4, <2>5 DEF Claim, LastPart
<1>13. CASE Wake(r)
  <2>1. /\ UNCHANGED <<rows, runOk>>
        /\ runIdx'[r] = runIdx[r] + 1
        /\ runPc'[r] = "part"
    BY <1>1, <1>13 DEF Wake, LocalsTypeOK
  <2> QED
    BY <1>4, <1>13, <2>1
       DEF Claim, Wake, rows, RowExists, StoredBelow, Stored
<1>14. CASE \/ FailPart(r) \/ FailFile(r) \/ Conclude(r) \/ CleanTmp(r)
            \/ SafeFail(r) \/ Finished(r)
  <2>1. runPc'[r] \in {"failFile", "clean", "safe", "done", "idle"}
    BY <1>1, <1>14
       DEF FailPart, FailFile, Conclude, CleanTmp, SafeFail, Finished,
           LocalsTypeOK
  <2> QED  BY <2>1 DEF Claim
<1> QED
  BY <1>7, <1>8, <1>9, <1>10, <1>11, <1>12, <1>13, <1>14 DEF RunStep

LEMMA Tallying ==
    ASSUME TypeOK, Counters, SingleRun, SingleRun', Started, Tally, [Next]_vars
    PROVE  Tally'
<1>1. CASE \E r \in Runs : Distribute(r)
  BY <1>1, RunTally DEF Distribute
<1>2. CASE \E k \in Deleters : Delete(k)
  <2>1. UNCHANGED <<runPc, locals>> /\ (DeleteFile \/ UNCHANGED rows)
    BY <1>2 DEF Delete, DelStep, DelRead, CancelOther, SweepOrphanDir,
           DelGetParts, DelGetPartsFails, DelMessage, DelMessageFails,
           DelMessageNoChannel, DelMessagesDone, CancelSignal, DelRow,
           CancelUnlock, DelTmp, Attempt, distVars
  <2> QED  BY <2>1, TallyKept
<1>3. CASE \E h \in Finishers : FinishStarts(h)
  <2>1. PICK r \in Runs : Spawn(r)  BY <1>3 DEF FinishStarts
  <2>2. \A q \in Runs : runPc'[q] \in {"idle", "spawned"}
    BY <1>3, <2>1
       DEF FinishStarts, Spawn, Goto, SingleRun, Active, TypeOK, DistTypeOK
  <2> QED  BY <2>2 DEF Tally, At, InLoop
<1>4. CASE (\E h \in Finishers : Finish(h) /\ ~FinishStarts(h))
  <2>1. UNCHANGED <<runPc, locals, rows>>
    BY <1>4 DEF Finish, FinishRead, FinishStat, FinishMissing,
                FinishUnavailable, FinishConflict, FinishRefused, distVars
  <2> QED  BY <2>1, TallyKept
<1>5. CASE Start
  <2>1. \A q \in Runs : runPc'[q] = "idle"
    BY <1>5 DEF Start, StartRow, StartParts, StartFails, StartDir, Started,
                Active, distVars
  <2> QED  BY <2>1 DEF Tally, At, InLoop
<1>6. CASE \/ \E i \in Parts : Put(i)
           \/ DayPasses \/ Shutdown \/ UNCHANGED vars
  <2>1. UNCHANGED <<runPc, locals, rows>>
    BY <1>6 DEF Put, PutRead, PutWrite, PutFails, PutOversize, DayPasses,
                Shutdown, vars, distVars
  <2> QED  BY <2>1, TallyKept
<1>7. CASE Crash
  <2>1. \A q \in Runs : runPc'[q] = "idle"  BY <1>7 DEF Crash
  <2> QED  BY <2>1 DEF Tally, At, InLoop
<1> QED  BY <1>1, <1>2, <1>3, <1>4, <1>5, <1>6, <1>7 DEF Next

\* Only a run that has passed its last segment turns a file ready.
LEMMA ReadyStep ==
    ASSUME TypeOK, [Next]_vars, status # "ready", status' = "ready"
    PROVE  \E r \in Runs : Conclude(r)
<1>1. CASE \E r \in Runs : Distribute(r)
  BY <1>1
     DEF Distribute, RunStep, Register, Guard, ReadPart, SkipPart, NoChannel,
         Lock, Send, SendFails, SendUnacknowledged, Panic, Abandon, Record,
         RecordFails, Bump, Wake, Interrupted, FailPart, FailFile, CleanTmp,
         SafeRead, SafeFail, Finished, Attempt, AddPart, BumpDoneParts,
         MarkPartFailed, SetFileFailed, rows
<1>2. CASE \E k \in Deleters : Delete(k)
  BY <1>2
     DEF Delete, DelStep, DelRead, CancelOther, SweepOrphanDir, DelGetParts,
         DelGetPartsFails, DelMessage, DelMessageFails, DelMessageNoChannel,
         DelMessagesDone, CancelSignal, DelRow, CancelUnlock, DelTmp, Attempt,
         DeleteFile, rows
<1>3. CASE \E h \in Finishers : Finish(h)
  BY <1>3
     DEF Finish, FinishRead, FinishStat, FinishMissing, FinishUnavailable,
         FinishStarts, FinishConflict, FinishRefused, Spawn, rows
<1>4. CASE Start \/ (\E i \in Parts : Put(i)) \/ DayPasses \/ Shutdown \/ Crash
           \/ UNCHANGED vars
  BY <1>4
     DEF Start, StartRow, StartParts, StartFails, StartDir, CreateFile,
         CreatePendingParts, Put, PutRead, PutWrite, PutFails, PutOversize,
         DayPasses, Shutdown, Crash, vars, rows
<1> QED  BY <1>1, <1>2, <1>3, <1>4 DEF Next

\* UploadSegments' `successCount == partCount`: whatever was skipped, failed,
\* retried, restarted or deleted, a file that turns ready has every segment
\* recorded, as long as nobody cancels it.
THEOREM ReadyOnlyWhole ==
    ASSUME "cancel" \notin Deleters
    PROVE  Spec => BecomesReadyWhole
<1> DEFINE Inv == TypeOK /\ Counters /\ Marked /\ Started /\ Tally
<1>1. Init => Inv
  <2>1. Init => TypeOK /\ Counters  BY InitTyping
  <2>2. Init => Marked /\ Started /\ Tally
    BY DEF Init, DistInit, DeletionInit, Marked, SingleRun, Started, Tally,
           Active, DelAt, At, InLoop
  <2> QED  BY <2>1, <2>2
<1>2. Inv /\ [Next]_vars => Inv'
  BY StepTyping, Marking, Starting, Tallying DEF Marked
<1>3. Inv /\ [Next]_vars => (status # "ready" /\ status' = "ready" => Whole)
  <2> SUFFICES ASSUME Inv, [Next]_vars, status # "ready", status' = "ready"
               PROVE  Whole
    OBVIOUS
  <2>1. PICK r \in Runs : Conclude(r)  BY ReadyStep
  <2> QED
    BY <2>1 DEF Conclude, Attempt, SetReady, Tally, rows, RowExists
<1> QED  BY <1>1, <1>2, <1>3, PTL DEF Spec, BecomesReadyWhole
=============================================================================
