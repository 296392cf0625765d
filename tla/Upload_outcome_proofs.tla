------------------------ MODULE Upload_outcome_proofs ------------------------
(***************************************************************************)
(* What becomes of an upload whose client is orderly, as static/app.js is: *)
(* it sends finish again only after a refusal or a restart.                *)
(***************************************************************************)
EXTENDS Upload_proofs, FiniteSetTheorems

-----------------------------------------------------------------------------
(* What each kind of step may change                                       *)

\* A run moves only itself.
LEMMA RunFrame ==
    ASSUME LocalsTypeOK, NEW r \in Runs, Distribute(r)
    PROVE  /\ Active(r)
           /\ \A q \in Runs : q # r =>
                 /\ runPc'[q] = runPc[q] /\ runIdx'[q] = runIdx[q]
                 /\ runOk'[q] = runOk[q] /\ runMsg'[q] = runMsg[q]
                 /\ runErr'[q] = runErr[q]
           /\ UNCHANGED <<delVars, reqVars, crashes>>
<1> USE DEF Distribute, LocalsTypeOK, At, Goto, Active, locals
<1>1. CASE \/ Register(r) \/ Guard(r) \/ ReadPart(r) \/ SkipPart(r)
           \/ NoChannel(r) \/ Lock(r) \/ Wake(r) \/ Interrupted(r)
  BY <1>1 DEF Register, Guard, ReadPart, SkipPart, NoChannel, Lock, Wake,
              Interrupted
<1>2. CASE \/ Send(r) \/ SendFails(r) \/ SendUnacknowledged(r) \/ Panic(r)
           \/ RecordFails(r) \/ Record(r) \/ Bump(r)
  BY <1>2 DEF Send, SendFails, SendUnacknowledged, Panic, RecordFails,
              Abandon, Record, Bump
<1>3. CASE \/ FailPart(r) \/ FailFile(r) \/ Conclude(r) \/ CleanTmp(r)
           \/ SafeRead(r) \/ SafeFail(r) \/ Finished(r)
  BY <1>3 DEF FailPart, FailFile, Conclude, CleanTmp, SafeRead, SafeFail,
              Finished
<1> QED  BY <1>1, <1>2, <1>3 DEF RunStep

\* A deleter leaves the runs and the requests alone; of the rows it touches
\* nothing, or drops them.
LEMMA DeleteFrame ==
    ASSUME NEW k \in Deleters, Delete(k)
    PROVE  /\ UNCHANGED <<runPc, locals, sent, mu, reqVars, crashes>>
           /\ UNCHANGED rows \/ (DelAt(k, "row") /\ DeleteFile)
BY DEF Delete, DelStep, DelRead, CancelOther, SweepOrphanDir, DelGetParts,
       DelGetPartsFails, DelMessage, DelMessageFails, DelMessageNoChannel,
       DelMessagesDone, CancelSignal, DelRow, CancelUnlock, DelTmp, Attempt,
       distVars, telegram

\* PUT touches the temporary directory only.
LEMMA PutFrame ==
    ASSUME NEW i \in Parts, Put(i)
    PROVE  UNCHANGED <<rows, telegram, mu, signals, runPc, locals, delVars,
                       startPc, finPc, accepted, crashes>>
BY DEF Put, PutRead, PutWrite, PutFails, PutOversize, distVars, tmp

\* A finish request starts a run, or changes nothing but its own progress and
\* the temporary directory.
LEMMA FinishFrame ==
    ASSUME TypeOK, NEW h \in Finishers, Finish(h)
    PROVE  /\ UNCHANGED <<rows, telegram, mu, locals, uploadCancel, cancelled,
                          delVars, startPc, putPc, crashes>>
           /\ \A g \in Finishers : g # h => finPc'[g] = finPc[g]
           /\ \/ FinishStarts(h)
              \/ UNCHANGED <<finishStarted, runPc, accepted>>
BY DEF Finish, FinishRead, FinishStat, FinishMissing, FinishUnavailable,
       FinishStarts, FinishConflict, FinishRefused, FinishGoto, Spawn, distVars,
       tmp, signals, TypeOK

-----------------------------------------------------------------------------
(* One request, one run                                                    *)

\* With an orderly client at most one finish request is on its way, and a run
\* is in progress only after it was answered.
OneRequest ==
    /\ SingleRun
    /\ \A r \in Runs : Active(r) => accepted
    /\ \A h \in Finishers : finPc[h] # "idle" => ~accepted
    /\ \A g, h \in Finishers : finPc[g] # "idle" /\ finPc[h] # "idle" => g = h

LEMMA Requesting ==
    ASSUME ~RepeatFinish, TypeOK, OneRequest, [Next]_vars
    PROVE  OneRequest'
<1>1. LocalsTypeOK  BY DistTyping DEF TypeOK
<1> USE DEF OneRequest, SingleRun, Active
<1>2. CASE \E r \in Runs : Distribute(r)
  <2>1. PICK r \in Runs : Distribute(r)  BY <1>2
  <2>2. /\ Active(r)
        /\ \A q \in Runs : q # r => runPc'[q] = runPc[q]
        /\ UNCHANGED <<finPc, accepted>>
    BY <1>1, <2>1, RunFrame DEF reqVars
  <2> QED  BY <2>2
<1>3. CASE \E k \in Deleters : Delete(k)
  <2>1. UNCHANGED <<runPc, finPc, accepted>>  BY <1>3, DeleteFrame DEF reqVars
  <2> QED  BY <2>1
<1>4. CASE \E h \in Finishers : Finish(h)
  <2>1. PICK h \in Finishers : Finish(h)  BY <1>4
  <2>2. \A g \in Finishers : g # h => finPc'[g] = finPc[g]
    BY <2>1, FinishFrame
  <2>3. CASE FinishStarts(h)
    <3>1. PICK r \in Runs : Spawn(r)  BY <2>3 DEF FinishStarts
    <3>2. /\ finPc[h] # "idle" /\ finPc'[h] = "idle"
          /\ \A q \in Runs : q # r => runPc'[q] = runPc[q]
          /\ accepted'
      BY <1>1, <2>3, <3>1
         DEF FinishStarts, FinishGoto, Spawn, Goto, LocalsTypeOK, TypeOK
    <3> QED  BY <2>2, <3>2
  <2>4. CASE ~FinishStarts(h)
    <3>1. UNCHANGED <<runPc, accepted>>  BY <2>1, <2>4, FinishFrame
    <3>2. CASE FinishRead(h)
      <4>1. ~FinishSent  BY <3>2 DEF FinishRead
      <4> QED  BY <2>2, <3>1, <4>1 DEF FinishSent
    <3>3. CASE ~FinishRead(h)
      <4>1. finPc[h] # "idle"
        BY <2>1, <3>3
           DEF Finish, FinishStat, FinishMissing, FinishUnavailable,
               FinishStarts, FinishConflict
      <4> QED  BY <2>2, <3>1, <4>1
    <3> QED  BY <3>2, <3>3
  <2> QED  BY <2>3, <2>4
<1>5. CASE \/ Start
           \/ \E i \in Parts : Put(i)
           \/ DayPasses \/ Shutdown \/ UNCHANGED vars
  <2>1. UNCHANGED <<runPc, finPc, accepted>>
    BY <1>5 DEF Start, StartRow, StartParts, StartFails, StartDir, Put, PutRead,
                PutWrite, PutFails, PutOversize, DayPasses, Shutdown, reqVars,
                distVars, vars
  <2> QED  BY <2>1
<1>6. CASE Crash
  BY <1>6 DEF Crash
<1> QED  BY <1>2, <1>3, <1>4, <1>5, <1>6 DEF Next

-----------------------------------------------------------------------------
(* The outcome is final                                                    *)

\* Where a run stands while the outcome is open.
Undecided ==
    {"spawned", "guard", "sleep", "failPart", "failFile", "end", "safeFail"}
        \cup InLoop

\* As long as something may still write an outcome, there is none; and a file
\* that is ready is whole.
Outcome ==
    /\ status \in {"ready", "failed"} =>
          /\ startPc = "done"
          /\ \A h \in Finishers : finPc[h] = "idle"
          /\ \A r \in Runs : runPc[r] \notin Undecided
    /\ status = "ready" => Whole

\* What a run does to the outcome, by where it stands.
LEMMA RunOutcome ==
    ASSUME LocalsTypeOK, NEW r \in Runs, RunStep(r)
    PROVE  \/ /\ At(r, "end") /\ runPc'[r] = "clean"
              /\ UNCHANGED <<partSt, partMsg>>
              /\ \/ UNCHANGED status
                 \/ RowExists /\ runOk[r] = PartCount /\ status' = "ready"
           \/ /\ runPc[r] \in {"failFile", "safeFail"}
              /\ runPc'[r] \in {"clean", "done"}
              /\ UNCHANGED <<partSt, partMsg>>
              /\ UNCHANGED status \/ (RowExists /\ status' = "failed")
           \/ runPc[r] \in Undecided /\ UNCHANGED status
           \/ /\ UNCHANGED rows
              /\ runPc'[r] \in Undecided => status = "uploading"
<1> USE DEF LocalsTypeOK, At, Goto, Undecided, InLoop
<1>1. CASE \/ Register(r) \/ Guard(r) \/ ReadPart(r) \/ SkipPart(r)
           \/ NoChannel(r) \/ Lock(r) \/ Wake(r) \/ Interrupted(r)
           \/ Send(r) \/ SendFails(r) \/ SendUnacknowledged(r) \/ Panic(r)
           \/ RecordFails(r)
  BY <1>1 DEF Register, Guard, ReadPart, SkipPart, NoChannel, Lock, Wake,
              Interrupted, Send, SendFails, SendUnacknowledged, Panic,
              RecordFails, Abandon, rows
<1>2. CASE Record(r) \/ Bump(r) \/ FailPart(r)
  BY <1>2 DEF Record, AddPart, Bump, BumpDoneParts, FailPart, Attempt,
              MarkPartFailed, rows
<1>3. CASE Conclude(r)
  BY <1>3 DEF Conclude, Attempt, SetReady, rows
<1>4. CASE FailFile(r) \/ SafeFail(r)
  BY <1>4 DEF FailFile, SafeFail, Attempt, SetFileFailed, rows
<1>5. CASE CleanTmp(r) \/ SafeRead(r) \/ Finished(r)
  BY <1>5 DEF CleanTmp, SafeRead, Finished
<1> QED  BY <1>1, <1>2, <1>3, <1>4, <1>5 DEF RunStep

\* Nobody but a run writes an outcome; what the others do cannot reopen one.
LEMMA Deciding ==
    ASSUME TypeOK, Started, OneRequest, Tally, Outcome, [Next]_vars
    PROVE  Outcome' /\ (status \in {"ready", "failed"}
                           => status' \in {status, "deleted"})
<1>1. LocalsTypeOK  BY DistTyping DEF TypeOK
<1> USE DEF Outcome
<1>2. CASE \E r \in Runs : Distribute(r)
  <2>1. PICK r \in Runs : Distribute(r)  BY <1>2
  <2>2. /\ Active(r)
        /\ \A q \in Runs : q # r => runPc'[q] = runPc[q]
        /\ UNCHANGED reqVars
    BY <1>1, <2>1, RunFrame
  <2>3. \A q \in Runs : q # r => runPc'[q] = "idle"
    BY <2>2 DEF OneRequest, SingleRun, Active
  <2>4. /\ startPc' = "done"
        /\ \A h \in Finishers : finPc'[h] = "idle"
    BY <2>2 DEF Started, OneRequest, reqVars
  <2>5. runPc'[r] \notin Undecided
           => \A q \in Runs : runPc'[q] \notin Undecided
    BY <2>3 DEF Undecided, InLoop
  <2>6. CASE /\ At(r, "end") /\ runPc'[r] = "clean"
             /\ UNCHANGED <<partSt, partMsg>>
             /\ \/ UNCHANGED status
                \/ RowExists /\ runOk[r] = PartCount /\ status' = "ready"
    <3>1. status \notin {"ready", "failed"}
      BY <2>6 DEF At, Undecided
    <3>2. UNCHANGED Whole  BY <2>6 DEF Whole
    <3> QED
      BY <2>4, <2>5, <2>6, <3>1, <3>2 DEF At, Tally, Undecided, InLoop
  <2>7. CASE /\ runPc[r] \in {"failFile", "safeFail"}
             /\ runPc'[r] \in {"clean", "done"}
             /\ UNCHANGED <<partSt, partMsg>>
             /\ UNCHANGED status \/ (RowExists /\ status' = "failed")
    BY <2>4, <2>5, <2>7 DEF Undecided, InLoop
  <2>8. CASE runPc[r] \in Undecided /\ UNCHANGED status
    BY <2>8
  <2>9. CASE /\ UNCHANGED rows
             /\ runPc'[r] \in Undecided => status = "uploading"
    <3>1. UNCHANGED Whole  BY <2>9 DEF Whole, rows
    <3> QED  BY <2>2, <2>4, <2>5, <2>9, <3>1 DEF rows
  <2>10. RunStep(r)  BY <2>1 DEF Distribute
  <2> QED  BY <1>1, <2>6, <2>7, <2>8, <2>9, <2>10, RunOutcome
<1>3. CASE \E k \in Deleters : Delete(k)
  <2>1. UNCHANGED <<runPc, reqVars>> /\ (UNCHANGED rows \/ DeleteFile)
    BY <1>3, DeleteFrame
  <2>2. CASE UNCHANGED rows
    BY <2>1, <2>2 DEF rows, Whole, reqVars
  <2>3. CASE DeleteFile
    BY <2>3 DEF DeleteFile, RowExists
  <2> QED  BY <2>1, <2>2, <2>3
<1>4. CASE \E h \in Finishers : Finish(h)
  <2>1. PICK h \in Finishers : Finish(h)  BY <1>4
  <2>2. UNCHANGED <<rows, startPc>>  BY <2>1, FinishFrame
  <2>3. status \notin {"ready", "failed"}
    BY <2>1
       DEF Finish, FinishRead, FinishStat, FinishMissing, FinishUnavailable,
           FinishStarts, FinishConflict
  <2> QED  BY <2>2, <2>3 DEF rows
<1>5. CASE Start
  <2>1. status' \notin {"ready", "failed"}
    BY <1>5 DEF Start, StartRow, StartParts, StartFails, StartDir, CreateFile,
                CreatePendingParts, rows
  <2>2. status \notin {"ready", "failed"}
    BY <1>5 DEF Start, StartRow, StartParts, StartFails, StartDir
  <2> QED  BY <2>1, <2>2
<1>6. CASE \/ \E i \in Parts : Put(i)
           \/ DayPasses \/ Shutdown \/ UNCHANGED vars
  <2>1. UNCHANGED <<rows, runPc, startPc, finPc>>
    BY <1>6 DEF Put, PutRead, PutWrite, PutFails, PutOversize, DayPasses,
                Shutdown, reqVars, distVars, vars
  <2> QED  BY <2>1 DEF rows, Whole
<1>7. CASE Crash
  BY <1>7 DEF Crash, rows, Whole, Undecided, InLoop
<1> QED  BY <1>2, <1>3, <1>4, <1>5, <1>6, <1>7 DEF Next

LEMMA InitOutcome ==
    ASSUME Init
    PROVE  OneRequest /\ Started /\ Tally /\ Outcome
BY DEF Init, DistInit, StoreInit, OneRequest, SingleRun, Started, Tally,
       Active, Outcome, At, InLoop

\* What the theorems below share.
Orderly == TypeOK /\ Counters /\ OneRequest /\ Started /\ Tally /\ Outcome

LEMMA OrderlyInvariant ==
    ASSUME ~RepeatFinish
    PROVE  Spec => []Orderly
<1>1. Init => Orderly
  BY InitTyping, InitOutcome DEF Orderly
<1>2. Orderly /\ [Next]_vars => Orderly'
  BY StepTyping, Requesting, Starting, Tallying, Deciding
     DEF Orderly, OneRequest
<1> QED  BY <1>1, <1>2, PTL DEF Spec

\* The outcome is final.  Whatever fails, whoever deletes the file (a cancel
\* in the middle of the distribution included) and however often the process
\* restarts, an orderly client never sees a ready file fail, a failed one turn
\* ready, or either become an upload again.
THEOREM OutcomeIsFinal ==
    ASSUME ~RepeatFinish
    PROVE  Spec => Settled
<1>1. Orderly /\ [Next]_vars
         => (status \in {"ready", "failed"} => status' \in {status, "deleted"})
  BY Deciding DEF Orderly
<1> QED  BY <1>1, OrderlyInvariant, PTL DEF Spec, Settled

\* A ready file stays whole: no late Record, MarkPartFailed or
\* CreatePendingParts reaches its parts.
THEOREM ReadyStaysWhole ==
    ASSUME ~RepeatFinish
    PROVE  Spec => []ReadyWhole
<1>1. Orderly => ReadyWhole
  BY DEF Orderly, Outcome, ReadyWhole
<1> QED  BY <1>1, OrderlyInvariant, PTL

\* The two statements of OneDistribution and ReadyOnlyWhole (Upload_proofs),
\* with cancels, for a client that does not repeat finish.
THEOREM OrderlyDistribution ==
    ASSUME ~RepeatFinish
    PROVE  Spec => []SingleRun /\ BecomesReadyWhole
<1>1. Orderly => SingleRun
  BY DEF Orderly, OneRequest
<1>2. Orderly /\ [Next]_vars => (status # "ready" /\ status' = "ready" => Whole)
  <2> SUFFICES ASSUME Orderly, [Next]_vars, status # "ready", status' = "ready"
               PROVE  Whole
    OBVIOUS
  <2>1. PICK r \in Runs : Conclude(r)  BY ReadyStep DEF Orderly
  <2> QED
    BY <2>1 DEF Conclude, Attempt, SetReady, Orderly, Tally, rows, RowExists
<1> QED  BY <1>1, <1>2, OrderlyInvariant, PTL DEF Spec, BecomesReadyWhole

-----------------------------------------------------------------------------
(* Without a restart, the one run of a token meets fresh parts only        *)

Missing(i) == partSt[i] # "uploaded" /\ partMsg[i] = NoMsg

\* The segments a run has not recorded yet.
Ahead(r) ==
    {i \in Parts :
        \/ /\ runPc[r] \in {"spawned", "guard", "part", "lock", "send", "add",
                            "failPart"}
           /\ i >= runIdx[r]
        \/ runPc[r] \in {"bump", "sleep"} /\ i > runIdx[r]}

\* Nothing is recorded before finish is accepted, nor beyond the run.
Fresh ==
    /\ accepted => startPc = "done"
    /\ ~accepted => doneParts = 0 /\ \A i \in Parts : Missing(i)
    /\ \A r \in Runs : \A i \in Ahead(r) : Missing(i)

LEMMA RunFresh ==
    ASSUME TypeOK, Counters, OneRequest, Fresh, NEW r \in Runs, Distribute(r)
    PROVE  Fresh'
<1>1. StoreTypeOK /\ LocalsTypeOK  BY DistTyping DEF TypeOK
<1>2. /\ Active(r)
      /\ \A q \in Runs : q # r => runPc'[q] = runPc[q]
      /\ UNCHANGED reqVars
  BY <1>1, RunFrame
<1>3. \A q \in Runs : q # r => runPc'[q] = "idle"
  BY <1>2 DEF OneRequest, SingleRun, Active
<1>4. accepted' /\ startPc' = "done"
  BY <1>2 DEF OneRequest, Fresh, reqVars
<1>5. SUFFICES \A i \in Ahead(r)' : Missing(i)'
  BY <1>3, <1>4 DEF Fresh, Ahead
<1>6. \A i \in Ahead(r) : Missing(i)
  BY DEF Fresh
<1>7. runIdx[r] \in Int
  BY <1>1, PartCountAssumption DEF LocalsTypeOK, Parts
<1> USE <1>1 DEF LocalsTypeOK, At, Goto
<1>8. CASE \/ Register(r) \/ Guard(r) \/ ReadPart(r) \/ SkipPart(r)
           \/ NoChannel(r) \/ Lock(r) \/ Wake(r) \/ Interrupted(r)
           \/ Send(r) \/ SendFails(r) \/ SendUnacknowledged(r) \/ Panic(r)
           \/ RecordFails(r)
  <2>1. UNCHANGED rows
    BY <1>8 DEF Register, Guard, ReadPart, SkipPart, NoChannel, Lock, Wake,
              Interrupted, Send, SendFails, SendUnacknowledged, Panic,
              RecordFails, Abandon
  <2>2. Ahead(r)' \subseteq Ahead(r)
    <3> USE <1>7, PartCountAssumption DEF Ahead, Parts
    <3>1. CASE Register(r) \/ Guard(r) \/ ReadPart(r) \/ NoChannel(r) \/ Lock(r)
               \/ Interrupted(r)
      BY <3>1 DEF Register, Guard, ReadPart, NoChannel, Lock, Interrupted,
                  locals
    <3>2. CASE SkipPart(r)
      BY <3>2 DEF SkipPart
    <3>3. CASE Wake(r)
      BY <3>3 DEF Wake
    <3>4. CASE \/ Send(r) \/ SendFails(r) \/ SendUnacknowledged(r) \/ Panic(r)
               \/ RecordFails(r)
      BY <3>4 DEF Send, SendFails, SendUnacknowledged, Panic, RecordFails,
                  Abandon
    <3> QED  BY <1>8, <3>1, <3>2, <3>3, <3>4
  <2> QED  BY <1>6, <2>1, <2>2 DEF Missing, rows
<1>9. CASE Record(r)
  <2>1. /\ \A i \in Parts : i # runIdx[r]
                => partSt'[i] = partSt[i] /\ partMsg'[i] = partMsg[i]
        /\ runPc'[r] = "bump" /\ runIdx'[r] = runIdx[r]
        /\ At(r, "add")
    BY <1>9 DEF Record, AddPart, StoreTypeOK, locals
  <2> QED  BY <1>6, <1>7, <2>1 DEF Ahead, Missing, Parts
<1>10. CASE Bump(r)
  <2>1. /\ UNCHANGED <<partSt, partMsg>>
        /\ runPc'[r] \in {"sleep", "end"} /\ runIdx'[r] = runIdx[r]
        /\ At(r, "bump")
    BY <1>10 DEF Bump, Attempt, BumpDoneParts, rows
  <2> QED  BY <1>6, <2>1 DEF Ahead, Missing
<1>11. CASE \/ FailPart(r) \/ FailFile(r) \/ Conclude(r) \/ CleanTmp(r)
            \/ SafeRead(r) \/ SafeFail(r) \/ Finished(r)
  <2>1. runPc'[r] \in {"failFile", "clean", "safe", "safeFail", "done", "idle"}
    BY <1>11 DEF FailPart, FailFile, Conclude, CleanTmp, SafeRead, SafeFail,
              Finished
  <2> QED  BY <2>1 DEF Ahead
<1>12. RunStep(r)  BY DEF Distribute
<1> QED  BY <1>8, <1>9, <1>10, <1>11, <1>12 DEF RunStep

LEMMA Freshness ==
    ASSUME MaxCrash = 0, TypeOK, Counters, OneRequest, Started, Fresh,
           [Next]_vars
    PROVE  Fresh'
<1>1. StoreTypeOK /\ LocalsTypeOK  BY DistTyping DEF TypeOK
<1>2. CASE \E r \in Runs : Distribute(r)
  BY <1>2, RunFresh
<1>3. CASE \E k \in Deleters : Delete(k)
  <2>1. UNCHANGED <<runPc, locals, reqVars>> /\ (UNCHANGED rows \/ DeleteFile)
    BY <1>3, DeleteFrame
  <2>2. UNCHANGED doneParts /\ \A i \in Parts : Missing(i) => Missing(i)'
    BY <2>1 DEF Missing, DeleteFile, rows
  <2>3. \A r \in Runs : UNCHANGED Ahead(r)
    BY <2>1 DEF Ahead, locals
  <2>4. \A r \in Runs : Ahead(r) \subseteq Parts  BY DEF Ahead
  <2> QED  BY <2>1, <2>2, <2>3, <2>4 DEF Fresh, reqVars
<1>4. CASE \E h \in Finishers : FinishStarts(h)
  <2>1. PICK h \in Finishers, r \in Runs : FinishStarts(h) /\ Spawn(r)
    BY <1>4 DEF FinishStarts
  <2>2. ~accepted /\ startPc = "done"
    BY <2>1 DEF OneRequest, Started, FinishStarts
  <2>3. UNCHANGED <<rows, startPc>> /\ accepted'
    BY <2>1 DEF FinishStarts, Spawn
  <2>4. \A i \in Parts : Missing(i)'
    BY <2>2, <2>3 DEF Fresh, Missing, rows
  <2>5. \A q \in Runs : Ahead(q)' \subseteq Parts  BY DEF Ahead
  <2> QED  BY <2>2, <2>3, <2>4, <2>5 DEF Fresh
<1>5. CASE (\E h \in Finishers : Finish(h) /\ ~FinishStarts(h))
  <2>1. UNCHANGED <<rows, runPc, locals, accepted, startPc>>
    BY <1>5, FinishFrame
  <2> QED  BY <2>1 DEF Fresh, Missing, Ahead, rows, locals
<1>6. CASE Start
  <2>1. UNCHANGED <<runPc, locals, accepted, partMsg, doneParts>>
    BY <1>6 DEF Start, StartRow, StartParts, StartFails, StartDir, CreateFile,
                CreatePendingParts, rows, distVars
  <2>2. ~accepted /\ \A r \in Runs : runPc[r] = "idle"
    BY <1>6 DEF Start, StartRow, StartParts, StartFails, StartDir, Fresh,
                Started, Active
  <2>3. \A i \in Parts : Missing(i) => Missing(i)'
    BY <1>6, <2>1 DEF Start, StartRow, StartParts, StartFails, StartDir,
       CreateFile, CreatePendingParts, rows, Missing
  <2>4. \A r \in Runs : Ahead(r)' = {}
    BY <2>1, <2>2 DEF Ahead
  <2> QED  BY <2>1, <2>2, <2>3, <2>4 DEF Fresh
<1>7. CASE \/ \E i \in Parts : Put(i)
           \/ DayPasses \/ Shutdown \/ UNCHANGED vars
  <2>1. UNCHANGED <<rows, runPc, locals, accepted, startPc>>
    BY <1>7 DEF Put, PutRead, PutWrite, PutFails, PutOversize, DayPasses,
                Shutdown, reqVars, distVars, vars
  <2> QED  BY <2>1 DEF Fresh, Missing, Ahead, rows, locals
<1>8. ~Crash
  BY DEF Crash, TypeOK
<1> QED  BY <1>2, <1>3, <1>4, <1>5, <1>6, <1>7, <1>8 DEF Next

-----------------------------------------------------------------------------
(* The progress bar                                                        *)

Uploaded == {i \in Parts : partSt[i] = "uploaded"}

\* done_parts follows AddPart by one statement, if at all.
Progressed ==
    status = "uploading" =>
        /\ doneParts <= Cardinality(Uploaded)
        /\ \A r \in Runs :
              At(r, "bump") => doneParts + 1 <= Cardinality(Uploaded)

LEMMA UploadedCount ==
    ASSUME NEW i \in Parts
    PROVE  /\ IsFiniteSet(Uploaded) /\ Cardinality(Uploaded) \in Nat
           /\ i \notin Uploaded
                 => Cardinality(Uploaded \cup {i}) = Cardinality(Uploaded) + 1
<1>1. IsFiniteSet(Parts)
  BY PartCountAssumption, FS_Interval DEF Parts
<1>2. Uploaded \subseteq Parts  BY DEF Uploaded
<1>3. IsFiniteSet(Uploaded)  BY <1>1, <1>2, FS_Subset
<1> QED  BY <1>3, FS_CardinalityType, FS_AddElement

LEMMA RunProgress ==
    ASSUME TypeOK, OneRequest, Fresh, Progressed, NEW r \in Runs, Distribute(r)
    PROVE  Progressed'
<1>1. StoreTypeOK /\ LocalsTypeOK  BY DistTyping DEF TypeOK
<1>2. \A q \in Runs : q # r => runPc'[q] = "idle"
  <2>1. Active(r) /\ \A q \in Runs : q # r => runPc'[q] = runPc[q]
    BY <1>1, RunFrame
  <2> QED  BY <2>1 DEF OneRequest, SingleRun, Active
<1>3. runIdx[r] \in Parts /\ doneParts \in Nat
  BY <1>1 DEF StoreTypeOK, LocalsTypeOK
<1>4. RunStep(r)  BY DEF Distribute
<1> USE DEF At, Goto
<1>5. CASE Record(r)
  <2>1. /\ status' = status /\ doneParts' = doneParts
        /\ partSt' = [partSt EXCEPT ![runIdx[r]] = "uploaded"]
    BY <1>5 DEF Record, AddPart
  <2>2. runIdx[r] \notin Uploaded
    BY <1>3, <1>5, PartCountAssumption
       DEF Record, Fresh, Ahead, Missing, Uploaded, Parts
  <2>3. Uploaded' = Uploaded \cup {runIdx[r]}
    BY <1>1, <1>3, <2>1 DEF Uploaded, StoreTypeOK
  <2>4. /\ Cardinality(Uploaded) \in Nat
        /\ Cardinality(Uploaded') = Cardinality(Uploaded) + 1
    BY <1>3, <2>2, <2>3, UploadedCount
  <2> QED  BY <1>3, <2>1, <2>4 DEF Progressed
<1>6. CASE Bump(r)
  <2>1. /\ UNCHANGED <<status, partSt>>
        /\ \/ doneParts' = IF RowExists THEN doneParts + 1 ELSE doneParts
           \/ doneParts' = doneParts
        /\ runPc'[r] # "bump" /\ At(r, "bump")
    BY <1>1, <1>6 DEF Bump, Attempt, BumpDoneParts, rows, LocalsTypeOK
  <2>2. UNCHANGED Uploaded  BY <2>1 DEF Uploaded
  <2> QED  BY <1>2, <2>1, <2>2 DEF Progressed, RowExists
<1>7. CASE FailPart(r)
  <2>1. /\ UNCHANGED <<status, doneParts>>
        /\ UNCHANGED partSt \/ MarkPartFailed(runIdx[r])
        /\ runPc'[r] # "bump"
    BY <1>1, <1>7
       DEF FailPart, Attempt, MarkPartFailed, rows, LocalsTypeOK
  <2>2. runIdx[r] \notin Uploaded
    BY <1>3, <1>7, PartCountAssumption
       DEF FailPart, Fresh, Ahead, Missing, Uploaded, Parts
  <2>3. UNCHANGED Uploaded
    BY <1>1, <1>3, <2>1, <2>2 DEF Uploaded, MarkPartFailed, StoreTypeOK
  <2> QED  BY <1>2, <2>1, <2>3 DEF Progressed
<1>8. CASE FailFile(r) \/ SafeFail(r) \/ Conclude(r)
  <2>1. /\ UNCHANGED rows \/ status' # "uploading"
        /\ runPc'[r] # "bump"
    BY <1>1, <1>8
       DEF FailFile, SafeFail, Conclude, Attempt, SetFileFailed, SetReady,
           RowExists, LocalsTypeOK
  <2>2. CASE UNCHANGED rows
    <3>1. UNCHANGED Uploaded  BY <2>2 DEF Uploaded, rows
    <3> QED  BY <1>2, <2>1, <2>2, <3>1 DEF Progressed, rows
  <2>3. CASE status' # "uploading"
    BY <2>3 DEF Progressed
  <2> QED  BY <2>1, <2>2, <2>3
<1>9. CASE \/ Register(r) \/ Guard(r) \/ ReadPart(r) \/ SkipPart(r)
           \/ NoChannel(r) \/ Lock(r) \/ Wake(r) \/ Interrupted(r)
           \/ Send(r) \/ SendFails(r) \/ SendUnacknowledged(r) \/ Panic(r)
           \/ RecordFails(r) \/ CleanTmp(r) \/ SafeRead(r) \/ Finished(r)
  <2>1. UNCHANGED rows /\ runPc'[r] # "bump"
    BY <1>1, <1>9
       DEF Register, Guard, ReadPart, SkipPart, NoChannel, Lock, Wake,
           Interrupted, Send, SendFails, SendUnacknowledged, Panic,
           RecordFails, Abandon, CleanTmp, SafeRead, Finished, LocalsTypeOK
  <2>2. UNCHANGED Uploaded  BY <2>1 DEF Uploaded, rows
  <2> QED  BY <1>2, <2>1, <2>2 DEF Progressed, rows
<1> QED  BY <1>4, <1>5, <1>6, <1>7, <1>8, <1>9 DEF RunStep

LEMMA Progressing ==
    ASSUME MaxCrash = 0, TypeOK, OneRequest, Started, Fresh, Progressed,
           [Next]_vars
    PROVE  Progressed'
<1>1. StoreTypeOK /\ LocalsTypeOK  BY DistTyping DEF TypeOK
<1>2. CASE \E r \in Runs : Distribute(r)
  BY <1>2, RunProgress
<1>3. CASE \E k \in Deleters : Delete(k)
  <2>1. UNCHANGED runPc /\ (UNCHANGED rows \/ DeleteFile)
    BY <1>3, DeleteFrame
  <2>2. CASE UNCHANGED rows
    BY <2>1, <2>2 DEF Progressed, Uploaded, rows, At
  <2>3. CASE DeleteFile
    BY <2>3 DEF Progressed, DeleteFile, RowExists
  <2> QED  BY <2>1, <2>2, <2>3
<1>4. CASE \E h \in Finishers : Finish(h)
  <2>1. PICK h \in Finishers : Finish(h)  BY <1>4
  <2>2. UNCHANGED rows  BY <2>1, FinishFrame
  <2>3. \A q \in Runs : At(q, "bump")' => At(q, "bump")
    <3>1. CASE FinishStarts(h)
      BY <1>1, <3>1 DEF FinishStarts, Spawn, Goto, At, LocalsTypeOK
    <3>2. CASE ~FinishStarts(h)
      BY <2>1, <3>2, FinishFrame DEF At
    <3> QED  BY <3>1, <3>2
  <2> QED  BY <2>2, <2>3 DEF Progressed, Uploaded, rows
<1>5. CASE Start
  <2>1. UNCHANGED <<runPc, doneParts>>
    BY <1>5 DEF Start, StartRow, StartParts, StartFails, StartDir, CreateFile,
                CreatePendingParts, rows, distVars
  <2>2. doneParts = 0 /\ \A r \in Runs : runPc[r] = "idle"
    BY <1>5 DEF Start, StartRow, StartParts, StartFails, StartDir, Fresh,
                Started, Active
  <2>3. Uploaded' \subseteq Parts /\ IsFiniteSet(Parts)
    BY PartCountAssumption, FS_Interval DEF Parts, Uploaded
  <2>4. Cardinality(Uploaded') \in Nat
    BY <2>3, FS_Subset, FS_CardinalityType
  <2> QED  BY <2>1, <2>2, <2>4 DEF Progressed, At
<1>6. CASE \/ \E i \in Parts : Put(i)
           \/ DayPasses \/ Shutdown \/ UNCHANGED vars
  <2>1. UNCHANGED <<rows, runPc>>
    BY <1>6 DEF Put, PutRead, PutWrite, PutFails, PutOversize, DayPasses,
                Shutdown, reqVars, distVars, vars
  <2> QED  BY <2>1 DEF Progressed, Uploaded, rows, At
<1>7. ~Crash
  BY DEF Crash, TypeOK
<1> QED  BY <1>2, <1>3, <1>4, <1>5, <1>6, <1>7 DEF Next

LEMMA InitFresh ==
    ASSUME Init
    PROVE  Fresh /\ Progressed
<1>1. Fresh
  BY DEF Init, DistInit, StoreInit, Fresh, Missing, Ahead
<1>2. Progressed
  BY DEF Init, DistInit, StoreInit, Progressed
<1> QED  BY <1>1, <1>2

LEMMA FreshInvariant ==
    ASSUME ~RepeatFinish, MaxCrash = 0
    PROVE  Spec => [](Fresh /\ Progressed)
<1>1. Init => Fresh /\ Progressed
  BY InitFresh
<1>2. Orderly /\ Fresh /\ Progressed /\ [Next]_vars => Fresh' /\ Progressed'
  BY Freshness, Progressing DEF Orderly
<1> QED  BY <1>1, <1>2, OrderlyInvariant, PTL DEF Spec

\* IncrDoneParts never runs ahead of the parts that are stored, whatever
\* fails and whoever deletes, as long as no restart makes a segment be sent,
\* and counted, twice.
THEOREM DoneIsCounted ==
    ASSUME ~RepeatFinish, MaxCrash = 0
    PROVE  Spec => []DoneCounted
<1>1. Progressed => DoneCounted
  BY DEF Progressed, DoneCounted, Uploaded
<1> QED  BY <1>1, FreshInvariant, PTL

-----------------------------------------------------------------------------
(* First the parts, then finish                                            *)

\* Parts and finish do not overlap: the client sends the one, then the other.
Sequential ==
    /\ \A r \in Runs : Active(r) => accepted
    /\ FinishSent => \A i \in Parts : putPc[i] = "idle"

LEMMA StaysSequential ==
    ASSUME ~LatePut, TypeOK, Sequential, [Next]_vars
    PROVE  Sequential'
<1>1. LocalsTypeOK  BY DistTyping DEF TypeOK
<1> USE DEF Sequential, FinishSent, Active
<1>2. CASE \E r \in Runs : Distribute(r)
  <2>1. PICK r \in Runs : Distribute(r)  BY <1>2
  <2>2. /\ Active(r)
        /\ \A q \in Runs : q # r => runPc'[q] = runPc[q]
        /\ UNCHANGED <<putPc, finPc, accepted>>
    BY <1>1, <2>1, RunFrame DEF reqVars
  <2> QED  BY <2>2
<1>3. CASE \E k \in Deleters : Delete(k)
  <2>1. UNCHANGED <<runPc, putPc, finPc, accepted>>
    BY <1>3, DeleteFrame DEF reqVars
  <2> QED  BY <2>1
<1>4. CASE \E h \in Finishers : FinishRead(h)
  BY <1>4 DEF FinishRead, distVars
<1>5. CASE (\E h \in Finishers : Finish(h) /\ ~FinishRead(h))
  <2>1. PICK h \in Finishers : Finish(h) /\ ~FinishRead(h)  BY <1>5
  <2>2. finPc[h] # "idle" /\ UNCHANGED putPc
    BY <2>1 DEF Finish, FinishStat, FinishMissing, FinishUnavailable,
                FinishStarts, FinishConflict, FinishRefused
  <2>3. accepted' \/ UNCHANGED <<runPc, accepted>>
    BY <2>1, FinishFrame DEF FinishStarts
  <2> QED  BY <2>2, <2>3
<1>6. CASE \E i \in Parts : Put(i)
  <2>1. PICK i \in Parts : Put(i)  BY <1>6
  <2>2. UNCHANGED <<runPc, finPc, accepted>>  BY <2>1, PutFrame
  <2>3. CASE PutRead(i)
    BY <2>2, <2>3 DEF PutRead
  <2>4. CASE ~PutRead(i)
    <3>1. putPc' = [putPc EXCEPT ![i] = "idle"]
      BY <2>1, <2>4 DEF Put, PutWrite, PutFails, PutOversize
    <3> QED  BY <2>2, <3>1 DEF TypeOK
  <2> QED  BY <2>3, <2>4
<1>7. CASE Start \/ DayPasses \/ Shutdown \/ UNCHANGED vars
  <2>1. UNCHANGED <<runPc, putPc, finPc, accepted>>
    BY <1>7 DEF Start, StartRow, StartParts, StartFails, StartDir, DayPasses,
                Shutdown, reqVars, distVars, vars
  <2> QED  BY <2>1
<1>8. CASE Crash
  BY <1>8 DEF Crash
<1> QED  BY <1>2, <1>3, <1>4, <1>5, <1>6, <1>7, <1>8 DEF Next

-----------------------------------------------------------------------------
(* In a healthy environment no upload fails                                *)

\* The faults that can fail an upload.  Of the others, a read of a part that
\* fails skips the segment, a worker or a disk that is missing refuses the
\* request, and a refused deletion keeps the row.
Harmful == {"net", "lostreply", "panic", "dbread", "dbwrite", "stop", "day"}

Distributing == {"spawned", "guard", "sleep"} \cup InLoop

\* A run fails, or loses its segments, only after its row was dropped.
Healthy ==
    /\ cancelled = {} /\ ~aged
    /\ startPc # "none" => status # "none"
    /\ status # "failed"
    /\ \A k \in Deleters :
          /\ k = "sweep" => DelAt(k, "idle")
          /\ delPc[k] \in {"idle", "parts", "messages", "row", "tmp"}
          /\ ~DelAt(k, "idle") => status # "none"
          /\ DelAt(k, "tmp") => status = "deleted"
    /\ tmpPart = Parts \/ status = "deleted" \/
          /\ \A r \in Runs : runPc[r] \notin Distributing
          /\ \A h \in Finishers : finPc[h] # "try"
    /\ \A r \in Runs :
          runErr[r] \/ runPc[r] \in {"failPart", "failFile", "safe", "safeFail"}
             => status = "deleted"

LEMMA RunHealthy ==
    ASSUME Harmful \cap Faults = {}, TypeOK, OneRequest, Started, Healthy,
           NEW r \in Runs, Distribute(r)
    PROVE  Healthy'
<1>1. LocalsTypeOK  BY DistTyping DEF TypeOK
<1>2. /\ Active(r)
      /\ \A q \in Runs : q # r => /\ runPc'[q] = runPc[q]
                                  /\ runErr'[q] = runErr[q]
      /\ UNCHANGED <<delVars, startPc, finPc, accepted>>
  BY <1>1, RunFrame DEF reqVars
<1>3. /\ \A q \in Runs : q # r => runPc'[q] = "idle"
      /\ \A h \in Finishers : finPc'[h] = "idle"
      /\ status \in FileStatus \ {"none"}
  BY <1>2 DEF OneRequest, SingleRun, Active, Started, Healthy, TypeOK,
              DistTypeOK, StoreTypeOK
<1>4. RunStep(r)  BY DEF Distribute
<1>5. SUFFICES /\ cancelled' = {} /\ ~aged'
               /\ status # "deleted" => status' \notin {"none", "failed"}
               /\ status = "deleted" => status' = "deleted"
               /\ \/ tmpPart' = Parts \/ status' = "deleted"
                  \/ runPc'[r] \notin Distributing
               /\ \/ runErr'[r]
                  \/ runPc'[r] \in {"failPart", "failFile", "safe", "safeFail"}
                  => status' = "deleted"
  BY <1>2, <1>3 DEF Healthy, delVars, DelAt, Distributing, InLoop
<1> USE <1>1, <1>3 DEF LocalsTypeOK, At, Goto, Healthy, Distributing, InLoop,
                       Harmful, FileStatus, RowExists, rows, signals, tmp
<1>6. CASE \/ Register(r) \/ Guard(r) \/ ReadPart(r) \/ SkipPart(r)
           \/ NoChannel(r) \/ Lock(r) \/ Wake(r) \/ Interrupted(r)
  BY <1>6 DEF Register, Guard, ReadPart, SkipPart, NoChannel, Lock, Wake,
              Interrupted, locals
<1>7. CASE Send(r) \/ SendFails(r) \/ SendUnacknowledged(r) \/ Panic(r)
  BY <1>7 DEF Send, SendFails, SendUnacknowledged, Panic, Abandon
<1>8. CASE Record(r) \/ RecordFails(r) \/ Bump(r)
  BY <1>8 DEF Record, AddPart, RecordFails, Abandon, Bump, Attempt,
              BumpDoneParts, locals, rows
<1>9. CASE FailPart(r) \/ FailFile(r) \/ Conclude(r) \/ SafeFail(r)
  BY <1>9 DEF FailPart, MarkPartFailed, FailFile, SetFileFailed, Conclude,
              SetReady, SafeFail, Attempt, locals
<1>10. CASE CleanTmp(r) \/ SafeRead(r) \/ Finished(r)
  BY <1>10 DEF CleanTmp, RemoveTmp, SafeRead, Finished, locals
<1> QED  BY <1>4, <1>6, <1>7, <1>8, <1>9, <1>10 DEF RunStep

LEMMA DeleteHealthy ==
    ASSUME Harmful \cap Faults = {}, "cancel" \notin Deleters, TypeOK, Started,
           Healthy, NEW k \in Deleters, Delete(k)
    PROVE  Healthy'
<1>1. DeletionTypeOK  BY DEF TypeOK
<1>2. /\ UNCHANGED <<runPc, runErr, startPc, finPc>>
      /\ UNCHANGED rows \/ (DelAt(k, "row") /\ DeleteFile)
  BY DeleteFrame DEF reqVars, locals
<1>3. /\ status = "deleted" => status' = "deleted"
      /\ status # "none" => status' # "none"
      /\ status' # "failed"
  BY <1>2 DEF rows, DeleteFile, Healthy, RowExists
<1>4. k # "cancel" /\ (k = "sweep" => DelAt(k, "idle"))
  BY DEF Healthy
<1>5. CASE DelRow(k)
  <2>1. DeleteFile /\ status # "none"
    BY <1>5 DEF DelRow, Attempt, Harmful, Healthy, DelAt
  <2>2. status' = "deleted"
    BY <2>1 DEF DeleteFile, RowExists, Healthy, TypeOK, DistTypeOK,
                StoreTypeOK, FileStatus
  <2>3. /\ delPc' = [delPc EXCEPT ![k] = AfterRow(k)]
        /\ AfterRow(k) \in {"tmp", "idle"} /\ k # "sweep"
        /\ UNCHANGED <<cancelled, aged>>
    BY <1>4, <1>5 DEF DelRow, DelGoto, AfterRow, DelAt, distVars, signals, tmp
  <2> QED
    BY <1>1, <1>2, <2>2, <2>3 DEF Healthy, DelAt, DeletionTypeOK
<1>6. CASE SweepOrphanDir(k)
  <2>1. /\ UNCHANGED <<rows, delPc, cancelled>> /\ ~RowExists
        /\ tmpPart' = {} /\ ~aged'
    BY <1>6 DEF SweepOrphanDir, RemoveTmp, delVars, signals
  <2>2. CASE status = "deleted"
    BY <1>2, <2>1, <2>2 DEF Healthy, DelAt, rows
  <2>3. CASE status = "none"
    <3>1. /\ \A r \in Runs : runPc[r] = "idle"
          /\ \A h \in Finishers : finPc[h] = "idle"
      BY <2>3 DEF Healthy, Started, Active
    <3> QED
      BY <1>2, <2>1, <2>3, <3>1 DEF Healthy, DelAt, rows, Distributing, InLoop
  <2> QED
    BY <2>1, <2>2, <2>3
       DEF RowExists, TypeOK, DistTypeOK, StoreTypeOK, FileStatus
<1>7. CASE DelTmp(k)
  <2>1. /\ UNCHANGED <<rows, cancelled>> /\ ~aged'
        /\ delPc' = [delPc EXCEPT ![k] = "idle"]
        /\ status = "deleted"
    BY <1>4, <1>7 DEF DelTmp, RemoveTmp, DelGoto, signals, Healthy, DelAt
  <2> QED
    BY <1>1, <1>2, <2>1 DEF Healthy, DelAt, DeletionTypeOK, rows
<1>8. CASE ~DelRow(k) /\ ~SweepOrphanDir(k) /\ ~DelTmp(k)
  <2>1. ~CancelOther(k) /\ ~CancelSignal(k) /\ ~CancelUnlock(k)
    BY <1>4 DEF CancelOther, CancelSignal, CancelUnlock, Healthy, DelAt
  <2>2. /\ UNCHANGED <<cancelled, tmp, rows>>
        /\ \/ UNCHANGED delPc
           \/ /\ delPc' = [delPc EXCEPT ![k] = delPc'[k]]
              /\ delPc'[k] \in {"idle", "parts", "messages", "row"}
              /\ status # "none" /\ k # "sweep"
    BY <1>1, <1>4, <1>8, <2>1
       DEF Delete, DelStep, DelRead, DelGetParts, DelGetPartsFails, DelMessage,
           DelMessageFails, DelMessageNoChannel, DelMessagesDone, DelGoto,
           DelAt, AfterMessages, KeepsRowOnFailure, RowExists, distVars,
           signals, Healthy, tmp, DeletionTypeOK
  <2> QED
    BY <1>1, <1>2, <2>2 DEF Healthy, DelAt, DeletionTypeOK, rows, tmp
<1> QED  BY <1>5, <1>6, <1>7, <1>8

LEMMA StaysHealthy ==
    ASSUME Harmful \cap Faults = {}, "cancel" \notin Deleters, TypeOK,
           OneRequest, Started, Sequential, Healthy, [Next]_vars
    PROVE  Healthy'
<1>1. LocalsTypeOK  BY DistTyping DEF TypeOK
<1>2. CASE \E r \in Runs : Distribute(r)
  BY <1>2, RunHealthy
<1>3. CASE \E k \in Deleters : Delete(k)
  BY <1>3, DeleteHealthy
<1>4. CASE \E h \in Finishers : Finish(h)
  <2>1. PICK h \in Finishers : Finish(h)  BY <1>4
  <2>2. /\ UNCHANGED <<rows, runErr, cancelled, delVars, startPc>>
        /\ \A g \in Finishers : g # h => finPc'[g] = finPc[g]
        /\ FinishStarts(h) \/ UNCHANGED runPc
    BY <2>1, FinishFrame DEF locals
  <2>3. CASE FinishStarts(h)
    <3>1. PICK r \in Runs : Spawn(r)  BY <2>3 DEF FinishStarts
    <3>2. /\ UNCHANGED <<tmpPart, aged>>
          /\ runPc' = [runPc EXCEPT ![r] = "spawned"]
          /\ finPc[h] = "try"
      BY <2>3, <3>1 DEF FinishStarts, Spawn, Goto, tmp
    <3>3. tmpPart = Parts \/ status = "deleted"
      BY <3>2 DEF Healthy
    <3> QED
      BY <1>1, <2>2, <3>2, <3>3
         DEF Healthy, rows, delVars, DelAt, LocalsTypeOK
  <2>4. CASE FinishStat(h)
    <3>1. UNCHANGED <<tmpPart, aged, runPc>> /\ tmpPart = Parts
      BY <2>4 DEF FinishStat, distVars, tmp
    <3> QED  BY <2>2, <3>1 DEF Healthy, rows, delVars, DelAt
  <2>5. CASE FinishRead(h)
    <3>1. /\ UNCHANGED <<tmpPart, aged, runPc>>
          /\ finPc' = [finPc EXCEPT ![h] = "stat"]
      BY <2>5 DEF FinishRead, FinishGoto, distVars, tmp
    <3>2. finPc'[h] # "try"
      BY <3>1 DEF TypeOK
    <3> QED  BY <2>2, <3>1, <3>2 DEF Healthy, rows, delVars, DelAt
  <2>6. CASE FinishMissing(h) \/ FinishUnavailable(h) \/ FinishConflict(h)
    <3>1. /\ finPc[h] # "idle" /\ ~aged' /\ UNCHANGED runPc
          /\ finPc' = [finPc EXCEPT ![h] = "idle"]
      BY <2>6 DEF FinishMissing, FinishUnavailable, FinishConflict,
                  FinishRefused, FinishGoto, RemoveTmp
    <3>2. /\ \A r \in Runs : runPc[r] = "idle"
          /\ \A g \in Finishers : finPc'[g] # "try"
      BY <3>1 DEF OneRequest, Active, TypeOK
    <3> QED
      BY <2>2, <3>1, <3>2 DEF Healthy, rows, delVars, DelAt, Distributing,
                              InLoop
  <2> QED  BY <2>1, <2>3, <2>4, <2>5, <2>6 DEF Finish
<1>5. CASE Start
  <2>1. UNCHANGED <<cancelled, tmpPart, delVars, runPc, runErr, finPc>>
    BY <1>5 DEF Start, StartRow, StartParts, StartFails, StartDir, distVars,
                tmp, signals, locals
  <2>2. /\ ~aged'
        /\ startPc' # "none" => status' # "none"
        /\ status' # "failed"
        /\ status # "none" => status' = status
    BY <1>5 DEF Start, StartRow, StartParts, StartFails, StartDir, CreateFile,
                CreatePendingParts, rows, distVars, tmp, Healthy
  <2> QED  BY <2>1, <2>2 DEF Healthy, delVars, DelAt
<1>6. CASE \E i \in Parts : Put(i)
  <2>1. PICK i \in Parts : Put(i)  BY <1>6
  <2>2. UNCHANGED <<rows, cancelled, runPc, runErr, delVars, startPc, finPc>>
    BY <2>1, PutFrame DEF signals, locals
  <2>3. ~aged'
    BY <2>1 DEF Put, PutRead, PutWrite, PutFails, PutOversize, distVars, tmp,
                Healthy
  <2>4. CASE PutRead(i)
    <3>1. UNCHANGED tmpPart  BY <2>4 DEF PutRead, distVars, tmp
    <3> QED  BY <2>2, <2>3, <3>1 DEF Healthy, rows, delVars, DelAt
  <2>5. CASE ~PutRead(i)
    <3>1. putPc[i] # "idle"
      BY <2>1, <2>5 DEF Put, PutWrite, PutFails, PutOversize
    <3>2. /\ \A r \in Runs : runPc[r] = "idle"
          /\ \A h \in Finishers : finPc[h] = "idle"
      BY <3>1 DEF Sequential, FinishSent, Active
    <3> QED
      BY <2>2, <2>3, <3>2 DEF Healthy, rows, delVars, DelAt, Distributing,
                              InLoop
  <2> QED  BY <2>4, <2>5
<1>7. CASE UNCHANGED vars
  BY <1>7 DEF Healthy, vars, rows, distVars, tmp, signals, locals, delVars,
              reqVars, DelAt, Distributing, InLoop
<1>8. CASE Crash
  <2>1. /\ UNCHANGED rows /\ cancelled' = {} /\ ~aged'
        /\ startPc = "none" => startPc' = "none"
        /\ \A r \in Runs : runPc'[r] = "idle" /\ ~runErr'[r]
        /\ \A k \in Deleters : delPc'[k] = "idle"
        /\ \A h \in Finishers : finPc'[h] = "idle"
    BY <1>8 DEF Crash, RemoveTmp, tmp, Healthy
  <2> QED  BY <2>1 DEF Healthy, rows, DelAt, Distributing, InLoop
<1>9. ~DayPasses /\ ~Shutdown
  BY DEF DayPasses, Shutdown, Harmful
<1> QED  BY <1>2, <1>3, <1>4, <1>5, <1>6, <1>7, <1>8, <1>9 DEF Next

\* When Telegram, the database and the process's runs are well and nobody
\* cancels, no upload of an orderly client fails: not through a restart, a
\* missing part, a skipped one, a refused request or a deletion at any moment.
THEOREM NothingFails ==
    ASSUME ~RepeatFinish, ~LatePut, "cancel" \notin Deleters,
           Harmful \cap Faults = {}
    PROVE  Spec => []NeverFails
<1>1. Init => Sequential /\ Healthy
  BY DEF Init, DistInit, StoreInit, DeletionInit, Sequential, FinishSent,
         Active, Healthy, DelAt, Distributing, InLoop
<1>2. Orderly /\ Sequential /\ Healthy /\ [Next]_vars
         => Sequential' /\ Healthy'
  BY StaysSequential, StaysHealthy DEF Orderly
<1>3. Healthy => NeverFails
  BY DEF Healthy, NeverFails
<1> QED  BY <1>1, <1>2, <1>3, OrderlyInvariant, PTL DEF Spec
=============================================================================
