------------------------------- MODULE Upload -------------------------------
(***************************************************************************)
(* The life of one share token, from POST /upload/start to the drop of its *)
(* row: the upload handlers of internal/httpapi/upload.go, composed with   *)
(* the background distribution, the deletion paths and the restart of the  *)
(* process.  Requests of one token may overlap in any way: Go serves each  *)
(* in a goroutine of its own.                                              *)
(***************************************************************************)
EXTENDS Deletion, FiniteSets

CONSTANTS
    Finishers,   \* slots for concurrent POST /upload/{token}/finish requests
    RepeatFinish,\* may finish be sent again while one is under way or accepted
    LatePut,     \* may a part be sent again from then on
    MaxCrash     \* bound: how many times the process is restarted

ASSUME ClientAssumption == RepeatFinish \in BOOLEAN /\ LatePut \in BOOLEAN
ASSUME MaxCrashAssumption == MaxCrash \in Nat

VARIABLES
    startPc,     \* where uploadStart stands; "dead" if it never answered
    putPc,       \* PUT of each part: row read, then file written
    finPc,       \* where each finish request stands
    accepted,    \* was finish answered 202 since the last restart
    crashes      \* restarts so far

reqVars == <<startPc, putPc, finPc, accepted>>
vars == <<rows, distVars, delVars, reqVars, crashes>>

TypeOK ==
    /\ DistTypeOK
    /\ DeletionTypeOK
    /\ startPc \in {"none", "row", "parts", "done", "dead"}
    /\ putPc \in [Parts -> {"idle", "open"}]
    /\ finPc \in [Finishers -> {"idle", "stat", "try"}]
    /\ accepted \in BOOLEAN
    /\ crashes \in 0 .. MaxCrash

Init ==
    /\ DistInit
    /\ DeletionInit
    /\ startPc = "none"
    /\ putPc = [i \in Parts |-> "idle"]
    /\ finPc = [h \in Finishers |-> "idle"]
    /\ accepted = FALSE
    /\ crashes = 0

-----------------------------------------------------------------------------
(* uploadStart: three effects, each of which may be the last.              *)

StartRow ==
    /\ startPc = "none"
    /\ CreateFile
    /\ startPc' = "row"
    /\ UNCHANGED <<distVars, delVars, putPc, finPc, accepted, crashes>>

StartParts ==
    /\ startPc = "row"
    /\ CreatePendingParts
    /\ startPc' = "parts"
    /\ UNCHANGED <<distVars, delVars, putPc, finPc, accepted, crashes>>

StartFails ==
    /\ \/ startPc = "row" /\ (~RowExists \/ "dbwrite" \in Faults)
       \/ startPc = "parts" /\ "disk" \in Faults
    /\ startPc' = "dead"
    /\ UNCHANGED <<rows, distVars, delVars, putPc, finPc, accepted, crashes>>

StartDir ==
    /\ startPc = "parts"
    /\ startPc' = "done"
    /\ tmpDir' = TRUE
    /\ aged' = FALSE
    /\ UNCHANGED <<rows, tmpPart, telegram, mu, signals, runPc, locals,
                   delVars, putPc, finPc, accepted, crashes>>

\* What static/app.js knows: it sends every part, then finish, and neither
\* again.  A refusal or a restart lets it try once more.
FinishSent == accepted \/ \E h \in Finishers : finPc[h] # "idle"

-----------------------------------------------------------------------------
(* uploadPart: the row is read, then the file is created or truncated.     *)

PutRead(i) ==
    /\ startPc = "done"
    /\ LatePut \/ ~FinishSent
    /\ putPc[i] = "idle"
    /\ status = "uploading"
    /\ putPc' = [putPc EXCEPT ![i] = "open"]
    /\ UNCHANGED <<rows, distVars, delVars, startPc, finPc, accepted, crashes>>

\* MkdirAll and os.Create, whatever became of the row meanwhile.  An aborted
\* body leaves the truncated file behind.
PutWrite(i) ==
    /\ putPc[i] = "open"
    /\ tmpDir' = TRUE
    /\ tmpPart' = tmpPart \cup {i}
    /\ aged' = (aged /\ i \in tmpPart)
    /\ putPc' = [putPc EXCEPT ![i] = "idle"]
    /\ UNCHANGED <<rows, telegram, mu, signals, runPc, locals, delVars,
                   startPc, finPc, accepted, crashes>>

\* MkdirAll or Create fails, or the disk is full.
PutFails(i) ==
    /\ "disk" \in Faults
    /\ putPc[i] = "open"
    /\ tmpDir' \in {tmpDir, TRUE}
    /\ putPc' = [putPc EXCEPT ![i] = "idle"]
    /\ UNCHANGED <<rows, tmpPart, aged, telegram, mu, signals, runPc, locals,
                   delVars, startPc, finPc, accepted, crashes>>

\* The body exceeds the limit, so the file is removed again.
PutOversize(i) ==
    /\ putPc[i] = "open"
    /\ tmpDir' = TRUE
    /\ tmpPart' = tmpPart \ {i}
    /\ aged' = FALSE
    /\ putPc' = [putPc EXCEPT ![i] = "idle"]
    /\ UNCHANGED <<rows, telegram, mu, signals, runPc, locals, delVars,
                   startPc, finPc, accepted, crashes>>

-----------------------------------------------------------------------------
(* uploadFinish                                                            *)

FinishGoto(h, pc) == finPc' = [finPc EXCEPT ![h] = pc]

\* Mutant: the status of the row is not looked at.
FinishRead_AnyStatus(h) ==
    /\ startPc = "done"
    /\ finPc[h] = "idle"
    /\ RepeatFinish \/ ~FinishSent
    /\ LatePut \/ \A i \in Parts : putPc[i] = "idle"
    /\ RowExists
    /\ FinishGoto(h, "stat")
    /\ UNCHANGED <<rows, distVars, delVars, startPc, putPc, accepted, crashes>>

FinishRead(h) ==
    /\ startPc = "done"
    /\ finPc[h] = "idle"
    /\ RepeatFinish \/ ~FinishSent
    /\ LatePut \/ \A i \in Parts : putPc[i] = "idle"
    /\ status = "uploading"
    /\ FinishGoto(h, "stat")
    /\ UNCHANGED <<rows, distVars, delVars, startPc, putPc, accepted, crashes>>

\* Mutant: the segment files are not looked for.
FinishStat_Unchecked(h) ==
    /\ finPc[h] = "stat"
    /\ FinishGoto(h, "try")
    /\ UNCHANGED <<rows, distVars, delVars, startPc, putPc, accepted, crashes>>

\* Every segment file is there: the channels are planned and the worker
\* awaited.
FinishStat(h) ==
    /\ finPc[h] = "stat"
    /\ tmpPart = Parts
    /\ FinishGoto(h, "try")
    /\ UNCHANGED <<rows, distVars, delVars, startPc, putPc, accepted, crashes>>

\* Every refusal of uploadFinish removes the temporary directory.
FinishRefused(h) ==
    /\ RemoveTmp
    /\ FinishGoto(h, "idle")
    /\ UNCHANGED <<rows, telegram, mu, signals, runPc, locals, delVars,
                   startPc, putPc, accepted, crashes>>

FinishMissing(h) ==
    /\ finPc[h] = "stat"
    /\ tmpPart # Parts
    /\ FinishRefused(h)

\* ListChannels or PickUploadChannelsBalanced fails, or waitWorker times out.
FinishUnavailable(h) ==
    /\ "worker" \in Faults
    /\ finPc[h] = "try"
    /\ FinishRefused(h)

\* Mutant: tryStartFinish always succeeds.
FinishStarts_Unchecked(h) ==
    /\ finPc[h] = "try"
    /\ \E r \in Runs : Spawn(r)
    /\ FinishGoto(h, "idle")
    /\ accepted' = TRUE
    /\ UNCHANGED <<delVars, startPc, putPc, crashes>>

\* tryStartFinish: the token is marked and the distribution starts.
FinishStarts(h) ==
    /\ finPc[h] = "try"
    /\ ~finishStarted
    /\ \E r \in Runs : Spawn(r)
    /\ FinishGoto(h, "idle")
    /\ accepted' = TRUE
    /\ UNCHANGED <<delVars, startPc, putPc, crashes>>

FinishConflict(h) ==
    /\ finPc[h] = "try"
    /\ finishStarted
    /\ FinishRefused(h)

-----------------------------------------------------------------------------
(* The environment                                                         *)

\* 24 hours without a new entry in the directory.  Requests are shorter than
\* that; a distribution held up by Telegram need not be.
DayPasses ==
    /\ "day" \in Faults
    /\ tmpDir /\ ~aged
    /\ startPc \in {"done", "dead"}
    /\ \A i \in Parts : putPc[i] = "idle"
    /\ \A h \in Finishers : finPc[h] = "idle"
    /\ \A k \in Deleters : delPc[k] = "idle"
    /\ aged' = TRUE
    /\ UNCHANGED <<rows, tmpDir, tmpPart, telegram, mu, signals, runPc, locals,
                   delVars, reqVars, crashes>>

\* SIGTERM: the context of every run is done; the process ends soon after, in
\* a Crash, but a run may take some steps first.
Shutdown ==
    /\ "stop" \in Faults
    /\ cancelled' = cancelled \cup {r \in Runs : Active(r)}
    /\ UNCHANGED <<rows, tmp, telegram, mu, finishStarted, uploadCancel, runPc,
                   locals, delVars, reqVars, crashes>>

\* The process stops at any point and starts again.  Memory is lost; rows,
\* files and messages are not.  Before it serves anything, main sweeps the
\* directories without a row or older than a day, but no row; a directory
\* whose row cannot be read is left alone.
Crash ==
    /\ crashes < MaxCrash
    /\ crashes' = crashes + 1
    /\ \/ tmpDir /\ (~RowExists \/ aged) /\ RemoveTmp
       \/ /\ ~tmpDir \/ (RowExists /\ ~aged) \/ "dbread" \in Faults
          /\ UNCHANGED tmp
    /\ mu' = NoRun
    /\ finishStarted' = FALSE /\ uploadCancel' = NoRun /\ cancelled' = {}
    /\ runPc' = [r \in Runs |-> "idle"]
    /\ runIdx' = [r \in Runs |-> 0]
    /\ runOk' = [r \in Runs |-> 0]
    /\ runMsg' = [r \in Runs |-> NoMsg]
    /\ runErr' = [r \in Runs |-> FALSE]
    /\ delPc' = [k \in Deleters |-> "idle"]
    /\ delTodo' = [k \in Deleters |-> {}]
    /\ delFailed' = [k \in Deleters |-> FALSE]
    /\ startPc' = IF startPc \in {"row", "parts"} THEN "dead" ELSE startPc
    /\ putPc' = [i \in Parts |-> "idle"]
    /\ finPc' = [h \in Finishers |-> "idle"]
    /\ accepted' = FALSE
    /\ UNCHANGED <<rows, telegram>>

-----------------------------------------------------------------------------
Start == StartRow \/ StartParts \/ StartFails \/ StartDir
Put(i) == PutRead(i) \/ PutWrite(i) \/ PutFails(i) \/ PutOversize(i)
Finish(h) ==
    \/ FinishRead(h) \/ FinishStat(h) \/ FinishMissing(h)
    \/ FinishUnavailable(h) \/ FinishStarts(h) \/ FinishConflict(h)
Distribute(r) == RunStep(r) /\ UNCHANGED <<delVars, reqVars, crashes>>
Delete(k) ==
    /\ k = "cancel" /\ delPc[k] = "idle" => startPc = "done"
    /\ DelStep(k)
    /\ UNCHANGED <<reqVars, crashes>>

Next ==
    \/ Start
    \/ \E i \in Parts : Put(i)
    \/ \E h \in Finishers : Finish(h)
    \/ \E r \in Runs : Distribute(r)
    \/ \E k \in Deleters : Delete(k)
    \/ DayPasses
    \/ Shutdown
    \/ Crash

Spec == Init /\ [][Next]_vars

\* Goroutines, handlers and scheduled jobs make progress, and a Telegram call
\* returns; whether a client or an administrator ever asks for something is
\* not promised.
Progress(k) == Delete(k) /\ (k \in {"cancel", "admin"} => delPc[k] # "idle")

Fairness ==
    /\ \A r \in Runs : WF_vars(Distribute(r))
    /\ \A k \in Deleters : WF_vars(Progress(k))
    /\ \A i \in Parts : WF_vars(PutWrite(i))
    /\ \A h \in Finishers : WF_vars(finPc[h] # "idle" /\ Finish(h))
    /\ WF_vars(DayPasses)

FairSpec == Spec /\ Fairness

-----------------------------------------------------------------------------
(* Safety                                                                  *)

\* tryStartFinish: one token never has two distributions at a time.
SingleRun == \A r1, r2 \in Runs : Active(r1) /\ Active(r2) => r1 = r2

\* Every segment is stored and its message can be found again.
Whole == \A i \in Parts : partSt[i] = "uploaded" /\ partMsg[i] # NoMsg

\* UploadSegments turns a file ready only when all its segments are stored,
\* whatever was skipped, retried, restarted or deleted meanwhile.
BecomesReadyWhole == [][status # "ready" /\ status' = "ready" => Whole]_vars

\* ... and a ready file stays whole until its row is dropped.
ReadyWhole == status = "ready" => Whole

\* The outcome of an upload is final: no handler, job or late goroutine turns
\* a ready file into a failed one, a failed one into a ready one, or either
\* back into an upload.
Settled ==
    [][(status \in {"ready", "failed"})
            => status' \in {status, "deleted"}]_vars

\* Nothing outlives the row: a goroutine that stores a segment after the row
\* was dropped does not leave a part behind.
NoGhost ==
    ~RowExists => \A i \in Parts : partSt[i] = "absent" /\ partMsg[i] = NoMsg

\* Every message in a channel can be found from the database, or is in the
\* hands of the run about to store it; any other can never be deleted.
InHand == {runMsg[r] : r \in {q \in Runs : At(q, "add")}}
NoOrphan == live \subseteq Recorded \cup InHand

\* A ready file that no deletion is working on can be downloaded: each message
\* its parts name is still in its channel.
ReadyServable ==
    status = "ready" /\ (\A k \in Deleters : delPc[k] = "idle")
        => Recorded \subseteq live

\* F-15: the row of a ready file, and the message ids with it, is dropped only
\* when every message is gone from Telegram.
DroppedClean ==
    [][status = "ready" /\ status' = "deleted" => Recorded \cap live = {}]_vars

\* The progress bar (done_parts) never runs ahead of the segments stored.
DoneCounted ==
    status = "uploading" =>
        doneParts <= Cardinality({i \in Parts : partSt[i] = "uploaded"})

\* With no fault of the environment and nobody deleting, no upload fails.
NeverFails == status # "failed"

-----------------------------------------------------------------------------
(* Liveness                                                                *)

\* A distribution that was started settles the file one way or the other, so
\* that the polling client gets an answer.
Settles == \A r \in Runs : Active(r) ~> status # "uploading"

\* F-07: a file past its expires_at is deleted.
Expires == status = "ready" ~> status = "deleted"

\* The clients of the token have gone silent for good.
Abandoned ==
    /\ \A i \in Parts : putPc[i] = "idle"
    /\ \A h \in Finishers : finPc[h] = "idle"

\* sweepTmp, rule 2: an abandoned upload does not keep its directory.
DirReclaimed ==
    <>[]Abandoned =>
        (status = "uploading" /\ tmpDir ~> status # "uploading" \/ ~tmpDir)

\* "the volume never fills up": once the outcome is known the segments go.
TmpFreed == tmpDir /\ status \in {"ready", "failed", "deleted"} ~> ~tmpDir
=============================================================================
