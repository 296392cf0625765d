---------------------------- MODULE Distribution ----------------------------
(***************************************************************************)
(* The background distribution of one uploaded file: the goroutine         *)
(* uploadFinish starts (internal/httpapi/upload.go), which sends every     *)
(* segment of the temporary directory to a Telegram channel                *)
(* (internal/tgworker/upload.go) and settles the file's status.            *)
(*                                                                         *)
(* A run is one such goroutine.  Each of its actions ends where another    *)
(* goroutine can intervene: a database statement, a Telegram call, the     *)
(* service mutex s.mu, the sleep between two messages, a file removal.     *)
(***************************************************************************)
EXTENDS Store

CONSTANTS
    Runs,        \* slots for background goroutines of this file
    NoRun,       \* no run: s.mu free, no cancel function registered
    Faults       \* which failures of the environment may happen

\* GetPart, any other read or any write of the database fails; Telegram
\* refuses to post or to delete, or a reply is lost; a panic; a full or broken
\* disk; no worker or no channel for finish; a SIGTERM; a day of silence.
FaultKinds == {"getpart", "dbread", "dbwrite", "net", "delete", "lostreply",
               "panic", "disk", "worker", "stop", "day"}

ASSUME RunsAssumption == NoRun \notin Runs
ASSUME FaultsAssumption == Faults \subseteq FaultKinds

VARIABLES
    tmpDir,        \* does <tmp>/<token> exist
    tmpPart,       \* the segment files in it
    aged,          \* is its mtime more than 24 hours old
    live,          \* messages of this file present in the channels
    sent,          \* messages sent so far: their ids are 1 .. sent
    mu,            \* tgworker.Service.mu: the run holding it
    finishStarted, \* is the token in Server.finishStarted
    uploadCancel,  \* Server.uploadCancels[file]: the run it would cancel
    cancelled,     \* runs whose context is done
    runPc, runIdx, runOk, runMsg, runErr   \* locals of each run

tmp == <<tmpDir, tmpPart, aged>>
telegram == <<live, sent>>
locals == <<runIdx, runOk, runMsg, runErr>>
signals == <<finishStarted, uploadCancel, cancelled>>
distVars == <<tmp, telegram, mu, signals, runPc, locals>>

RunPc == {"idle", "spawned", "guard", "part", "lock", "send", "add", "bump",
          "sleep", "failPart", "failFile", "end", "clean", "safe",
          "safeFail", "done"}

DistTypeOK ==
    /\ StoreTypeOK
    /\ tmpDir \in BOOLEAN /\ aged \in BOOLEAN
    /\ tmpPart \in SUBSET Parts
    /\ live \in SUBSET Msg
    /\ sent \in 0 .. MaxMsg
    /\ mu \in Runs \cup {NoRun}
    /\ finishStarted \in BOOLEAN
    /\ uploadCancel \in Runs \cup {NoRun}
    /\ cancelled \in SUBSET Runs
    /\ runPc \in [Runs -> RunPc]
    /\ runIdx \in [Runs -> Parts]
    /\ runOk \in [Runs -> 0 .. PartCount]
    /\ runMsg \in [Runs -> Msg \cup {NoMsg}]
    /\ runErr \in [Runs -> BOOLEAN]

DistInit ==
    /\ StoreInit
    /\ tmpDir = FALSE /\ tmpPart = {} /\ aged = FALSE
    /\ live = {} /\ sent = 0
    /\ mu = NoRun
    /\ finishStarted = FALSE
    /\ uploadCancel = NoRun
    /\ cancelled = {}
    /\ runPc = [r \in Runs |-> "idle"]
    /\ runIdx = [r \in Runs |-> 0]
    /\ runOk = [r \in Runs |-> 0]
    /\ runMsg = [r \in Runs |-> NoMsg]
    /\ runErr = [r \in Runs |-> FALSE]

\* os.RemoveAll(tmpDir): the three cleanups of the code are this one call.
RemoveTmp ==
    /\ tmpDir' = FALSE
    /\ tmpPart' = {}
    /\ aged' = FALSE

At(r, pc) == runPc[r] = pc
Goto(r, pc) == runPc' = [runPc EXCEPT ![r] = pc]
Active(r) == runPc[r] # "idle"
\* Mutant: the loop bound is off by one.
LastPart_OffByOne(r) == runIdx[r] = PartCount

LastPart(r) == runIdx[r] = PartCount - 1

\* `go func() {...}()` in uploadFinish, once tryStartFinish marked the token.
Spawn(r) ==
    /\ At(r, "idle")
    /\ finishStarted' = TRUE
    /\ Goto(r, "spawned")
    /\ UNCHANGED <<rows, tmp, telegram, mu, uploadCancel, cancelled, locals>>

Register(r) ==
    /\ At(r, "spawned")
    /\ uploadCancel' = r
    /\ Goto(r, "guard")
    /\ UNCHANGED <<rows, tmp, telegram, mu, finishStarted, cancelled, locals>>

\* apiGuard: waitWorker already saw the worker ready, so only a done context
\* can fail it (and select may still take the ready branch).  It returns
\* before the deferred cleanup of the temporary directory is installed.
Guard(r) ==
    /\ At(r, "guard")
    /\ \/ Goto(r, "part") /\ UNCHANGED runErr
       \/ /\ r \in cancelled
          /\ Goto(r, "safe")
          /\ runErr' = [runErr EXCEPT ![r] = TRUE]
    /\ UNCHANGED <<rows, tmp, telegram, mu, signals, runIdx, runOk, runMsg>>

\* Mutant: the skipped segment is counted as sent.
SkipPart_Counted(r) ==
    /\ "getpart" \in Faults
    /\ At(r, "part")
    /\ IF LastPart(r)
         THEN Goto(r, "end") /\ UNCHANGED runIdx
         ELSE runIdx' = [runIdx EXCEPT ![r] = @ + 1] /\ UNCHANGED runPc
    /\ runOk' = [runOk EXCEPT ![r] = @ + 1]
    /\ UNCHANGED <<rows, tmp, telegram, mu, signals, runMsg, runErr>>

\* Mutant: done_parts is raised before the segment is known to be stored.
ReadPart_Bumped(r) ==
    /\ At(r, "part")
    /\ BumpDoneParts
    /\ Goto(r, "lock")
    /\ UNCHANGED <<tmp, telegram, mu, signals, locals>>

\* GetPart and GetChannel succeed; the segment goes to uploadOne.
ReadPart(r) ==
    /\ At(r, "part")
    /\ Goto(r, "lock")
    /\ UNCHANGED <<rows, tmp, telegram, mu, signals, locals>>

\* GetPart fails: `continue`, without a send and without a failure.
SkipPart(r) ==
    /\ "getpart" \in Faults
    /\ At(r, "part")
    /\ IF LastPart(r)
         THEN Goto(r, "end") /\ UNCHANGED runIdx
         ELSE runIdx' = [runIdx EXCEPT ![r] = @ + 1] /\ UNCHANGED runPc
    /\ UNCHANGED <<rows, tmp, telegram, mu, signals, runOk, runMsg, runErr>>

\* GetChannel fails or finds nothing: part and file fail, the result is nil.
NoChannel(r) ==
    /\ "dbread" \in Faults
    /\ At(r, "part")
    /\ Goto(r, "failPart")
    /\ UNCHANGED <<rows, tmp, telegram, mu, signals, locals>>

Lock(r) ==
    /\ At(r, "lock")
    /\ mu = NoRun
    /\ mu' = r
    /\ Goto(r, "send")
    /\ UNCHANGED <<rows, tmp, telegram, signals, locals>>

CanSend(r) == runIdx[r] \in tmpPart /\ sent < MaxMsg

\* FromPath and MessagesSendMedia: a new message appears in the channel.
Deliver ==
    /\ sent' = sent + 1
    /\ live' = live \cup {sent + 1}

Send(r) ==
    /\ At(r, "send")
    /\ r \notin cancelled
    /\ CanSend(r)
    /\ Deliver
    /\ runMsg' = [runMsg EXCEPT ![r] = sent + 1]
    /\ Goto(r, "add")
    /\ UNCHANGED <<rows, tmp, mu, signals, runIdx, runOk, runErr>>

\* uploadOne returns an error and its deferred Unlock runs.
Abandon(r) ==
    /\ mu' = NoRun
    /\ runErr' = [runErr EXCEPT ![r] = TRUE]
    /\ Goto(r, "failPart")
    /\ UNCHANGED <<rows, tmp, signals, runIdx, runOk, runMsg>>

\* The segment cannot be read, the context is done, or Telegram refuses.
SendFails(r) ==
    /\ At(r, "send")
    /\ \/ runIdx[r] \notin tmpPart
       \/ r \in cancelled
       \/ "net" \in Faults
    /\ Abandon(r)
    /\ UNCHANGED telegram

\* The message was posted but its reply was lost or could not be decoded.
SendUnacknowledged(r) ==
    /\ At(r, "send")
    /\ r \in cancelled \/ "lostreply" \in Faults
    /\ CanSend(r)
    /\ Deliver
    /\ Abandon(r)

Record(r) ==
    /\ At(r, "add")
    /\ AddPart(runIdx[r], runMsg[r])
    /\ mu' = NoRun
    /\ Goto(r, "bump")
    /\ UNCHANGED <<tmp, telegram, signals, locals>>

RecordFails(r) ==
    /\ At(r, "add")
    /\ ~RowExists \/ "dbwrite" \in Faults
    /\ Abandon(r)
    /\ UNCHANGED telegram

\* A status write whose result is discarded (`_ =`).
Attempt(statement) == statement \/ ("dbwrite" \in Faults /\ UNCHANGED rows)

\* okCount++, and done_parts is raised if the database lets it.
Bump(r) ==
    /\ At(r, "bump")
    /\ Attempt(BumpDoneParts)
    /\ runOk' = [runOk EXCEPT ![r] = @ + 1]
    /\ Goto(r, IF LastPart(r) THEN "end" ELSE "sleep")
    /\ UNCHANGED <<tmp, telegram, mu, signals, runIdx, runMsg, runErr>>

\* select between the inter-message timer and the context.
Wake(r) ==
    /\ At(r, "sleep")
    /\ runIdx' = [runIdx EXCEPT ![r] = @ + 1]
    /\ Goto(r, "part")
    /\ UNCHANGED <<rows, tmp, telegram, mu, signals, runOk, runMsg, runErr>>

Interrupted(r) ==
    /\ At(r, "sleep")
    /\ r \in cancelled
    /\ runErr' = [runErr EXCEPT ![r] = TRUE]
    /\ Goto(r, "clean")
    /\ UNCHANGED <<rows, tmp, telegram, mu, signals, runIdx, runOk, runMsg>>

FailPart(r) ==
    /\ At(r, "failPart")
    /\ Attempt(MarkPartFailed(runIdx[r]))
    /\ Goto(r, "failFile")
    /\ UNCHANGED <<tmp, telegram, mu, signals, locals>>

FailFile(r) ==
    /\ At(r, "failFile")
    /\ Attempt(SetFileFailed)
    /\ Goto(r, "clean")
    /\ UNCHANGED <<tmp, telegram, mu, signals, locals>>

\* After the loop: ready only if every segment was sent in this run.
Conclude(r) ==
    /\ At(r, "end")
    /\ IF runOk[r] = PartCount THEN Attempt(SetReady) ELSE UNCHANGED rows
    /\ Goto(r, "clean")
    /\ UNCHANGED <<tmp, telegram, mu, signals, locals>>

\* A panic in the middle of uploadOne unwinds through the deferred calls.
Panic(r) ==
    /\ "panic" \in Faults
    /\ At(r, "send")
    /\ mu' = NoRun
    /\ runErr' = [runErr EXCEPT ![r] = TRUE]
    /\ Goto(r, "clean")
    /\ UNCHANGED <<rows, tmp, telegram, signals, runIdx, runOk, runMsg>>

\* Mutant: the temporary directory is left behind.
CleanTmp_Keeps(r) ==
    /\ At(r, "clean")
    /\ Goto(r, IF runErr[r] THEN "safe" ELSE "done")
    /\ UNCHANGED <<rows, tmp, telegram, mu, signals, locals>>

\* The deferred os.RemoveAll(tmpDir).
CleanTmp(r) ==
    /\ At(r, "clean")
    /\ RemoveTmp
    /\ Goto(r, IF runErr[r] THEN "safe" ELSE "done")
    /\ UNCHANGED <<rows, telegram, mu, signals, locals>>

\* Mutant: the recovered panic is only logged.
SafeRead_OnlyLogs(r) ==
    /\ At(r, "safe")
    /\ Goto(r, "done")
    /\ UNCHANGED <<rows, tmp, telegram, mu, signals, locals>>

\* uploadSegmentsSafe: on an error or a panic, GetFileByID ...
SafeRead(r) ==
    /\ At(r, "safe")
    /\ \/ status = "uploading" /\ Goto(r, "safeFail")
       \/ /\ status # "uploading" \/ "dbread" \in Faults
          /\ Goto(r, "done")
    /\ UNCHANGED <<rows, tmp, telegram, mu, signals, locals>>

\* ... and SetFileFailed if it was still uploading.
SafeFail(r) ==
    /\ At(r, "safeFail")
    /\ Attempt(SetFileFailed)
    /\ Goto(r, "done")
    /\ UNCHANGED <<tmp, telegram, mu, signals, locals>>

\* The deferred unregisterUploadCancel, cancel and finishDone; the locals go
\* with the goroutine's stack.
Finished(r) ==
    /\ At(r, "done")
    /\ uploadCancel' = NoRun
    /\ cancelled' = cancelled \ {r}
    /\ finishStarted' = FALSE
    /\ Goto(r, "idle")
    /\ runIdx' = [runIdx EXCEPT ![r] = 0]
    /\ runOk' = [runOk EXCEPT ![r] = 0]
    /\ runMsg' = [runMsg EXCEPT ![r] = NoMsg]
    /\ runErr' = [runErr EXCEPT ![r] = FALSE]
    /\ UNCHANGED <<rows, tmp, telegram, mu>>

RunStep(r) ==
    \/ Register(r) \/ Guard(r)
    \/ ReadPart(r) \/ SkipPart(r) \/ NoChannel(r)
    \/ Lock(r) \/ Send(r) \/ SendFails(r) \/ SendUnacknowledged(r) \/ Panic(r)
    \/ Record(r) \/ RecordFails(r) \/ Bump(r)
    \/ Wake(r) \/ Interrupted(r)
    \/ FailPart(r) \/ FailFile(r) \/ Conclude(r)
    \/ CleanTmp(r) \/ SafeRead(r) \/ SafeFail(r) \/ Finished(r)
=============================================================================
