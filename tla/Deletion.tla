------------------------------ MODULE Deletion ------------------------------
(***************************************************************************)
(* The four paths that drop a file's row while its Telegram messages still *)
(* have to be deleted one by one:                                          *)
(*   "cancel"  POST /upload/cancel          (internal/httpapi/upload.go)   *)
(*   "admin"   DELETE /admin/files/{token}  (internal/httpapi/admin.go)    *)
(*   "expire"  the minutely expireFiles     (internal/scheduler)           *)
(*   "sweep"   the periodic sweepTmp        (internal/scheduler)           *)
(* Each reads the row, then the parts, then deletes the messages the parts *)
(* named, then drops the row; at most one of each kind is in progress.     *)
(***************************************************************************)
EXTENDS Distribution

CONSTANT Deleters          \* which of the four paths may be taken

DeleterKinds == {"cancel", "admin", "expire", "sweep"}

ASSUME DeletersAssumption == Deleters \subseteq DeleterKinds

VARIABLES
    delPc,       \* where each deleter stands
    delTodo,     \* messages of its snapshot it has not tried yet
    delFailed    \* has a deletion failed (`failed > 0`)

delVars == <<delPc, delTodo, delFailed>>

DelPc == {"idle", "parts", "messages", "signal", "row", "unlock", "tmp"}

DeletionTypeOK ==
    /\ delPc \in [Deleters -> DelPc]
    /\ delTodo \in [Deleters -> SUBSET Msg]
    /\ delFailed \in [Deleters -> BOOLEAN]

DeletionInit ==
    /\ delPc = [k \in Deleters |-> "idle"]
    /\ delTodo = [k \in Deleters |-> {}]
    /\ delFailed = [k \in Deleters |-> FALSE]

DelAt(k, pc) == delPc[k] = pc

DelGoto(k, pc) ==
    /\ delPc' = [delPc EXCEPT ![k] = pc]
    /\ delFailed' = [delFailed EXCEPT ![k] = @ /\ pc # "idle"]

\* admin and expire keep the row unless every message was deleted (F-15);
\* cancel and sweep delete messages on a best-effort basis (F-14).
KeepsRowOnFailure(k) == k \in {"admin", "expire"}

\* Mutant: sweepTmp takes the age test the wrong way round.
DelRead_Fresh(k) ==
    /\ DelAt(k, "idle")
    /\ \/ k \in {"cancel", "sweep"} /\ status = "uploading"
       \/ k = "admin" /\ RowExists
       \/ k = "expire" /\ status = "ready"
    /\ k = "sweep" => tmpDir /\ ~aged
    /\ DelGoto(k, "parts")
    /\ UNCHANGED <<rows, distVars, delTodo>>

\* GetFileByToken (or ListExpiredFiles: a ready file past its expires_at).
DelRead(k) ==
    /\ DelAt(k, "idle")
    /\ \/ k \in {"cancel", "sweep"} /\ status = "uploading"
       \/ k = "admin" /\ RowExists
       \/ k = "expire" /\ status = "ready"
    /\ k = "sweep" => tmpDir /\ aged
    /\ DelGoto(k, "parts")
    /\ UNCHANGED <<rows, distVars, delTodo>>

\* A cancel that finds no 'uploading' row, or cannot read it, still releases
\* the finish mark and removes the temporary directory.
CancelOther(k) ==
    /\ k = "cancel"
    /\ DelAt(k, "idle")
    /\ status # "none"
    /\ status # "uploading" \/ "dbread" \in Faults
    /\ DelGoto(k, "unlock")
    /\ UNCHANGED <<rows, distVars, delTodo>>

\* sweepTmp on a token directory that has no row.
SweepOrphanDir(k) ==
    /\ k = "sweep"
    /\ DelAt(k, "idle")
    /\ tmpDir /\ ~RowExists
    /\ RemoveTmp
    /\ UNCHANGED <<rows, telegram, mu, signals, runPc, locals, delVars>>

\* GetParts: the snapshot of message ids that will be deleted.
DelGetParts(k) ==
    /\ DelAt(k, "parts")
    /\ delTodo' = [delTodo EXCEPT ![k] = Recorded]
    /\ DelGoto(k, "messages")
    /\ UNCHANGED <<rows, distVars>>

\* GetParts fails: admin and expire give up, cancel and sweep go on with no
\* message to delete.
DelGetPartsFails(k) ==
    /\ "dbread" \in Faults
    /\ DelAt(k, "parts")
    /\ DelGoto(k, IF KeepsRowOnFailure(k) THEN "idle" ELSE "messages")
    /\ UNCHANGED <<rows, distVars, delTodo>>

\* DeleteSegmentMessage: the call is made under s.mu and is idempotent.
DelMessage(k) ==
    /\ DelAt(k, "messages")
    /\ mu = NoRun
    /\ \E m \in delTodo[k] :
          /\ live' = live \ {m}
          /\ delTodo' = [delTodo EXCEPT ![k] = @ \ {m}]
    /\ UNCHANGED <<rows, tmp, sent, mu, signals, runPc, locals, delPc,
                   delFailed>>

\* Telegram refuses, or the context is done before s.mu is even asked for.
DelMessageFails(k) ==
    /\ "delete" \in Faults
    /\ DelAt(k, "messages")
    /\ \E m \in delTodo[k] : delTodo' = [delTodo EXCEPT ![k] = @ \ {m}]
    /\ delFailed' = [delFailed EXCEPT ![k] = TRUE]
    /\ UNCHANGED <<rows, distVars, delPc>>

\* GetChannel fails or finds nothing: the call returns nil, as if it had
\* deleted the message.
DelMessageNoChannel(k) ==
    /\ "dbread" \in Faults
    /\ DelAt(k, "messages")
    /\ \E m \in delTodo[k] : delTodo' = [delTodo EXCEPT ![k] = @ \ {m}]
    /\ UNCHANGED <<rows, distVars, delPc, delFailed>>

AfterMessages(k) ==
    IF k = "cancel" THEN "signal" ELSE IF k = "sweep" THEN "tmp" ELSE "row"

AfterRow(k) ==
    IF k = "cancel" THEN "unlock" ELSE IF k = "admin" THEN "tmp" ELSE "idle"

\* Mutant: `failed` is counted but never looked at.
DelMessagesDone_IgnoresFailures(k) ==
    /\ DelAt(k, "messages")
    /\ delTodo[k] = {}
    /\ DelGoto(k, AfterMessages(k))
    /\ UNCHANGED <<rows, distVars, delTodo>>

\* Mutant: deleters that must be careful with the row never drop it.
DelMessagesDone_NeverDrops(k) ==
    /\ DelAt(k, "messages")
    /\ delTodo[k] = {}
    /\ DelGoto(k, IF KeepsRowOnFailure(k) THEN "idle" ELSE AfterMessages(k))
    /\ UNCHANGED <<rows, distVars, delTodo>>

\* Every message of the snapshot was tried.
DelMessagesDone(k) ==
    /\ DelAt(k, "messages")
    /\ delTodo[k] = {}
    /\ DelGoto(k, IF delFailed[k] /\ KeepsRowOnFailure(k)
                    THEN "idle" ELSE AfterMessages(k))
    /\ UNCHANGED <<rows, distVars, delTodo>>

\* cancelUploadSignal: the registered run's context is cancelled, once.
CancelSignal(k) ==
    /\ DelAt(k, "signal")
    /\ cancelled' = IF uploadCancel = NoRun THEN cancelled
                                            ELSE cancelled \cup {uploadCancel}
    /\ uploadCancel' = NoRun
    /\ DelGoto(k, "row")
    /\ UNCHANGED <<rows, tmp, telegram, mu, finishStarted, runPc, locals,
                   delTodo>>

\* Mutant: DELETE ... WHERE status = 'uploading'.
DelRow_OnlyUploading(k) ==
    /\ DelAt(k, "row")
    /\ IF status = "uploading" THEN DeleteFile ELSE UNCHANGED rows
    /\ DelGoto(k, AfterRow(k))
    /\ UNCHANGED <<distVars, delTodo>>

\* The error of DeleteFile is discarded, except by expireFiles, which then
\* has nothing left to do but log it.
DelRow(k) ==
    /\ DelAt(k, "row")
    /\ Attempt(DeleteFile)
    /\ DelGoto(k, AfterRow(k))
    /\ UNCHANGED <<distVars, delTodo>>

\* finishDone(token) in uploadCancel, whether or not a run is in progress.
CancelUnlock(k) ==
    /\ DelAt(k, "unlock")
    /\ finishStarted' = FALSE
    /\ DelGoto(k, "tmp")
    /\ UNCHANGED <<rows, tmp, telegram, mu, uploadCancel, cancelled, runPc,
                   locals, delTodo>>

\* cleanupTmp; sweepTmp removes the directory before it drops the row.
DelTmp(k) ==
    /\ DelAt(k, "tmp")
    /\ RemoveTmp
    /\ DelGoto(k, IF k = "sweep" THEN "row" ELSE "idle")
    /\ UNCHANGED <<rows, telegram, mu, signals, runPc, locals, delTodo>>

DelStep(k) ==
    \/ DelRead(k) \/ CancelOther(k) \/ SweepOrphanDir(k)
    \/ DelGetParts(k) \/ DelGetPartsFails(k)
    \/ DelMessage(k) \/ DelMessageFails(k) \/ DelMessageNoChannel(k)
    \/ DelMessagesDone(k)
    \/ CancelSignal(k) \/ DelRow(k) \/ CancelUnlock(k) \/ DelTmp(k)
=============================================================================
