------------------------ MODULE Upload_deletion_proofs ------------------------
(***************************************************************************)
(* What happens to the Telegram messages of an upload: which of them the   *)
(* database can name, and which are gone before the row is.                *)
(***************************************************************************)
EXTENDS Upload_outcome_proofs

-----------------------------------------------------------------------------
(* Which steps touch messages                                              *)

\* Of a run: the four steps around a send; the others neither hold a message
\* nor change one.
LEMMA RunMessages ==
    ASSUME LocalsTypeOK, NEW r \in Runs, RunStep(r)
    PROVE  \/ Send(r) \/ SendUnacknowledged(r) \/ Record(r) \/ RecordFails(r)
           \/ /\ UNCHANGED <<partMsg, telegram>>
              /\ ~At(r, "add") /\ ~At(r, "add")'
<1> USE DEF LocalsTypeOK, At, Goto
<1>1. CASE \/ Register(r) \/ Guard(r) \/ ReadPart(r) \/ SkipPart(r)
           \/ NoChannel(r) \/ Lock(r) \/ Wake(r) \/ Interrupted(r)
           \/ SendFails(r) \/ Panic(r)
  BY <1>1 DEF Register, Guard, ReadPart, SkipPart, NoChannel, Lock, Wake,
              Interrupted, SendFails, Panic, Abandon, rows
<1>2. CASE \/ Bump(r) \/ FailPart(r) \/ FailFile(r) \/ Conclude(r)
           \/ SafeFail(r)
  BY <1>2 DEF Bump, FailPart, FailFile, Conclude, SafeFail, Attempt,
              BumpDoneParts, MarkPartFailed, SetFileFailed, SetReady, rows
<1>3. CASE CleanTmp(r) \/ SafeRead(r) \/ Finished(r)
  BY <1>3 DEF CleanTmp, SafeRead, Finished, rows
<1> QED  BY <1>1, <1>2, <1>3 DEF RunStep

\* Of an expiry whose reads succeed: the protocol of expireFiles, step by step.
ExpirePc == {"idle", "parts", "messages", "row"}

ExpireStep(k) ==
    \/ /\ DelAt(k, "idle") /\ DelAt(k, "parts")'
       /\ status = "ready"
       /\ UNCHANGED <<rows, live>>
    \/ /\ DelAt(k, "parts") /\ DelAt(k, "messages")'
       /\ delTodo'[k] = Recorded
       /\ UNCHANGED <<rows, live>>
    \/ /\ DelAt(k, "messages") /\ DelAt(k, "messages")'
       /\ \E m \in delTodo[k] :
             live' = live \ {m} /\ delTodo'[k] = delTodo[k] \ {m}
       /\ UNCHANGED <<rows, delFailed>>
    \/ /\ DelAt(k, "messages") /\ DelAt(k, "messages")'
       /\ delFailed'[k]
       /\ UNCHANGED <<rows, live>>
    \/ /\ DelAt(k, "messages") /\ delTodo[k] = {}
       /\ delPc'[k] = IF delFailed[k] THEN "idle" ELSE "row"
       /\ UNCHANGED <<rows, live>>
    \/ /\ DelAt(k, "row") /\ DelAt(k, "idle")'
       /\ UNCHANGED live
       /\ UNCHANGED rows \/ DeleteFile

LEMMA ExpireMoves ==
    ASSUME Deleters \subseteq {"expire"}, "dbread" \notin Faults,
           DeletionTypeOK, NEW k \in Deleters, delPc[k] \in ExpirePc, Delete(k)
    PROVE  /\ UNCHANGED <<tmp, sent, mu, signals, runPc, locals, reqVars,
                          crashes>>
           /\ \A j \in Deleters : j = k
           /\ delPc'[k] \in ExpirePc
           /\ ExpireStep(k)
<1> USE DEF Delete, DeletionTypeOK, ExpirePc, ExpireStep, DelAt, DelGoto,
            distVars, telegram
<1>1. k = "expire"  OBVIOUS
<1>2. CASE \/ DelRead(k) \/ CancelOther(k) \/ SweepOrphanDir(k)
           \/ DelGetParts(k) \/ DelGetPartsFails(k)
  BY <1>1, <1>2 DEF DelRead, CancelOther, SweepOrphanDir, DelGetParts,
                    DelGetPartsFails
<1>3. CASE \/ DelMessage(k) \/ DelMessageFails(k) \/ DelMessageNoChannel(k)
           \/ DelMessagesDone(k)
  BY <1>1, <1>3 DEF DelMessage, DelMessageFails, DelMessageNoChannel,
                    DelMessagesDone, AfterMessages, KeepsRowOnFailure
<1>4. CASE CancelSignal(k) \/ DelRow(k) \/ CancelUnlock(k) \/ DelTmp(k)
  BY <1>1, <1>4 DEF CancelSignal, DelRow, CancelUnlock, DelTmp, AfterRow,
                    Attempt
<1> QED  BY <1>2, <1>3, <1>4 DEF DelStep

-----------------------------------------------------------------------------
(* No message is orphaned                                                  *)

\* The faults that leave a message nobody recorded: the reply to a send is
\* lost or abandoned, the part cannot be stored, an expiry cannot read what it
\* is to delete.
Traceless == {"lostreply", "stop", "dbwrite", "dbread"}

\* While somebody may still record a segment, the file is uploading.
Uploading ==
    /\ cancelled = {}
    /\ ~accepted => status \in {"none", "uploading"}
    /\ \A h \in Finishers : finPc[h] # "idle" => status = "uploading"
    /\ \A r \in Runs : runPc[r] \in Undecided => status = "uploading"
    /\ \A k \in Deleters :
          /\ delPc[k] \in ExpirePc
          /\ delPc[k] # "idle" => status \in {"ready", "deleted"}

\* Every message can be found, and an expiry drops the row only when none of
\* them is left.
Traced ==
    /\ NoOrphan
    /\ \A k \in Deleters :
          /\ DelAt(k, "messages") /\ ~delFailed[k] => live \subseteq delTodo[k]
          /\ DelAt(k, "row") => live = {}

LEMMA RunCancels ==
    ASSUME NEW r \in Runs, RunStep(r)
    PROVE  cancelled' \subseteq cancelled
BY DEF RunStep, Register, Guard, ReadPart, SkipPart, NoChannel, Lock, Send,
       SendFails, SendUnacknowledged, Panic, Abandon, Record, RecordFails,
       Bump, Wake, Interrupted, FailPart, FailFile, Conclude, CleanTmp,
       SafeRead, SafeFail, Finished, signals

LEMMA KeepsUploading ==
    ASSUME Deleters \subseteq {"expire"}, "dbread" \notin Faults,
           "stop" \notin Faults, MaxCrash = 0,
           TypeOK, Started, OneRequest, Uploading, [Next]_vars
    PROVE  Uploading'
<1>1. LocalsTypeOK  BY DistTyping DEF TypeOK
<1> USE DEF Uploading
<1>2. CASE \E r \in Runs : Distribute(r)
  <2>1. PICK r \in Runs : Distribute(r)  BY <1>2
  <2>2. /\ Active(r)
        /\ \A q \in Runs : q # r => runPc'[q] = runPc[q]
        /\ UNCHANGED <<delVars, reqVars>>
    BY <1>1, <2>1, RunFrame
  <2>3. \A q \in Runs : q # r => runPc'[q] = "idle"
    BY <2>2 DEF OneRequest, SingleRun, Active
  <2>4. /\ accepted /\ UNCHANGED <<accepted, delPc>>
        /\ \A h \in Finishers : finPc'[h] = "idle"
    BY <2>2 DEF OneRequest, reqVars, delVars
  <2>5. RunStep(r) /\ cancelled' = {}
    BY <2>1, RunCancels DEF Distribute
  <2>6. /\ runPc'[r] \in Undecided => status' = "uploading"
        /\ UNCHANGED status \/ status = "uploading"
    BY <1>1, <2>5, RunOutcome DEF Undecided, InLoop, At, rows
  <2>7. \A q \in Runs : runPc'[q] \in Undecided => status' = "uploading"
    BY <2>3, <2>6 DEF Undecided, InLoop
  <2> QED  BY <2>4, <2>5, <2>6, <2>7
<1>3. CASE \E k \in Deleters : Delete(k)
  <2>1. PICK k \in Deleters : Delete(k)  BY <1>3
  <2> HIDE DEF Uploading
  <2>2. DeletionTypeOK /\ delPc[k] \in ExpirePc
    BY DEF TypeOK, Uploading
  <2>3. /\ UNCHANGED <<runPc, finPc, accepted, cancelled>>
        /\ \A j \in Deleters : j = k
        /\ delPc'[k] \in ExpirePc
        /\ \/ status = "ready" /\ UNCHANGED status
           \/ delPc[k] # "idle" /\ UNCHANGED status
           \/ DelAt(k, "row") /\ DelAt(k, "idle")' /\ DeleteFile
    BY <2>1, <2>2, ExpireMoves DEF ExpireStep, reqVars, signals, DelAt, rows
  <2>4. delPc[k] # "idle" => status \in {"ready", "deleted"}
    BY DEF Uploading
  <2>5. CASE UNCHANGED status /\ (status = "ready" \/ delPc[k] # "idle")
    BY <2>3, <2>4, <2>5 DEF Uploading
  <2>6. CASE DelAt(k, "row") /\ DelAt(k, "idle")' /\ DeleteFile
    <3>1. status \in {"ready", "deleted"} /\ status' = "deleted"
      BY <2>4, <2>6 DEF DelAt, DeleteFile, RowExists
    <3> QED  BY <2>3, <2>6, <3>1 DEF Uploading
  <2> QED  BY <2>3, <2>5, <2>6
<1>4. CASE \E h \in Finishers : Finish(h)
  <2>1. PICK h \in Finishers : Finish(h)  BY <1>4
  <2>2. /\ UNCHANGED <<rows, delVars, cancelled>>
        /\ \A g \in Finishers : g # h => finPc'[g] = finPc[g]
        /\ FinishStarts(h) \/ UNCHANGED <<runPc, accepted>>
    BY <2>1, FinishFrame
  <2>3. status = "uploading"
    BY <2>1 DEF Finish, FinishRead, FinishStat, FinishMissing,
                FinishUnavailable, FinishStarts, FinishConflict
  <2> QED  BY <2>2, <2>3 DEF rows, delVars
<1>5. CASE Start
  <2>1. /\ UNCHANGED <<delVars, cancelled, runPc, finPc, accepted>>
        /\ status \in {"none", "uploading"} => status' \in {"none", "uploading"}
        /\ status = "uploading" => status' = "uploading"
        /\ status \in {"ready", "deleted"} => status' = status
    BY <1>5 DEF Start, StartRow, StartParts, StartFails, StartDir, CreateFile,
                CreatePendingParts, rows, distVars, signals
  <2> QED  BY <2>1 DEF delVars
<1>6. CASE (\E i \in Parts : Put(i)) \/ DayPasses \/ UNCHANGED vars
  <2>1. UNCHANGED <<rows, runPc, delVars, cancelled, finPc, accepted>>
    BY <1>6 DEF Put, PutRead, PutWrite, PutFails, PutOversize, DayPasses,
                reqVars, distVars, signals, vars
  <2> QED  BY <2>1 DEF rows, delVars
<1>7. ~Crash /\ ~Shutdown
  BY DEF Crash, Shutdown, TypeOK
<1> QED  BY <1>2, <1>3, <1>4, <1>5, <1>6, <1>7 DEF Next

LEMMA RunTraces ==
    ASSUME Traceless \cap Faults = {}, TypeOK, Counters, OneRequest, Tally,
           Fresh, Uploading, Traced, NEW r \in Runs, Distribute(r)
    PROVE  Traced'
<1>1. StoreTypeOK /\ LocalsTypeOK  BY DistTyping DEF TypeOK
<1>2. /\ \A q \in Runs : q # r => runPc'[q] = runPc[q] /\ ~Active(q)
      /\ UNCHANGED delVars
  BY <1>1, RunFrame DEF OneRequest, SingleRun
<1>3. RunStep(r)  BY DEF Distribute
<1>4. runPc[r] \in Undecided => \A k \in Deleters : delPc[k] = "idle"
  BY DEF Uploading
<1>5. \A q \in Runs : q # r => ~At(q, "add") /\ ~At(q, "add")'
  BY <1>2 DEF Active, At
<1>6. CASE Send(r)
  <2>1. /\ At(r, "send") /\ At(r, "add")' /\ UNCHANGED rows
        /\ live' = live \cup {runMsg'[r]}
    BY <1>1, <1>6 DEF Send, At, Goto, Deliver, LocalsTypeOK
  <2>2. InHand = {} /\ InHand' = {runMsg'[r]}
    BY <1>5, <2>1 DEF InHand, At
  <2>3. NoOrphan'
    BY <2>1, <2>2 DEF Traced, NoOrphan, Recorded, rows
  <2>4. \A k \in Deleters : delPc'[k] = "idle"
    BY <1>2, <1>4, <2>1 DEF At, Undecided, InLoop, delVars
  <2> QED  BY <2>3, <2>4 DEF Traced, DelAt
<1>7. CASE Record(r)
  <2>1. /\ At(r, "add") /\ ~At(r, "add")' /\ UNCHANGED live
        /\ partMsg' = [partMsg EXCEPT ![runIdx[r]] = runMsg[r]]
        /\ runIdx[r] \in Parts
    BY <1>1, <1>7 DEF Record, AddPart, At, Goto, telegram, LocalsTypeOK
  <2>2. partMsg[runIdx[r]] = NoMsg
    BY <2>1, PartCountAssumption DEF At, Fresh, Ahead, Missing, Parts
  <2>3. runMsg[r] # NoMsg
    BY <2>1 DEF Tally
  <2>4. InHand = {runMsg[r]} /\ InHand' = {}
    BY <1>5, <2>1 DEF InHand
  <2>5. Recorded' = Recorded \cup {runMsg[r]}
    BY <1>1, <2>1, <2>2, <2>3 DEF Recorded, StoreTypeOK
  <2>6. NoOrphan'
    BY <2>1, <2>4, <2>5 DEF Traced, NoOrphan
  <2>7. \A k \in Deleters : delPc'[k] = "idle"
    BY <1>2, <1>4, <2>1 DEF At, Undecided, InLoop, delVars
  <2> QED  BY <2>6, <2>7 DEF Traced, DelAt
<1>8. ~SendUnacknowledged(r) /\ ~RecordFails(r)
  BY DEF SendUnacknowledged, RecordFails, Traceless, Uploading, At, Undecided,
         InLoop, RowExists
<1>9. CASE /\ UNCHANGED <<partMsg, telegram>>
           /\ ~At(r, "add") /\ ~At(r, "add")'
  <2>1. InHand = {} /\ InHand' = {}
    BY <1>5, <1>9 DEF InHand
  <2> QED
    BY <1>2, <1>9, <2>1
       DEF Traced, NoOrphan, Recorded, telegram, delVars, DelAt
<1> QED  BY <1>1, <1>3, <1>6, <1>7, <1>8, <1>9, RunMessages

LEMMA Tracing ==
    ASSUME Deleters \subseteq {"expire"}, Traceless \cap Faults = {},
           MaxCrash = 0, Orderly, Fresh, Uploading, Traced, [Next]_vars
    PROVE  Traced'
<1> USE DEF Orderly
<1>1. LocalsTypeOK /\ DeletionTypeOK  BY DistTyping DEF TypeOK
<1>2. CASE \E r \in Runs : Distribute(r)
  BY <1>2, RunTraces
<1>3. CASE \E k \in Deleters : Delete(k)
  <2>1. PICK k \in Deleters : Delete(k)  BY <1>3
  <2>2. delPc[k] \in ExpirePc  BY DEF Uploading
  <2>3. /\ UNCHANGED <<runPc, locals>>
        /\ \A j \in Deleters : j = k
        /\ ExpireStep(k)
    BY <1>1, <2>1, <2>2, ExpireMoves DEF Traceless
  <2>4. UNCHANGED InHand  BY <2>3 DEF InHand, At, locals
  <2>5. UNCHANGED rows => UNCHANGED Recorded  BY DEF rows, Recorded
  <2>6. delPc[k] # "idle" => InHand = {}
    BY DEF Uploading, InHand, At, Undecided, InLoop
  <2> QED
    BY <2>3, <2>4, <2>5, <2>6 DEF ExpireStep, Traced, NoOrphan, DelAt
<1>4. CASE \E h \in Finishers : Finish(h)
  <2>1. PICK h \in Finishers : Finish(h)  BY <1>4
  <2>2. UNCHANGED <<rows, telegram, locals, delVars>>
    BY <2>1, FinishFrame
  <2>3. \A q \in Runs : At(q, "add") <=> At(q, "add")'
    <3>1. CASE FinishStarts(h)
      BY <1>1, <3>1 DEF FinishStarts, Spawn, Goto, At, LocalsTypeOK
    <3>2. CASE ~FinishStarts(h)
      BY <2>1, <3>2, FinishFrame DEF At
    <3> QED  BY <3>1, <3>2
  <2> QED
    BY <2>2, <2>3 DEF Traced, NoOrphan, InHand, Recorded, rows, telegram,
                      locals, delVars, DelAt
<1>5. CASE \/ Start
           \/ \E i \in Parts : Put(i)
           \/ DayPasses \/ UNCHANGED vars
  <2>1. UNCHANGED <<partMsg, runPc, locals, telegram, delVars>>
    BY <1>5 DEF Start, StartRow, StartParts, StartFails, StartDir, CreateFile,
                CreatePendingParts, Put, PutRead, PutWrite, PutFails,
                PutOversize, DayPasses, reqVars, distVars, rows, vars
  <2> QED
    BY <2>1 DEF Traced, NoOrphan, InHand, At, Recorded, telegram, locals,
                delVars, DelAt
<1>6. ~Crash /\ ~Shutdown
  BY DEF Crash, Shutdown, TypeOK, Traceless
<1> QED  BY <1>2, <1>3, <1>4, <1>5, <1>6 DEF Next

\* While replies and writes get through and nobody but the expiry deletes,
\* every message of the file is named by its parts or about to be; so the
\* rows suffice to delete all of them.
THEOREM NothingOrphaned ==
    ASSUME ~RepeatFinish, MaxCrash = 0, Deleters \subseteq {"expire"},
           Traceless \cap Faults = {}
    PROVE  Spec => []NoOrphan
<1>1. Init => Uploading /\ Traced
  BY DEF Init, DistInit, StoreInit, DeletionInit, Uploading, Traced, NoOrphan,
         DelAt, ExpirePc, Undecided, InLoop
<1>2. Orderly /\ Fresh /\ Uploading /\ Traced /\ [Next]_vars
         => Uploading' /\ Traced'
  BY KeepsUploading, Tracing DEF Orderly, Traceless
<1>3. Traced => NoOrphan
  BY DEF Traced
<1> QED  BY <1>1, <1>2, <1>3, OrderlyInvariant, FreshInvariant, PTL DEF Spec

-----------------------------------------------------------------------------
(* The row of a ready file goes last                                       *)

Closed == status \in {"ready", "failed", "deleted"}

\* No segment of a closed file will be sent or recorded any more: either the
\* temporary directory is empty, or nothing but the cleanup of the run that
\* closed it is left.
Sealed ==
    /\ Closed
    /\ \A i \in Parts : putPc[i] = "idle"
    /\ \A r \in Runs : ~At(r, "add")
    /\ tmpPart # {} =>
          /\ \A r \in Runs : runPc[r] \in {"idle", "clean"}
          /\ \/ \E r \in Runs : Active(r)
             \/ \A h \in Finishers : finPc[h] = "idle"

\* An expiry works on a sealed file, and its snapshot covers what is left of
\* the messages it can name.
Covered ==
    /\ status = "ready" => Sealed
    /\ \A k \in Deleters :
          /\ delPc[k] \in ExpirePc
          /\ delPc[k] # "idle" => Sealed
          /\ DelAt(k, "messages") /\ ~delFailed[k]
                => Recorded \cap live \subseteq delTodo[k]
          /\ DelAt(k, "row") => Recorded \cap live = {}

\* A sealed file stays sealed, and nothing is sent for it or recorded.
LEMMA StaysSealed ==
    ASSUME Deleters \subseteq {"expire"}, "dbread" \notin Faults,
           TypeOK, Marked, Sealed, [Next]_vars,
           \A k \in Deleters : delPc[k] \in ExpirePc
    PROVE  /\ Sealed'
           /\ \/ UNCHANGED <<partMsg, live>>
              \/ \E k \in Deleters : Delete(k)
<1>1. LocalsTypeOK /\ DeletionTypeOK  BY DistTyping DEF TypeOK
<1> USE DEF Sealed, Closed
<1>2. CASE \E r \in Runs : Distribute(r)
  <2>1. PICK r \in Runs : Distribute(r)  BY <1>2
  <2>2. /\ Active(r)
        /\ \A q \in Runs : q # r => runPc'[q] = runPc[q]
        /\ UNCHANGED <<putPc, finPc>>
    BY <1>1, <2>1, RunFrame DEF reqVars
  <2>3. RunStep(r)  BY <2>1 DEF Distribute
  <2>4. Closed'
    BY <1>1, <2>3, RunOutcome DEF rows
  <2>5. /\ UNCHANGED <<partMsg, telegram>>
        /\ ~At(r, "add") /\ ~At(r, "add")'
        /\ UNCHANGED tmpPart \/ tmpPart' = {}
    <3>1. ~Send(r) /\ ~SendUnacknowledged(r) /\ ~Record(r) /\ ~RecordFails(r)
      BY DEF Send, SendUnacknowledged, CanSend, Record, RecordFails, At
    <3>2. UNCHANGED tmpPart \/ tmpPart' = {}
      BY <2>3, <3>1
         DEF RunStep, Register, Guard, ReadPart, SkipPart, NoChannel, Lock,
             SendFails, Panic, Abandon, Bump, Wake, Interrupted, FailPart,
             FailFile, Conclude, CleanTmp, RemoveTmp, SafeRead, SafeFail,
             Finished, tmp
    <3> QED  BY <1>1, <2>3, <3>1, <3>2, RunMessages
  <2>6. \A q \in Runs : ~At(q, "add")'
    BY <2>2, <2>5 DEF At
  <2>7. tmpPart' = {}
    <3>1. CASE tmpPart = {}
      BY <2>5, <3>1
    <3>2. CASE tmpPart # {}
      <4>1. At(r, "clean")  BY <2>2, <3>2 DEF Active, At
      <4> QED
        BY <2>3, <4>1
           DEF RunStep, Register, Guard, ReadPart, SkipPart, NoChannel, Lock,
               Send, SendFails, SendUnacknowledged, Panic, Record, RecordFails,
               Bump, Wake, Interrupted, FailPart, FailFile, Conclude, CleanTmp,
               RemoveTmp, SafeRead, SafeFail, Finished, At
    <3> QED  BY <3>1, <3>2
  <2> QED  BY <2>2, <2>4, <2>5, <2>6, <2>7 DEF telegram
<1>3. CASE \E k \in Deleters : Delete(k)
  <2>1. PICK k \in Deleters : Delete(k)  BY <1>3
  <2>2. /\ UNCHANGED <<tmp, runPc, reqVars>>
        /\ UNCHANGED rows \/ DeleteFile
    BY <1>1, <2>1, ExpireMoves DEF ExpireStep
  <2>3. Closed'
    BY <2>2 DEF rows, DeleteFile
  <2> QED  BY <1>3, <2>2, <2>3 DEF tmp, reqVars, At, Active
<1>4. CASE \E h \in Finishers : Finish(h)
  <2>1. PICK h \in Finishers : Finish(h)  BY <1>4
  <2>2. /\ UNCHANGED <<rows, telegram, putPc>>
        /\ FinishStarts(h) \/ UNCHANGED runPc
    BY <2>1, FinishFrame
  <2>3. finPc[h] # "idle"
    BY <2>1 DEF Finish, FinishRead, FinishStat, FinishMissing,
                FinishUnavailable, FinishStarts, FinishConflict
  <2>4. CASE FinishStarts(h)
    <3>1. PICK r \in Runs : Spawn(r)  BY <2>4 DEF FinishStarts
    <3>2. tmpPart = {}
      BY <2>3, <2>4 DEF FinishStarts, Marked
    <3>3. tmpPart' = {} /\ \A q \in Runs : ~At(q, "add")'
      BY <1>1, <3>1, <3>2 DEF Spawn, Goto, At, LocalsTypeOK, tmp
    <3> QED  BY <2>2, <3>3 DEF rows, telegram
  <2>5. CASE ~FinishStarts(h)
    <3>1. tmpPart' = {} \/ UNCHANGED tmpPart
      BY <2>1, <2>5 DEF Finish, FinishRead, FinishStat, FinishMissing,
              FinishUnavailable, FinishConflict, FinishRefused, RemoveTmp,
              distVars, tmp
    <3>2. tmpPart # {} => \E r \in Runs : Active(r)
      BY <2>3
    <3> QED  BY <2>2, <2>5, <3>1, <3>2 DEF rows, telegram, At, Active
  <2> QED  BY <2>4, <2>5
<1>5. CASE Start \/ DayPasses \/ Shutdown \/ UNCHANGED vars
  <2>1. UNCHANGED <<runPc, putPc, finPc, tmpPart, live, partMsg>>
    BY <1>5 DEF Start, StartRow, StartParts, StartFails, StartDir, CreateFile,
                CreatePendingParts, DayPasses, Shutdown, reqVars, distVars,
                rows, vars, telegram, tmp
  <2>2. UNCHANGED status
    BY <1>5 DEF Start, StartRow, StartParts, StartFails, StartDir, CreateFile,
                CreatePendingParts, DayPasses, Shutdown, rows, vars
  <2> QED  BY <2>1, <2>2 DEF At, Active
<1>6. ~(\E i \in Parts : Put(i))
  BY DEF Put, PutRead, PutWrite, PutFails, PutOversize
<1>7. CASE Crash
  BY <1>7 DEF Crash, RemoveTmp, At, rows, telegram, tmp
<1> QED  BY <1>2, <1>3, <1>4, <1>5, <1>6, <1>7 DEF Next

LEMMA Covering ==
    ASSUME Deleters \subseteq {"expire"}, "dbread" \notin Faults,
           TypeOK, Marked, Sequential, Covered, [Next]_vars
    PROVE  Covered'
<1>1. LocalsTypeOK /\ DeletionTypeOK  BY DistTyping DEF TypeOK
<1>2. \A k \in Deleters : delPc[k] \in ExpirePc  BY DEF Covered
<1>3. status' = "ready" => Sealed'
  <2> SUFFICES ASSUME status' = "ready" PROVE Sealed'
    OBVIOUS
  <2>1. CASE status = "ready"
    BY <1>2, <2>1, StaysSealed DEF Covered
  <2>2. CASE status # "ready"
    <3>1. PICK r \in Runs : Conclude(r)  BY <2>2, ReadyStep
    <3>2. /\ Active(r) /\ runPc' = [runPc EXCEPT ![r] = "clean"]
          /\ UNCHANGED tmp
      BY <3>1 DEF Conclude, At, Goto, Active
    <3>3. \A q \in Runs : q # r => runPc[q] = "idle"
      BY <3>2 DEF Marked, SingleRun, Active
    <3>4. \A q \in Runs : runPc'[q] \in {"idle", "clean"}
      BY <1>1, <3>2, <3>3 DEF LocalsTypeOK
    <3>5. Active(r)'
      BY <1>1, <3>2 DEF Active, LocalsTypeOK
    <3>6. \A i \in Parts : putPc[i] = "idle"
      BY <3>2 DEF Sequential, FinishSent
    <3>7. UNCHANGED putPc
      <4>1. ~(\E i \in Parts : Put(i)) /\ ~Crash
        BY <2>2 DEF Put, PutRead, PutWrite, PutFails, PutOversize, Crash, rows
      <4>2. CASE \E q \in Runs : Distribute(q)
        BY <4>2 DEF Distribute, reqVars
      <4>3. CASE \E k \in Deleters : Delete(k)
        BY <4>3 DEF Delete, reqVars
      <4>4. CASE \E h \in Finishers : Finish(h)
        BY <4>4, FinishFrame
      <4>5. CASE Start \/ DayPasses \/ Shutdown \/ UNCHANGED vars
        BY <4>5 DEF Start, StartRow, StartParts, StartFails, StartDir,
                    DayPasses, Shutdown, reqVars, vars
      <4> QED  BY <4>1, <4>2, <4>3, <4>4, <4>5 DEF Next
    <3> QED  BY <3>4, <3>5, <3>6, <3>7 DEF Sealed, Closed, At
  <2> QED  BY <2>1, <2>2
<1>4. CASE \E k \in Deleters : Delete(k)
  <2>1. PICK k \in Deleters : Delete(k)  BY <1>4
  <2>2. /\ \A j \in Deleters : j = k
        /\ delPc'[k] \in ExpirePc
        /\ ExpireStep(k)
    BY <1>1, <1>2, <2>1, ExpireMoves
  <2>3. Sealed
    BY <2>2 DEF Covered, ExpireStep, DelAt
  <2>4. Sealed'
    BY <1>2, <2>3, StaysSealed
  <2>5. UNCHANGED rows => UNCHANGED Recorded  BY DEF rows, Recorded
  <2> QED
    BY <1>3, <2>2, <2>4, <2>5 DEF Covered, ExpireStep, DelAt
<1>5. CASE (\A k \in Deleters : ~Delete(k)) /\ ~Crash
  <2>1. UNCHANGED delVars
    <3>1. CASE \E q \in Runs : Distribute(q)
      BY <3>1 DEF Distribute
    <3>2. CASE \E h \in Finishers : Finish(h)
      BY <3>2, FinishFrame
    <3>3. CASE \E i \in Parts : Put(i)
      BY <3>3, PutFrame
    <3>4. CASE Start \/ DayPasses \/ Shutdown \/ UNCHANGED vars
      BY <3>4 DEF Start, StartRow, StartParts, StartFails, StartDir, DayPasses,
                  Shutdown, vars
    <3> QED  BY <1>5, <3>1, <3>2, <3>3, <3>4 DEF Next
  <2>2. (\E k \in Deleters : delPc[k] # "idle")
           => Sealed' /\ UNCHANGED <<partMsg, live>>
    BY <1>2, <1>5, StaysSealed DEF Covered
  <2> QED
    BY <1>3, <2>1, <2>2 DEF Covered, Recorded, delVars, DelAt
<1>6. CASE Crash
  <2>1. \A k \in Deleters : delPc'[k] = "idle"
    BY <1>6 DEF Crash
  <2> QED  BY <1>3, <2>1 DEF Covered, ExpirePc, DelAt
<1> QED  BY <1>4, <1>5, <1>6

\* Only the last statement of an expiry drops the row.
LEMMA DropStep ==
    ASSUME Deleters \subseteq {"expire"}, TypeOK, [Next]_vars,
           status = "ready", status' = "deleted"
    PROVE  \E k \in Deleters : DelAt(k, "row")
<1>1. LocalsTypeOK  BY DistTyping DEF TypeOK
<1>2. CASE \E r \in Runs : Distribute(r)
  BY <1>1, <1>2, RunOutcome DEF Distribute, rows
<1>3. CASE \E k \in Deleters : Delete(k)
  BY <1>3, DeleteFrame DEF rows
<1>4. CASE \E h \in Finishers : Finish(h)
  BY <1>4, FinishFrame DEF rows
<1>5. CASE Start \/ (\E i \in Parts : Put(i)) \/ DayPasses \/ Shutdown \/ Crash
           \/ UNCHANGED vars
  BY <1>5
     DEF Start, StartRow, StartParts, StartFails, StartDir, CreateFile,
         CreatePendingParts, Put, PutRead, PutWrite, PutFails, PutOversize,
         DayPasses, Shutdown, Crash, vars, rows
<1> QED  BY <1>2, <1>3, <1>4, <1>5 DEF Next

\* F-15: however often finish is repeated and the process restarted, and
\* whatever deletions Telegram refuses, expireFiles drops the row of a ready
\* file only when none of the messages it names is left.
THEOREM RowGoesLast ==
    ASSUME Deleters \subseteq {"expire"}, "dbread" \notin Faults, ~LatePut
    PROVE  Spec => DroppedClean
<1> DEFINE Inv == TypeOK /\ Counters /\ Marked /\ Sequential /\ Covered
<1>1. Init => Inv
  <2>1. Init => TypeOK /\ Counters  BY InitTyping
  <2>2. Init => Marked /\ Sequential /\ Covered
    BY DEF Init, DistInit, StoreInit, DeletionInit, Marked, SingleRun, Active,
           DelAt, Sequential, FinishSent, Covered, ExpirePc
  <2> QED  BY <2>1, <2>2
<1>2. Inv /\ [Next]_vars => Inv'
  BY StepTyping, Marking, StaysSequential, Covering
<1>3. Inv /\ [Next]_vars
         => (status = "ready" /\ status' = "deleted"
                => Recorded \cap live = {})
  BY DropStep DEF Covered
<1> QED  BY <1>1, <1>2, <1>3, PTL DEF Spec, DroppedClean

-----------------------------------------------------------------------------
(* A ready file can be downloaded                                          *)

\* s.mu serialises the sends and the AddPart that follows each.
Exclusive == \A r \in Runs : runPc[r] \in {"send", "add"} => mu = r

\* Telegram numbers the messages, so the one a run is about to record is new
\* to the rows and to every deleter.
Numbered ==
    /\ live \cup Recorded \subseteq 1 .. sent
    /\ \A k \in Deleters : delTodo[k] \subseteq 1 .. sent
    /\ \A r \in Runs :
          At(r, "add") => /\ runMsg[r] \in live \ Recorded
                          /\ \A k \in Deleters : runMsg[r] \notin delTodo[k]

\* A deleter between its snapshot and the drop of the row.
Doomed(k) ==
    \/ delPc[k] \in {"messages", "signal", "row"}
    \/ k = "sweep" /\ DelAt(k, "tmp")

\* Only a deleter that is going to drop the row takes a recorded message away.
Served ==
    /\ \A k \in Deleters : ~delFailed[k]
    /\ \/ ~RowExists
       \/ Recorded \subseteq live
       \/ \E k \in Deleters : Doomed(k)

LEMMA StaysExclusive ==
    ASSUME TypeOK, Exclusive, [Next]_vars
    PROVE  Exclusive'
<1>1. LocalsTypeOK  BY DistTyping DEF TypeOK
<1> USE DEF Exclusive
<1>2. CASE \E r \in Runs : Distribute(r)
  <2>1. PICK r \in Runs : Distribute(r)  BY <1>2
  <2>2. /\ RunStep(r)
        /\ \A q \in Runs : q # r => runPc'[q] = runPc[q]
    BY <1>1, <2>1, RunFrame DEF Distribute
  <2>3. \/ mu = NoRun /\ mu' = r
        \/ runPc[r] \in {"send", "add"} /\ runPc'[r] \notin {"send", "add"}
        \/ /\ UNCHANGED mu
           /\ runPc'[r] \in {"send", "add"} => runPc[r] \in {"send", "add"}
    <3> USE <1>1 DEF LocalsTypeOK, At, Goto
    <3>1. CASE \/ Send(r) \/ SendFails(r) \/ SendUnacknowledged(r) \/ Panic(r)
               \/ Record(r) \/ RecordFails(r) \/ Lock(r)
      BY <3>1 DEF Send, SendFails, SendUnacknowledged, Panic, Record,
                  RecordFails, Abandon, Lock
    <3>2. CASE \/ Register(r) \/ Guard(r) \/ ReadPart(r) \/ SkipPart(r)
               \/ NoChannel(r) \/ Bump(r) \/ Wake(r) \/ Interrupted(r)
      BY <3>2 DEF Register, Guard, ReadPart, SkipPart, NoChannel, Bump, Wake,
                  Interrupted
    <3>3. CASE \/ FailPart(r) \/ FailFile(r) \/ Conclude(r) \/ CleanTmp(r)
               \/ SafeRead(r) \/ SafeFail(r) \/ Finished(r)
      BY <3>3 DEF FailPart, FailFile, Conclude, CleanTmp, SafeRead, SafeFail,
                  Finished
    <3> QED  BY <2>2, <3>1, <3>2, <3>3 DEF RunStep
  <2> QED  BY <2>2, <2>3, RunsAssumption
<1>3. CASE \E k \in Deleters : Delete(k)
  <2>1. UNCHANGED <<runPc, mu>>  BY <1>3, DeleteFrame
  <2> QED  BY <2>1
<1>4. CASE \E h \in Finishers : Finish(h)
  <2>1. PICK h \in Finishers : Finish(h)  BY <1>4
  <2>2. UNCHANGED mu  BY <2>1, FinishFrame
  <2>3. \A q \in Runs : runPc'[q] = runPc[q] \/ runPc'[q] = "spawned"
    <3>1. CASE FinishStarts(h)
      BY <1>1, <3>1 DEF FinishStarts, Spawn, Goto, LocalsTypeOK
    <3>2. CASE ~FinishStarts(h)
      BY <2>1, <3>2, FinishFrame
    <3> QED  BY <3>1, <3>2
  <2> QED  BY <2>2, <2>3
<1>5. CASE \/ Start \/ \E i \in Parts : Put(i)
           \/ DayPasses \/ Shutdown \/ UNCHANGED vars
  <2>1. UNCHANGED <<runPc, mu>>
    BY <1>5 DEF Start, StartRow, StartParts, StartFails, StartDir, Put, PutRead,
                PutWrite, PutFails, PutOversize, DayPasses, Shutdown, distVars,
                vars
  <2> QED  BY <2>1
<1>6. CASE Crash
  BY <1>6 DEF Crash
<1> QED  BY <1>2, <1>3, <1>4, <1>5, <1>6 DEF Next

\* What a deleter does to the messages and the row.
LEMMA DeleteMoves ==
    ASSUME "delete" \notin Faults, "dbwrite" \notin Faults,
           DeletionTypeOK, NEW k \in Deleters, ~delFailed[k], Delete(k)
    PROVE  /\ UNCHANGED <<runPc, locals, sent>>
           /\ ~delFailed'[k]
           /\ \A j \in Deleters : j # k =>
                 /\ delPc'[j] = delPc[j] /\ delTodo'[j] = delTodo[j]
                 /\ delFailed'[j] = delFailed[j]
           /\ delTodo'[k] \subseteq delTodo[k] \cup Recorded
           /\ live' \subseteq live /\ live \ live' \subseteq delTodo[k]
           /\ UNCHANGED live \/ Doomed(k)'
           /\ Doomed(k) => Doomed(k)' \/ ~RowExists'
           /\ UNCHANGED rows \/ (~RowExists' /\ Recorded' = {})
<1> USE DEF Delete, DeletionTypeOK, DelAt, DelGoto, distVars, telegram, Doomed
<1>1. CASE \/ DelRead(k) \/ CancelOther(k) \/ SweepOrphanDir(k)
           \/ DelGetParts(k) \/ DelGetPartsFails(k)
  BY <1>1 DEF DelRead, CancelOther, SweepOrphanDir, DelGetParts,
              DelGetPartsFails, KeepsRowOnFailure, delVars
<1>2. CASE \/ DelMessage(k) \/ DelMessageFails(k) \/ DelMessageNoChannel(k)
  BY <1>2 DEF DelMessage, DelMessageFails, DelMessageNoChannel
<1>3. CASE DelMessagesDone(k) \/ CancelSignal(k)
  BY <1>3 DEF DelMessagesDone, CancelSignal, AfterMessages, KeepsRowOnFailure
<1>4. CASE DelRow(k)
  <2>1. ~RowExists' /\ Recorded' = {}
    BY <1>4 DEF DelRow, Attempt, DeleteFile, RowExists, Recorded
  <2> QED  BY <1>4, <2>1 DEF DelRow
<1>5. CASE CancelUnlock(k) \/ DelTmp(k)
  BY <1>5 DEF CancelUnlock, DelTmp
<1> QED  BY <1>1, <1>2, <1>3, <1>4, <1>5 DEF DelStep

LEMMA RunServes ==
    ASSUME TypeOK, Counters, Exclusive, Numbered, Served, NEW r \in Runs,
           Distribute(r)
    PROVE  Numbered' /\ Served'
<1>1. StoreTypeOK /\ LocalsTypeOK  BY DistTyping DEF TypeOK
<1>2. /\ \A q \in Runs : q # r => runPc'[q] = runPc[q] /\ runMsg'[q] = runMsg[q]
      /\ UNCHANGED delVars
  BY <1>1, RunFrame
<1>3. RunStep(r)  BY DEF Distribute
<1>4. sent \in Nat  BY DEF TypeOK, DistTypeOK
<1>5. runPc[r] \in {"send", "add"} => \A q \in Runs : q # r => ~At(q, "add")
  BY DEF Exclusive, At
<1>6. Served <=> /\ \A k \in Deleters : ~delFailed[k]
                 /\ \/ ~RowExists
                    \/ Recorded \subseteq live
                    \/ \E k \in Deleters : Doomed(k)
  BY DEF Served
<1>7. \A k \in Deleters : UNCHANGED <<Doomed(k), delFailed[k], delTodo[k]>>
  BY <1>2 DEF Doomed, delVars, DelAt
<1>8. RowExists' => RowExists
  BY <1>3
     DEF RunStep, Register, Guard, ReadPart, SkipPart, NoChannel, Lock, Send,
         SendFails, SendUnacknowledged, Panic, Abandon, Record, RecordFails,
         Bump, Wake, Interrupted, FailPart, FailFile, Conclude, CleanTmp,
         SafeRead, SafeFail, Finished, Attempt, AddPart, BumpDoneParts,
         MarkPartFailed, SetFileFailed, SetReady, RowExists, rows
<1>9. CASE Send(r) \/ SendUnacknowledged(r)
  <2>1. /\ At(r, "send") /\ UNCHANGED rows
        /\ sent' = sent + 1 /\ live' = live \cup {sent + 1}
        /\ At(r, "add")' => runMsg'[r] = sent + 1
    BY <1>1, <1>9 DEF Send, SendUnacknowledged, Abandon, Deliver, At, Goto,
       LocalsTypeOK
  <2>2. UNCHANGED Recorded  BY <2>1 DEF Recorded, rows
  <2>3. \A q \in Runs : q # r => ~At(q, "add")'
    BY <1>2, <1>5, <2>1 DEF At
  <2>4. Numbered'
    BY <1>4, <1>7, <2>1, <2>2, <2>3 DEF Numbered
  <2>5. Served'
    BY <1>6, <1>7, <1>8, <2>1, <2>2 DEF Served
  <2> QED  BY <2>4, <2>5
<1>10. CASE Record(r)
  <2>1. /\ At(r, "add") /\ ~At(r, "add")' /\ UNCHANGED <<telegram, runMsg>>
        /\ Recorded' \subseteq Recorded \cup {runMsg[r]}
    BY <1>1, <1>10
       DEF Record, AddPart, Recorded, At, Goto, LocalsTypeOK, StoreTypeOK,
           locals
  <2>2. runMsg[r] \in live  BY <2>1 DEF Numbered
  <2>3. \A q \in Runs : ~At(q, "add")'
    BY <1>2, <1>5, <2>1 DEF At
  <2>4. Numbered'
    BY <1>7, <2>1, <2>2, <2>3 DEF Numbered, telegram
  <2>5. Served'
    BY <1>6, <1>7, <1>8, <2>1, <2>2 DEF Served, telegram
  <2> QED  BY <2>4, <2>5
<1>11. CASE /\ UNCHANGED <<partMsg, telegram>>
            /\ ~At(r, "add") /\ ~At(r, "add")'
  <2>1. UNCHANGED Recorded  BY <1>11 DEF Recorded
  <2>2. \A q \in Runs :
           At(q, "add")' => At(q, "add") /\ runMsg'[q] = runMsg[q]
    BY <1>2, <1>11 DEF At
  <2>3. Numbered'
    BY <1>7, <1>11, <2>1, <2>2 DEF Numbered, telegram
  <2>4. Served'
    BY <1>6, <1>7, <1>8, <1>11, <2>1 DEF Served, telegram
  <2> QED  BY <2>3, <2>4
<1>12. CASE RecordFails(r)
  <2>1. /\ UNCHANGED <<rows, telegram>> /\ At(r, "add") /\ ~At(r, "add")'
    BY <1>1, <1>12 DEF RecordFails, Abandon, At, Goto, LocalsTypeOK
  <2>2. UNCHANGED Recorded  BY <2>1 DEF Recorded, rows
  <2>3. \A q \in Runs : ~At(q, "add")'
    BY <1>2, <1>5, <2>1 DEF At
  <2>4. Numbered'
    BY <1>7, <2>1, <2>2, <2>3 DEF Numbered, telegram
  <2>5. Served'
    BY <1>6, <1>7, <1>8, <2>1, <2>2 DEF Served, telegram
  <2> QED  BY <2>4, <2>5
<1> QED  BY <1>1, <1>3, <1>9, <1>10, <1>11, <1>12, RunMessages

LEMMA Serving ==
    ASSUME "delete" \notin Faults, "dbwrite" \notin Faults, MaxCrash = 0,
           TypeOK, Counters, NoGhost, Exclusive, Numbered, Served, [Next]_vars
    PROVE  Numbered' /\ Served'
<1>1. StoreTypeOK /\ LocalsTypeOK /\ DeletionTypeOK  BY DistTyping DEF TypeOK
<1>2. CASE \E r \in Runs : Distribute(r)
  BY <1>2, RunServes
<1>3. CASE \E k \in Deleters : Delete(k)
  <2>1. PICK k \in Deleters : Delete(k)  BY <1>3
  <2>2. ~delFailed[k]  BY DEF Served
  <2>3. /\ UNCHANGED <<runPc, locals, sent>>
        /\ ~delFailed'[k]
        /\ \A j \in Deleters : j # k =>
              /\ delPc'[j] = delPc[j] /\ delTodo'[j] = delTodo[j]
              /\ delFailed'[j] = delFailed[j]
        /\ delTodo'[k] \subseteq delTodo[k] \cup Recorded
        /\ live' \subseteq live /\ live \ live' \subseteq delTodo[k]
        /\ UNCHANGED live \/ Doomed(k)'
        /\ Doomed(k) => Doomed(k)' \/ ~RowExists'
        /\ UNCHANGED rows \/ (~RowExists' /\ Recorded' = {})
    BY <1>1, <2>1, <2>2, DeleteMoves
  <2>4. Recorded' \subseteq Recorded
    BY <2>3 DEF Recorded, rows
  <2>5. \A j \in Deleters : j # k => UNCHANGED Doomed(j)
    BY <2>3 DEF Doomed, DelAt
  <2>6. Numbered'
    <3>1. live' \cup Recorded' \subseteq 1 .. sent
      BY <2>3, <2>4 DEF Numbered
    <3>2. \A j \in Deleters : delTodo'[j] \subseteq 1 .. sent
      BY <2>3 DEF Numbered
    <3>3. ASSUME NEW r \in Runs, At(r, "add")'
          PROVE  /\ runMsg'[r] \in live' \ Recorded'
                 /\ \A j \in Deleters : runMsg'[r] \notin delTodo'[j]
      <4>1. At(r, "add") /\ runMsg'[r] = runMsg[r]
        BY <2>3, <3>3 DEF At, locals
      <4> QED  BY <2>3, <2>4, <4>1 DEF Numbered
    <3> QED  BY <2>3, <3>1, <3>2, <3>3 DEF Numbered
  <2>7. Served'
    <3>1. \A j \in Deleters : ~delFailed'[j]
      BY <2>3 DEF Served
    <3>2. CASE UNCHANGED rows
      <4>1. UNCHANGED <<RowExists, Recorded>>
        BY <3>2 DEF rows, RowExists, Recorded
      <4> QED  BY <2>3, <2>5, <3>1, <4>1 DEF Served
    <3>3. CASE ~RowExists'
      BY <3>1, <3>3 DEF Served
    <3> QED  BY <2>3, <3>2, <3>3
  <2> QED  BY <2>6, <2>7
<1>4. CASE \E h \in Finishers : Finish(h)
  <2>1. PICK h \in Finishers : Finish(h)  BY <1>4
  <2>2. UNCHANGED <<rows, telegram, locals, delVars>>
    BY <2>1, FinishFrame
  <2>3. \A q \in Runs : At(q, "add")' => At(q, "add")
    <3>1. CASE FinishStarts(h)
      BY <1>1, <3>1 DEF FinishStarts, Spawn, Goto, At, LocalsTypeOK
    <3>2. CASE ~FinishStarts(h)
      BY <2>1, <3>2, FinishFrame DEF At
    <3> QED  BY <3>1, <3>2
  <2> QED
    BY <2>2, <2>3 DEF Numbered, Served, Recorded, RowExists, Doomed, DelAt,
                      rows, telegram, locals, delVars
<1>5. CASE StartRow
  <2>1. /\ UNCHANGED <<partMsg, runPc, locals, telegram, delVars>>
        /\ ~RowExists
    BY <1>5 DEF StartRow, CreateFile, RowExists, distVars
  <2>2. Recorded = {} /\ Recorded' = {}
    BY <2>1 DEF NoGhost, Recorded
  <2> QED  BY <2>1, <2>2 DEF Numbered, Served, At, telegram, locals, delVars
<1>6. CASE \/ StartParts \/ StartFails \/ StartDir
           \/ \E i \in Parts : Put(i)
           \/ DayPasses \/ Shutdown \/ UNCHANGED vars
  <2>1. UNCHANGED <<status, partMsg, runPc, locals, telegram, delVars>>
    BY <1>6 DEF StartParts, StartFails, StartDir, CreatePendingParts, Put,
                PutRead, PutWrite, PutFails, PutOversize, DayPasses, Shutdown,
                reqVars, distVars, rows, vars
  <2> QED
    BY <2>1 DEF Numbered, Served, Recorded, RowExists, Doomed, DelAt, At,
                telegram, locals, delVars
<1>7. ~Crash
  BY DEF Crash, TypeOK
<1> QED  BY <1>2, <1>3, <1>4, <1>5, <1>6, <1>7 DEF Next, Start

\* A ready file that no deletion is working on can be downloaded: whatever the
\* client repeats and whichever deleters run into each other or into a
\* distribution, a message is taken from a file only on the way to dropping
\* its row, and none is recorded after it was taken.
THEOREM ReadyIsServable ==
    ASSUME "delete" \notin Faults, "dbwrite" \notin Faults, MaxCrash = 0
    PROVE  Spec => []ReadyServable
<1> DEFINE Inv == TypeOK /\ Counters /\ Exclusive /\ Numbered /\ Served
<1>1. Init => Inv
  <2>1. Init => TypeOK /\ Counters  BY InitTyping
  <2>2. Init => Exclusive /\ Numbered /\ Served
    BY DEF Init, DistInit, StoreInit, DeletionInit, Exclusive, Numbered, Served,
           Recorded, RowExists, At
  <2> QED  BY <2>1, <2>2
<1>2. Inv /\ NoGhost /\ [Next]_vars => Inv'
  BY StepTyping, StaysExclusive, Serving
<1>3. Inv => ReadyServable
  BY DEF Served, ReadyServable, RowExists, Doomed, DelAt
<1> QED  BY <1>1, <1>2, <1>3, NothingOutlives, PTL DEF Spec
=============================================================================
