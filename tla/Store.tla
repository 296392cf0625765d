------------------------------- MODULE Store -------------------------------
(***************************************************************************)
(* The rows PostgreSQL keeps for one share token: the `files` row and the  *)
(* `parts` rows under it (internal/storage).  Every operator below is one  *)
(* SQL statement, hence one atomic step.  A statement addressed to a row   *)
(* that is gone changes nothing, except an INSERT into parts, which the    *)
(* foreign key refuses.                                                    *)
(***************************************************************************)
EXTENDS Integers

CONSTANTS
    PartCount,   \* files.part_count, fixed when the upload starts
    MaxMsg       \* bound: how many Telegram messages are ever sent

ASSUME PartCountAssumption == PartCount \in Nat \ {0}
ASSUME MaxMsgAssumption == MaxMsg \in Nat

VARIABLES
    status,      \* files.status; "none" before the row, "deleted" after it
    doneParts,   \* files.done_parts
    partSt,      \* parts.status by part_index; "absent" when there is no row
    partMsg      \* parts.telegram_msg_id by part_index

rows == <<status, doneParts, partSt, partMsg>>

Parts == 0 .. (PartCount - 1)
Msg == 1 .. MaxMsg
NoMsg == 0                            \* SQL NULL

FileStatus == {"none", "uploading", "ready", "failed", "deleted"}
PartStatus == {"absent", "pending", "uploaded", "failed"}

StoreTypeOK ==
    /\ status \in FileStatus
    /\ doneParts \in Nat
    /\ partSt \in [Parts -> PartStatus]
    /\ partMsg \in [Parts -> Msg \cup {NoMsg}]

StoreInit ==
    /\ status = "none"
    /\ doneParts = 0
    /\ partSt = [i \in Parts |-> "absent"]
    /\ partMsg = [i \in Parts |-> NoMsg]

RowExists == status \in {"uploading", "ready", "failed"}

CreateFile ==
    /\ status = "none"
    /\ status' = "uploading"
    /\ UNCHANGED <<doneParts, partSt, partMsg>>

\* generate_series inserts all the rows or, if the file row is gone, none.
CreatePendingParts ==
    /\ RowExists
    /\ partSt' = [i \in Parts |-> "pending"]
    /\ UNCHANGED <<status, doneParts, partMsg>>

SetReady ==
    /\ status' = IF RowExists THEN "ready" ELSE status
    /\ doneParts' = IF RowExists THEN PartCount ELSE doneParts
    /\ UNCHANGED <<partSt, partMsg>>

SetFileFailed ==
    /\ status' = IF RowExists THEN "failed" ELSE status
    /\ UNCHANGED <<doneParts, partSt, partMsg>>

BumpDoneParts ==
    /\ doneParts' = IF RowExists THEN doneParts + 1 ELSE doneParts
    /\ UNCHANGED <<status, partSt, partMsg>>

MarkPartFailed(i) ==
    /\ partSt' = [partSt EXCEPT ![i] = IF @ = "absent" THEN @ ELSE "failed"]
    /\ UNCHANGED <<status, doneParts, partMsg>>

\* Mutant: no foreign key, so the upsert revives a part of a deleted file.
AddPart_NoForeignKey(i, m) ==
    /\ partSt' = [partSt EXCEPT ![i] = "uploaded"]
    /\ partMsg' = [partMsg EXCEPT ![i] = m]
    /\ UNCHANGED <<status, doneParts>>

\* Mutant: ON CONFLICT DO NOTHING, the pending row wins.
AddPart_DoNothing(i, m) ==
    /\ RowExists
    /\ UNCHANGED rows

\* Upsert: an earlier telegram_msg_id of this part is overwritten.
AddPart(i, m) ==
    /\ RowExists
    /\ partSt' = [partSt EXCEPT ![i] = "uploaded"]
    /\ partMsg' = [partMsg EXCEPT ![i] = m]
    /\ UNCHANGED <<status, doneParts>>

\* ON DELETE CASCADE: the message ids go with the row.
DeleteFile ==
    /\ status' = IF RowExists THEN "deleted" ELSE status
    /\ partSt' = [i \in Parts |-> "absent"]
    /\ partMsg' = [i \in Parts |-> NoMsg]
    /\ UNCHANGED doneParts

\* The messages the parts rows name: what GetParts hands a deleter.
Recorded == {partMsg[i] : i \in Parts} \ {NoMsg}
=============================================================================
