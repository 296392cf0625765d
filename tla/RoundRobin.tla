----------------------------- MODULE RoundRobin -----------------------------
(***************************************************************************)
(* PickUploadChannelsBalanced (internal/storage/roundrobin.go), statement  *)
(* by statement: several finish requests, of different files, draw from    *)
(* the counter `next_channel_index` of the meta table, each in a           *)
(* transaction of its own at PostgreSQL's default isolation level.         *)
(***************************************************************************)
EXTENDS Integers, Sequences, FiniteSets

CONSTANTS
    Callers,     \* concurrent callers
    NoCaller,
    Channels,    \* len(channelIDs)
    Sizes,       \* the part counts files may have
    Stored,      \* what the meta row may hold at first; {} if it is missing
    MaxCount     \* bound: no call begins once the counter is there

Absent == -1     \* no such row

ASSUME CallersAssumption == NoCaller \notin Callers
ASSUME ChannelsAssumption == Channels \in Nat \ {0}
ASSUME SizesAssumption == Sizes \subseteq Nat \ {0}
ASSUME StoredAssumption == Stored \subseteq Nat
ASSUME MaxCountAssumption == MaxCount \in Nat

VARIABLES
    meta,        \* the committed value of the row, or Absent
    lock,        \* the transaction that has locked the row or its key
    pc,          \* where each caller stands
    size,        \* its partCount
    start,       \* the counter as it read it
    dealt        \* the plans returned: first slot and number of parts

vars == <<meta, lock, pc, size, start, dealt>>

DealtTypeOK == dealt \in Seq([first : Nat, parts : Sizes])

TypeOK ==
    /\ meta \in Nat \cup {Absent}
    /\ lock \in Callers \cup {NoCaller}
    /\ pc \in [Callers -> {"idle", "select", "upsert", "commit"}]
    /\ size \in [Callers -> Sizes \cup {0}]
    /\ start \in [Callers -> Nat]
    /\ DealtTypeOK

Init ==
    /\ meta \in IF Stored = {} THEN {Absent} ELSE Stored
    /\ lock = NoCaller
    /\ pc = [c \in Callers |-> "idle"]
    /\ size = [c \in Callers |-> 0]
    /\ start = [c \in Callers |-> 0]
    /\ dealt = <<>>

At(c, p) == pc[c] = p
Goto(c, p) == pc' = [pc EXCEPT ![c] = p]

\* Mutant: every file starts at the first channel.
PlanOf_FromFirst(first, k) == [i \in 0 .. (k - 1) |-> i % Channels]

\* The channel of each part of a file that was dealt k slots from `first`.
PlanOf(first, k) ==
    LET base == first % Channels
    IN  [i \in 0 .. (k - 1) |-> (base + i) % Channels]

\* A transaction ends: its row lock goes, and its locals with the call.
Unlock(c) ==
    /\ lock' = IF lock = c THEN NoCaller ELSE lock
    /\ size' = [size EXCEPT ![c] = 0]
    /\ start' = [start EXCEPT ![c] = 0]
    /\ Goto(c, "idle")

\* Mutant: called while part_count is still 0.
Begin_NoParts(c) ==
    /\ At(c, "idle")
    /\ meta < MaxCount
    /\ \E k \in Sizes \cup {0} : size' = [size EXCEPT ![c] = k]
    /\ Goto(c, "select")
    /\ UNCHANGED <<meta, lock, start, dealt>>

Begin(c) ==
    /\ At(c, "idle")
    /\ meta < MaxCount
    /\ \E k \in Sizes : size' = [size EXCEPT ![c] = k]
    /\ Goto(c, "select")
    /\ UNCHANGED <<meta, lock, start, dealt>>

\* Mutant: SELECT without FOR UPDATE.
Select_Unlocked(c) ==
    /\ At(c, "select")
    /\ start' = [start EXCEPT ![c] = IF meta = Absent THEN 0 ELSE meta]
    /\ Goto(c, "upsert")
    /\ UNCHANGED <<meta, lock, size, dealt>>

\* SELECT ... FOR UPDATE waits for the row's lock and then reads its latest
\* committed value.  It cannot lock a row that is not there, nor see one that
\* another transaction has inserted and not committed.
Select(c) ==
    /\ At(c, "select")
    /\ \/ /\ meta # Absent
          /\ lock = NoCaller
          /\ lock' = c
          /\ start' = [start EXCEPT ![c] = meta]
       \/ /\ meta = Absent
          /\ start' = [start EXCEPT ![c] = 0]
          /\ UNCHANGED lock
    /\ Goto(c, "upsert")
    /\ UNCHANGED <<meta, size, dealt>>

\* INSERT ... ON CONFLICT DO UPDATE waits for whoever holds the key.
Upsert(c) ==
    /\ At(c, "upsert")
    /\ lock \in {c, NoCaller}
    /\ lock' = c
    /\ Goto(c, "commit")
    /\ UNCHANGED <<meta, size, start, dealt>>

Commit(c) ==
    /\ At(c, "commit")
    /\ meta' = start[c] + size[c]
    /\ dealt' = Append(dealt, [first |-> start[c], parts |-> size[c]])
    /\ Unlock(c)

\* COMMIT took effect, but the caller sees an error.
CommitLost(c) ==
    /\ At(c, "commit")
    /\ meta' = start[c] + size[c]
    /\ Unlock(c)
    /\ UNCHANGED dealt

\* Mutant: an error return that forgets the transaction.
Abort_KeepsLock(c) ==
    /\ ~At(c, "idle")
    /\ Goto(c, "idle")
    /\ size' = [size EXCEPT ![c] = 0]
    /\ start' = [start EXCEPT ![c] = 0]
    /\ UNCHANGED <<meta, lock, dealt>>

\* A statement fails, or the process dies: the deferred Rollback.
Abort(c) ==
    /\ ~At(c, "idle")
    /\ Unlock(c)
    /\ UNCHANGED <<meta, dealt>>

Pick(c) ==
    \/ Begin(c) \/ Select(c) \/ Upsert(c)
    \/ Commit(c) \/ CommitLost(c) \/ Abort(c)

Next == \E c \in Callers : Pick(c)

Spec == Init /\ [][Next]_vars

-----------------------------------------------------------------------------

\* The parts of all the files dealt so far, by channel.
Parts == UNION {{j} \X (0 .. (dealt[j].parts - 1)) : j \in DOMAIN dealt}
Load(ch) ==
    Cardinality({p \in Parts :
                   PlanOf(dealt[p[1]].first, dealt[p[1]].parts)[p[2]] = ch})

\* Slots inside the rotation that went to no file: their COMMIT was lost.
End(deal) == deal.first + deal.parts
Missed ==
    IF dealt = <<>>
    THEN 0
    ELSE End(dealt[Len(dealt)]) - dealt[1].first - Cardinality(Parts)

\* "In turn and EQUALLY": no channel is ever two parts ahead of another, but
\* for the slots nobody learned they had.
Balanced ==
    \A a, b \in 0 .. (Channels - 1) : Load(a) <= Load(b) + 1 + Missed

\* Whoever has locked the row is in a transaction, so waiters get their turn.
LockHeldOpen ==
    lock # NoCaller => pc[lock] \in {"upsert", "commit"}

\* The transactions together make indivisible deals.
Dealer == INSTANCE Dealing WITH next <- IF meta = Absent THEN 0 ELSE meta
Deals == Dealer!Spec

\* No slot of the rotation goes to two files.
Disjoint == Dealer!Disjoint
=============================================================================
