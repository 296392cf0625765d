------------------------------- MODULE Fleet -------------------------------
(***************************************************************************)
(* The growth of the channel fleet (internal/tgworker/channels.go).        *)
(* EnsureFleet runs once at startup (main.go) and once for the first       *)
(* upload (internal/httpapi/server.go); EnsureDailyChannel runs from the   *)
(* daily job (internal/scheduler) and on an administrator's request.  All  *)
(* of them share the service mutex s.mu and the table `channels`.  Days    *)
(* are numbered; a call of Telegram or of the database is one step.        *)
(***************************************************************************)
EXTENDS Integers, Sequences, FiniteSetsExt, Functions

CONSTANTS
    Bootstrappers, \* callers of EnsureFleet
    Dailies,       \* callers of EnsureDailyChannel
    Nobody,
    Target,        \* BOOTSTRAP_CHANNELS, at least 1
    Founded,       \* created_day of the channels there are at first
    FirstDay,      \* the day it is at first
    LastDay,       \* bound: the last day of the model
    Faults,        \* what may fail: "net", "dbread", "dbwrite"
    MaxCrash       \* bound: how many times the process is restarted

ASSUME CallersAssumption ==
    /\ Nobody \notin Bootstrappers \cup Dailies
    /\ Bootstrappers \cap Dailies = {}
ASSUME TargetAssumption == Target \in Nat \ {0}
ASSUME DaysAssumption ==
    /\ FirstDay \in Int /\ LastDay \in Int
    /\ IsFiniteSet(Founded) /\ Founded \subseteq Int
ASSUME FaultsAssumption == Faults \subseteq {"net", "dbread", "dbwrite"}
ASSUME MaxCrashAssumption == MaxCrash \in Nat

Callers == Bootstrappers \cup Dailies

VARIABLES
    channels,  \* the table: created_day by id
    today,     \* todayLocal()
    mu,        \* Service.mu
    booted,    \* the bootstrappers that have had their one run
    pc, day, plan, crashes

vars == <<channels, today, mu, booted, pc, day, plan, crashes>>

\* "boot..." is the loop of bootstrapChannels, the others EnsureDailyChannel;
\* createChannelLocked stands at "create" and "insert" of either.
Pc == {"idle", "count", "list", "check", "bootlock", "bootcreate",
       "bootinsert", "day", "lock", "exists", "create", "insert"}

TypeOK ==
    /\ channels \in Seq(Int)
    /\ today \in Int
    /\ mu \in Callers \cup {Nobody}
    /\ booted \subseteq Bootstrappers
    /\ pc \in [Callers -> Pc]
    /\ day \in [Callers -> Int]
    /\ plan \in [Callers -> SUBSET Int]
    /\ crashes \in 0 .. MaxCrash

Init ==
    /\ channels \in Injection(1 .. Cardinality(Founded), Founded)
    /\ today = FirstDay
    /\ mu = Nobody
    /\ booted = {}
    /\ pc = [c \in Callers |-> "idle"]
    /\ day = [c \in Callers |-> FirstDay]
    /\ plan = [c \in Callers |-> {}]
    /\ crashes = 0

At(c, p) == pc[c] = p
Goto(c, p) == pc' = [pc EXCEPT ![c] = p]

\* The latest `Target` days up to today that have no channel.
Missing(used) ==
    {d \in ((today - Target - Cardinality(used)) .. today) \ used :
        Cardinality(((d + 1) .. today) \ used) < Target}

-----------------------------------------------------------------------------
(* bootstrapChannels                                                       *)

\* Mutant: the daily job, too, calls EnsureFleet.
EnsureFleet_AnyCaller(c) ==
    /\ c \notin booted
    /\ At(c, "idle")
    /\ booted' = booted \cup {c}
    /\ Goto(c, "count")
    /\ UNCHANGED <<channels, today, mu, day, plan, crashes>>

EnsureFleet(c) ==
    /\ c \in Bootstrappers \ booted
    /\ At(c, "idle")
    /\ booted' = booted \cup {c}
    /\ Goto(c, "count")
    /\ UNCHANGED <<channels, today, mu, day, plan, crashes>>

\* Mutant: a fleet that is not empty is filled up to the target.
Count_NoPeg(c) ==
    /\ At(c, "count")
    /\ \/ Goto(c, "list")
       \/ "dbread" \in Faults /\ Goto(c, "day")
    /\ UNCHANGED <<channels, today, mu, booted, day, plan, crashes>>

\* A fleet that is not empty is left alone; so is one that cannot be read.
Count(c) ==
    /\ At(c, "count")
    /\ \/ channels = <<>> /\ Goto(c, "list")
       \/ /\ channels # <<>> \/ "dbread" \in Faults
          /\ Goto(c, "day")
    /\ UNCHANGED <<channels, today, mu, booted, day, plan, crashes>>

List(c) ==
    /\ At(c, "list")
    /\ \/ /\ plan' = [plan EXCEPT ![c] = Missing(Range(channels))]
          /\ Goto(c, "check")
       \/ "dbread" \in Faults /\ Goto(c, "day") /\ UNCHANGED plan
    /\ UNCHANGED <<channels, today, mu, booted, day, crashes>>

\* The next day of the plan, unless the target is reached.  The error of this
\* CountChannels is dropped, and the count is then taken to be 0.
Check(c) ==
    /\ At(c, "check")
    /\ \/ /\ plan[c] # {}
          /\ Len(channels) < Target \/ "dbread" \in Faults
          /\ day' = [day EXCEPT ![c] = Max(plan[c])]
          /\ plan' = [plan EXCEPT ![c] = @ \ {Max(@)}]
          /\ Goto(c, "bootlock")
       \/ /\ plan[c] = {} \/ Len(channels) >= Target
          /\ plan' = [plan EXCEPT ![c] = {}]
          /\ Goto(c, "day")
          /\ UNCHANGED day
    /\ UNCHANGED <<channels, today, mu, booted, crashes>>

-----------------------------------------------------------------------------
(* EnsureDailyChannel: on its own, or at the end of EnsureFleet.           *)

EnsureDailyChannel(c) ==
    /\ \/ c \in Dailies /\ At(c, "idle")
       \/ At(c, "day")
    /\ day' = [day EXCEPT ![c] = today]
    /\ Goto(c, "lock")
    /\ UNCHANGED <<channels, today, mu, booted, plan, crashes>>

\* Mutant: s.mu is not waited for.
Lock_NoWait(c) ==
    /\ mu' = c
    /\ \/ At(c, "bootlock") /\ Goto(c, "bootcreate")
       \/ At(c, "lock") /\ Goto(c, "exists")
    /\ UNCHANGED <<channels, today, booted, day, plan, crashes>>

Lock(c) ==
    /\ mu = Nobody
    /\ mu' = c
    /\ \/ At(c, "bootlock") /\ Goto(c, "bootcreate")
       \/ At(c, "lock") /\ Goto(c, "exists")
    /\ UNCHANGED <<channels, today, booted, day, plan, crashes>>

Exists(c) ==
    /\ At(c, "exists")
    /\ \/ /\ day[c] \notin Range(channels)
          /\ Goto(c, "create")
          /\ UNCHANGED mu
       \/ /\ day[c] \in Range(channels) \/ "dbread" \in Faults
          /\ Goto(c, "idle")
          /\ mu' = Nobody
    /\ UNCHANGED <<channels, today, booted, day, plan, crashes>>

-----------------------------------------------------------------------------
(* createChannelLocked, and the Unlock of its caller.                      *)

Creating(c) == pc[c] \in {"bootcreate", "create"}
Inserting(c) == pc[c] \in {"bootinsert", "insert"}
InBoot(c) == pc[c] \in {"bootcreate", "bootinsert"}

\* ChannelsCreateChannel
Create(c) ==
    /\ Creating(c)
    /\ Goto(c, IF InBoot(c) THEN "bootinsert" ELSE "insert")
    /\ UNCHANGED <<channels, today, mu, booted, day, plan, crashes>>

\* Store.CreateChannel
Insert(c) ==
    /\ Inserting(c)
    /\ channels' = Append(channels, day[c])
    /\ mu' = Nobody
    /\ Goto(c, IF InBoot(c) THEN "check" ELSE "idle")
    /\ UNCHANGED <<today, booted, day, plan, crashes>>

\* Mutant: the error return comes before the Unlock.
CreateFails_KeepsLock(c) ==
    /\ \/ Creating(c) /\ "net" \in Faults
       \/ Inserting(c) /\ "dbwrite" \in Faults
    /\ plan' = [plan EXCEPT ![c] = {}]
    /\ Goto(c, IF InBoot(c) THEN "day" ELSE "idle")
    /\ UNCHANGED <<channels, today, mu, booted, day, crashes>>

\* Telegram refuses, its reply is lost, or the row cannot be inserted (the
\* channel then stays in Telegram, unknown here).  The bootstrap stops, but
\* EnsureFleet goes on to the daily channel.
CreateFails(c) ==
    /\ \/ Creating(c) /\ "net" \in Faults
       \/ Inserting(c) /\ "dbwrite" \in Faults
    /\ mu' = Nobody
    /\ plan' = [plan EXCEPT ![c] = {}]
    /\ Goto(c, IF InBoot(c) THEN "day" ELSE "idle")
    /\ UNCHANGED <<channels, today, booted, day, crashes>>

-----------------------------------------------------------------------------

Midnight ==
    /\ today < LastDay
    /\ today' = today + 1
    /\ UNCHANGED <<channels, mu, booted, pc, day, plan, crashes>>

\* The process stops at any point and starts again.
Restart ==
    /\ crashes < MaxCrash
    /\ crashes' = crashes + 1
    /\ mu' = Nobody
    /\ booted' = {}
    /\ pc' = [c \in Callers |-> "idle"]
    /\ day' = [c \in Callers |-> FirstDay]
    /\ plan' = [c \in Callers |-> {}]
    /\ UNCHANGED <<channels, today>>

Begin(c) == EnsureFleet(c) \/ (At(c, "idle") /\ EnsureDailyChannel(c))

Continue(c) ==
    \/ Count(c) \/ List(c) \/ Check(c)
    \/ At(c, "day") /\ EnsureDailyChannel(c)
    \/ Lock(c) \/ Exists(c)
    \/ Create(c) \/ Insert(c) \/ CreateFails(c)

Next ==
    \/ \E c \in Callers : Begin(c) \/ Continue(c)
    \/ Midnight
    \/ Restart

Spec == Init /\ [][Next]_vars

\* A call returns, and sync.Mutex starves no goroutine that waits for it.
FairSpec ==
    /\ Spec
    /\ \A c \in Callers : WF_vars(Continue(c)) /\ SF_vars(Lock(c))

-----------------------------------------------------------------------------

\* "Two callers do not both pass the check and open two channels for one day"
\* (channels.go).
OnePerDay == IsInjective(channels)

\* README: the first start opens BOOTSTRAP_CHANNELS channels, after that the
\* fleet is never filled up; it grows by one a day.
GrowsDaily == Len(channels) <= Target + (today - FirstDay)

\* Every call gives s.mu back and ends, so that uploads get their turn.
Ends == \A c \in Callers : pc[c] # "idle" ~> pc[c] = "idle"
=============================================================================
