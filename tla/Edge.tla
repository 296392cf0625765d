-------------------------------- MODULE Edge --------------------------------
(***************************************************************************)
(* One shared file seen from outside: the Cloudflare Worker                *)
(* (worker/src/index.ts) with its health memory, the zone's cache in front *)
(* of it, and the download handler of the origin                           *)
(* (internal/httpapi/download.go), while the file becomes ready, expires   *)
(* or is deleted (internal/httpapi/admin.go, cloudflare.go; main.go).      *)
(*                                                                         *)
(* The cache is external: it keys on the incoming request and keeps what   *)
(* the Worker returns for as long as s-maxage says (README.md:133,         *)
(* index.ts:78).  Time is in ticks; lifetimes count down.                  *)
(***************************************************************************)
EXTENDS Integers, FiniteSets

CONSTANTS
    Readers,       \* concurrent GETs of the file's URL
    Probes,        \* bound: the probes there can be at a time
    MaxDownloads,  \* MAX_CONCURRENT_DOWNLOADS, the size of dlSem
    DayTTL,        \* ticks in 24 hours, the s-maxage without expiry
    Longest,       \* bound: the longest life a file is given, in ticks
    ProbeEvery,    \* ticks in the 5 minutes between two probes
    ProbeTimeout   \* ticks in the 10 seconds of a probe

ASSUME TimesAssumption ==
    /\ DayTTL \in Nat \ {0} /\ Longest \in Nat
    /\ ProbeEvery \in Nat /\ ProbeTimeout \in 0 .. ProbeEvery
ASSUME DownloadsAssumption == MaxDownloads \in Nat \ {0}
ASSUME ReadersAssumption == IsFiniteSet(Readers)

VARIABLES
    row,     \* the file's row
    life,    \* what is left until expires_at; -1: it has none
    purge,   \* the purge request on its way
    copy,    \* what the cache holds, and for how long
    pc,      \* where each request is
    reply,   \* what its response has become so far, and its s-maxage
    slots,   \* len(dlSem)
    up,      \* whether the origin answers
    idle,    \* ticks since lastCheckAt
    probes,  \* the probes on their way: ticks since each was sent, or -1
    health   \* healthState: "failing" when consecutive_failures > 0

origin == <<row, life, purge>>
watch == <<idle, probes, health>>
vars == <<origin, copy, pc, reply, slots, up, watch>>

\* A body may have a piece in it twice or lack its end; "error" is a refusal.
Body == {"whole", "twice", "short"}
Held == [kind : Body \cup {"none", "error"},
         left : (0 .. DayTTL) \cup (0 .. Longest)]
None == [kind |-> "none", left |-> 0]

Pc == {"away", "asked", "checked", "first", "rest", "sent"}

TypeOK ==
    /\ row \in {"uploading", "ready", "gone"}
    /\ life \in -1 .. Longest
    /\ purge \in {"no", "file", "everything"}
    /\ copy \in Held
    /\ pc \in [Readers -> Pc]
    /\ reply \in [Readers -> Held]
    /\ slots \in 0 .. MaxDownloads
    /\ up \in BOOLEAN
    /\ idle \in 0 .. (ProbeEvery + 1)
    /\ probes \in [Probes -> -1 .. ProbeTimeout]
    /\ health \in {"unknown", "ok", "failing"}

\* A new isolate of the Worker: nothing has been checked, lastCheckAt is 0.
Init ==
    /\ row = "uploading"
    /\ life \in (1 .. Longest) \cup {-1}
    /\ purge = "no"
    /\ copy = None
    /\ pc = [r \in Readers |-> "away"]
    /\ reply = [r \in Readers |-> None]
    /\ slots = 0
    /\ up = TRUE
    /\ idle = ProbeEvery + 1
    /\ probes = [p \in Probes |-> -1]
    /\ health = "unknown"

Goto(r, p) == pc' = [pc EXCEPT ![r] = p]
Away(r) == Goto(r, "away") /\ reply' = [reply EXCEPT ![r] = None]

-----------------------------------------------------------------------------
(* The Worker's health memory                                              *)

\* Mutant: lastCheckAt is set only by the probe that has ended.
Opportunity_LateMark ==
    \/ idle <= ProbeEvery /\ UNCHANGED <<idle, probes>>
    \/ /\ idle > ProbeEvery
       /\ idle' \in {0, idle}
       /\ \E p \in Probes :
            probes[p] = -1 /\ probes' = [probes EXCEPT ![p] = 0]

\* The first lines of every request: probe the origin if the last check is
\* long ago; lastCheckAt is set before the probe is sent.
Opportunity ==
    \/ idle <= ProbeEvery /\ UNCHANGED <<idle, probes>>
    \/ /\ idle > ProbeEvery
       /\ idle' = 0
       /\ \E p \in Probes :
            probes[p] = -1 /\ probes' = [probes EXCEPT ![p] = 0]

\* /__health-status, asked by an outside monitor.
HealthStatus ==
    /\ Opportunity
    /\ UNCHANGED <<origin, copy, pc, reply, slots, up, health>>
Healthy == health = "ok"

\* Mutant: only an answer that is not ok counts as a failure, none does not.
ProbeEnds_NoCatch(p) ==
    /\ probes[p] # -1
    /\ probes' = [probes EXCEPT ![p] = -1]
    /\ \/ up /\ health' = "ok"
       \/ (~up \/ probes[p] = ProbeTimeout) /\ UNCHANGED health
    /\ UNCHANGED <<origin, copy, pc, reply, slots, up, idle>>

\* Mutant: an answer that is ok does not reset consecutive_failures.
ProbeEnds_NoReset(p) ==
    /\ probes[p] # -1
    /\ probes' = [probes EXCEPT ![p] = -1]
    /\ \/ up /\ health' = IF health = "failing" THEN health ELSE "ok"
       \/ /\ ~up \/ probes[p] = ProbeTimeout
          /\ health' = "failing"
    /\ UNCHANGED <<origin, copy, pc, reply, slots, up, idle>>

\* probeOrigin gets its answer, an error or no answer in time.
ProbeEnds(p) ==
    /\ probes[p] # -1
    /\ probes' = [probes EXCEPT ![p] = -1]
    /\ \/ up /\ health' = "ok"
       \/ /\ ~up \/ probes[p] = ProbeTimeout
          /\ health' = "failing"
    /\ UNCHANGED <<origin, copy, pc, reply, slots, up, idle>>

-----------------------------------------------------------------------------
(* A download                                                              *)

\* The cache answers, or the Worker passes the request on.
Ask(r) ==
    /\ pc[r] = "away"
    /\ Opportunity
    /\ \/ copy # None /\ UNCHANGED pc
       \/ copy = None /\ Goto(r, "asked")
    /\ UNCHANGED <<origin, copy, reply, slots, up, health>>

\* The origin does not answer, or its connection breaks before the headers.
\* The Worker's own 502 carries no Cache-Control, so how long the cache keeps
\* it, if at all, is up to the cache.
ProxyError(r) ==
    /\ pc[r] \in {"asked", "checked", "first"} /\ ~up
    /\ \E t \in 0 .. DayTTL :
        reply' = [reply EXCEPT ![r] = [kind |-> "error", left |-> t]]
    /\ Goto(r, "sent")
    /\ slots' = IF pc[r] = "first" THEN slots - 1 ELSE slots
    /\ UNCHANGED <<origin, copy, up, watch>>

\* The Worker marks an answer that is not ok with no-store.
Refusal == [kind |-> "error", left |-> 0]

\* downloadFile refuses: the row is not ready or expired, a read fails; the
\* Telegram worker is not ready or every download slot is taken.
Refuse(r) ==
    /\ pc[r] \in {"asked", "checked"} /\ up
    /\ reply' = [reply EXCEPT ![r] = Refusal]
    /\ Goto(r, "sent")
    /\ UNCHANGED <<origin, copy, slots, up, watch>>

Expired == life = 0

\* Mutant: the status of the row is not looked at.
Check_AnyRow(r) ==
    /\ pc[r] = "asked" /\ up
    /\ ~Expired
    /\ Goto(r, "checked")
    /\ UNCHANGED <<origin, copy, reply, slots, up, watch>>

\* The row is ready and not expired and its parts are read; the handler then
\* waits for the Telegram worker and does not look at the row again.
Check(r) ==
    /\ pc[r] = "asked" /\ up
    /\ row = "ready" /\ ~Expired
    /\ Goto(r, "checked")
    /\ UNCHANGED <<origin, copy, reply, slots, up, watch>>

\* The worker is ready and dlSem has a slot.
Admit(r) ==
    /\ pc[r] = "checked" /\ up
    /\ slots < MaxDownloads
    /\ slots' = slots + 1
    /\ Goto(r, "first")
    /\ UNCHANGED <<origin, copy, reply, up, watch>>

\* Mutant: every file is given 24 hours.
MaxAge_Flat == DayTTL

\* s-maxage: what is left of the file's life, but 24 hours when it has no end
\* or its end has passed in the meantime.
MaxAge == IF life > 0 /\ life < 30 * DayTTL THEN life ELSE DayTTL

\* The first segment is in memory and the headers go out.  A segment that
\* DownloadSegment begins twice (resync) is written twice.
FirstSegment(r) ==
    /\ pc[r] = "first"
    /\ \E k \in {"whole", "twice"} :
        reply' = [reply EXCEPT ![r] = [kind |-> k, left |-> MaxAge]]
    /\ Goto(r, "rest")
    /\ UNCHANGED <<origin, copy, slots, up, watch>>

\* Mutant: the error return before the stream keeps the slot.
FirstFails_KeepsSlot(r) ==
    /\ pc[r] = "first"
    /\ reply' = [reply EXCEPT ![r] = Refusal]
    /\ Goto(r, "sent")
    /\ UNCHANGED <<origin, copy, slots, up, watch>>

\* The first segment cannot be had: 502 of the origin.
FirstFails(r) ==
    /\ pc[r] = "first"
    /\ reply' = [reply EXCEPT ![r] = Refusal]
    /\ Goto(r, "sent")
    /\ slots' = slots - 1
    /\ UNCHANGED <<origin, copy, up, watch>>

\* The other segments.  One that fails makes the handler return, which ends
\* the chunked body like that of a whole file.
RestSegments(r) ==
    /\ pc[r] = "rest"
    /\ \E k \in {reply[r].kind, "twice", "short"} :
        reply' = [reply EXCEPT ![r].kind = k]
    /\ Goto(r, "sent")
    /\ slots' = slots - 1
    /\ UNCHANGED <<origin, copy, up, watch>>

\* The connection breaks: a slow reader meets the write deadline, a reader
\* goes away, the origin stops in the middle of the body.
Cut(r) ==
    /\ pc[r] \in {"checked", "first", "rest"}
    /\ Away(r)
    /\ slots' = IF pc[r] = "checked" THEN slots ELSE slots - 1
    /\ UNCHANGED <<origin, copy, up, watch>>

\* The response has passed the Worker and the cache keeps it if it may.
Deliver(r) ==
    /\ pc[r] = "sent"
    /\ copy' = IF reply[r].left = 0 THEN copy ELSE reply[r]
    /\ Away(r)
    /\ UNCHANGED <<origin, slots, up, watch>>

-----------------------------------------------------------------------------
(* The file, the purges, the origin and time                               *)

BecomesReady ==
    /\ row = "uploading"
    /\ row' = "ready"
    /\ UNCHANGED <<life, purge, copy, pc, reply, slots, up, watch>>

\* adminDeleteFile; the purge goroutine ends with the whole zone.
AdminDelete ==
    /\ row = "ready"
    /\ row' = "gone"
    /\ purge' = "everything"
    /\ UNCHANGED <<life, copy, pc, reply, slots, up, watch>>

\* The expiry job; the hook of main.go purges the file's URLs.
Expire ==
    /\ row = "ready" /\ Expired
    /\ row' = "gone"
    /\ purge' = "file"
    /\ UNCHANGED <<life, copy, pc, reply, slots, up, watch>>

\* A purge fails and is not repeated; that of one URL may, by the comments
\* of cloudflare.go, be granted and drop nothing.
Purge ==
    /\ purge # "no"
    /\ purge' = "no"
    /\ copy' \in {copy, None}
    /\ UNCHANGED <<row, life, pc, reply, slots, up, watch>>

OriginTurns ==
    /\ up' = ~up
    /\ UNCHANGED <<origin, copy, pc, reply, slots, watch>>

Older(h) == IF h.left <= 1 THEN None ELSE [h EXCEPT !.left = @ - 1]

Tick ==
    /\ \A p \in Probes : probes[p] < ProbeTimeout
    /\ life' = IF life > 0 THEN life - 1 ELSE life
    /\ copy' = Older(copy)
    /\ reply' = [r \in Readers |-> IF reply[r].left > 0
                    THEN [reply[r] EXCEPT !.left = @ - 1] ELSE reply[r]]
    /\ idle' = IF idle > ProbeEvery THEN idle ELSE idle + 1
    /\ probes' = [p \in Probes |->
                    IF probes[p] = -1 THEN -1 ELSE probes[p] + 1]
    /\ UNCHANGED <<row, purge, pc, slots, up, health>>

-----------------------------------------------------------------------------

Handle(r) ==
    \/ ProxyError(r) \/ Refuse(r) \/ Check(r) \/ Admit(r)
    \/ FirstSegment(r) \/ FirstFails(r) \/ RestSegments(r) \/ Cut(r)
    \/ Deliver(r)

Next ==
    \/ HealthStatus
    \/ \E p \in Probes : ProbeEnds(p)
    \/ \E r \in Readers : Ask(r) \/ Handle(r)
    \/ BecomesReady \/ AdminDelete \/ Expire \/ Purge
    \/ OriginTurns \/ Tick

Spec == Init /\ [][Next]_vars

\* Time passes, a request that was let in ends, a probe has a timeout, and
\* the monitor keeps asking.
FairSpec ==
    /\ Spec
    /\ WF_vars(Tick) /\ WF_vars(HealthStatus)
    /\ \A r \in Readers : WF_vars(Handle(r))
    /\ \A p \in Probes : WF_vars(ProbeEnds(p))

-----------------------------------------------------------------------------

\* While a file lives no copy of it, kept or on its way, is given more time
\* than the file has (download.go:141).
WithinLife ==
    life > 0 => \A h \in {copy} \cup {reply[r] : r \in Readers} :
                    h.kind \in Body => h.left <= life

\* Every way out of the handler gives its slot back (download.go:110).
SlotsKept == slots = Cardinality({r \in Readers : pc[r] \in {"first", "rest"}})

\* Concurrent requests do not probe the origin twice (index.ts:65).
OneProbe == \A p, q \in Probes : probes[p] # -1 /\ probes[q] # -1 => p = q

\* A file that is gone leaves the edge for good, purge or no purge
\* (index.ts:83).
LeavesEdge == row = "gone" ~> [](copy.kind \notin Body)

\* An origin that stays down is reported unhealthy, and stays so.
DownSeen == <>[](~up) => <>[](~Healthy)

\* An origin that is back for good and answers in time is reported healthy
\* again, whatever an older probe still says (index.ts:43-47).
RecoverySeen ==
    <>[](up /\ \A p \in Probes : probes[p] < ProbeTimeout) => <>[]Healthy

\* "The edge TTL cannot exceed what is left of the file's life"
\* (download.go:141), the moment of the expiry included.
EdgeWithinLife == life # -1 /\ copy.kind \in Body => copy.left <= life

\* "Error answers (404/5xx) are not cached and are marked with no-store"
\* (index.ts:9), the Worker's own included.
ErrorsMarked == \A r \in Readers : reply[r].kind = "error" => reply[r].left = 0

\* The loss of a part is noticed (download.go:156), so that no copy without
\* its end is kept.
LossNoticed == copy.kind # "short"
=============================================================================
