-------------------------------- MODULE Page --------------------------------
(***************************************************************************)
(* The upload page (static/app.js): the queue of files the user picked, at *)
(* most MAX_CONCURRENT of them on their way, each with its own chain of    *)
(* promises (start, parts, finish, poll), the cancel and "again" buttons   *)
(* and the upload by URL, against the server of internal/httpapi.          *)
(*                                                                         *)
(* JavaScript runs one event handler at a time, so an action is a handler: *)
(* a reply, a timer or a click with everything it calls.  A request and    *)
(* its handling by the server are the step of its reply, but the answer to *)
(* a poll is given by one step and heard by a later one, and a DELETE is   *)
(* handled on its own.                                                     *)
(* The items are numbered as they are made and the array `queue` keeps     *)
(* them in that order, so it is the set of its items.                      *)
(***************************************************************************)
EXTENDS Integers, FiniteSets

CONSTANTS
    MaxItems,       \* bound: how many files and URLs the user picks
    MAX_CONCURRENT,
    PartCount,      \* part_count of every file
    MaxAttempts,    \* how often a 429 is tried again (5 in the code)
    Habits,         \* what this user does: "paste", "cancel", "url"
    Faults          \* "drop": rows vanish under the page (administrator,
                    \* sweep, expiry)

ASSUME ItemsAssumption == MaxItems \in Nat
ASSUME ConcurrentAssumption == MAX_CONCURRENT \in Nat \ {0}
ASSUME PartsAssumption == PartCount \in Nat \ {0}
ASSUME AttemptsAssumption == MaxAttempts \in Nat
ASSUME HabitsAssumption ==
    Habits \subseteq {"paste", "cancel", "url"} /\ Faults \subseteq {"drop"}

Item == 1 .. MaxItems

VARIABLES
    picked,       \* how many items there have been; byUrl: those made of a URL
    byUrl,
    queue, activeCount, cancelled, stage,
    status,       \* item.status
    tokens,       \* the items whose item.token is set
    pc,           \* where the item's chain of promises waits
    tries,        \* `attempts` of its fetchWithRetry
    idx,          \* its next part
    row,          \* the server's row of the item
    deletes       \* the items whose DELETE has been sent

picks == <<picked, byUrl>>
screen == <<queue, activeCount, stage, status>>
chain == <<tokens, tries, idx>>
server == <<row, deletes>>
vars == <<picks, screen, cancelled, pc, chain, server>>

\* "hung" is a promise that nobody settles any more.
Asleep == {"none", "hung", "over"}
\* The answer to a poll on its way back.
Heard == {"heardReady", "heardFailed", "heardOther"}
Pc == Asleep \cup Heard \cup {"start", "startwait", "parts", "finish",
                              "finishwait", "url", "poll", "pollwait"}

\* A row that has vanished: "expired" if it was ready, "gone" if it was not.
Vanished == {"gone", "expired"}

TypeOK ==
    /\ picked \in 0 .. MaxItems
    /\ byUrl \subseteq 1 .. picked
    /\ queue \subseteq 1 .. picked
    /\ activeCount \in 0 .. MAX_CONCURRENT
    /\ cancelled \in BOOLEAN
    /\ stage \in {"pick", "progress", "result"}
    /\ status \in [Item -> {"none", "waiting", "uploading", "done", "failed"}]
    /\ tokens \subseteq 1 .. picked
    /\ pc \in [Item -> Pc]
    /\ tries \in [Item -> 0 .. MaxAttempts]
    /\ idx \in [Item -> 0 .. PartCount]
    /\ row \in [Item -> {"none", "uploading", "distributing", "ready",
                         "failed"} \cup Vanished]
    /\ deletes \subseteq Item

Init ==
    /\ picked = 0 /\ byUrl = {}
    /\ queue = {} /\ activeCount = 0 /\ cancelled = FALSE /\ stage = "pick"
    /\ status = [i \in Item |-> "none"]
    /\ tokens = {}
    /\ pc = [i \in Item |-> "none"]
    /\ tries = [i \in Item |-> 0]
    /\ idx = [i \in Item |-> 0]
    /\ row = [i \in Item |-> "none"]
    /\ deletes = {}

At(i, p) == pc[i] = p
Live == {i \in Item : pc[i] \notin Asleep}

\* The chain of i goes on, and nothing on the screen changes.
Goto(i, p) == pc' = [pc EXCEPT ![i] = p] /\ UNCHANGED screen

\* The rows of the queue box that carry tag t (renderQueue).
Rows(t) == {i \in queue : status[i] = t}

\* showResult: a link for every file that is done.
Links == Rows("done")

-----------------------------------------------------------------------------
(* pump and itemDone                                                       *)

\* The k first of the waiting items W, or all of them.
Firsts(W, k) ==
    {S \in SUBSET W : /\ Cardinality(S) <= k
                      /\ Cardinality(S) = k \/ S = W
                      /\ \A i \in S, j \in W \ S : i < j}

\* Mutant: every waiting file is started at once.
Pump_NoLimit(q, s, p, n, g) ==
    LET S == {i \in q : s[i] = "waiting"}
    IN  /\ status' = [i \in Item |-> IF i \in S THEN "uploading" ELSE s[i]]
        /\ pc' = [i \in Item |-> IF i \in S THEN "start" ELSE p[i]]
        /\ activeCount' = n + Cardinality(S)
        /\ queue' = q
        /\ stage' = IF n = 0 /\ S = {} THEN "result" ELSE g

\* pump() for queue q, statuses s, positions p, count n and stage g: start
\* what may start, and when nothing is left show the links, or the error.
Pump(q, s, p, n, g) ==
    \E S \in Firsts({i \in q : s[i] = "waiting"}, MAX_CONCURRENT - n) :
        LET t == [i \in Item |-> IF i \in S THEN "uploading" ELSE s[i]]
            allTerminal == \A i \in q : t[i] \in {"done", "failed"}
            anyDone == \E i \in q : t[i] = "done"
            over == n = 0 /\ S = {} /\ q # {} /\ allTerminal
        IN  /\ status' = t
            /\ pc' = [i \in Item |-> IF i \in S THEN "start" ELSE p[i]]
            /\ activeCount' = n + Cardinality(S)
            /\ \/ ~over /\ queue' = q /\ stage' = g
               \/ over /\ anyDone /\ queue' = q /\ stage' = "result"
               \/ over /\ ~anyDone /\ queue' = {} /\ stage' = "pick"

\* Mutant: activeCount-- without the floor at 0.
ItemDone_NoFloor(i, s) ==
    LET st == [status EXCEPT ![i] = s]
        at == [pc EXCEPT ![i] = "over"]
    IN  \/ ~cancelled /\ Pump(queue, st, at, activeCount - 1, stage)
        \/ /\ cancelled
           /\ status' = st /\ pc' = at /\ activeCount' = activeCount - 1
           /\ UNCHANGED <<queue, stage>>

\* Mutant: itemDone does not call pump().
ItemDone_NoPump(i, s) ==
    /\ status' = [status EXCEPT ![i] = s]
    /\ pc' = [pc EXCEPT ![i] = "over"]
    /\ activeCount' = IF activeCount = 0 THEN 0 ELSE activeCount - 1
    /\ UNCHANGED <<queue, stage>>

\* The chain of i ends with status s; itemDone.
ItemDone(i, s) ==
    LET st == [status EXCEPT ![i] = s]
        at == [pc EXCEPT ![i] = "over"]
        n == IF activeCount = 0 THEN 0 ELSE activeCount - 1
    IN  \/ ~cancelled /\ Pump(queue, st, at, n, stage)
        \/ /\ cancelled
           /\ status' = st /\ pc' = at /\ activeCount' = n
           /\ UNCHANGED <<queue, stage>>

\* Mutant: the catch of urlUpload leaves the queue.
UrlCatch_KeepsQueue(i) ==
    /\ status' = [status EXCEPT ![i] = "failed"]
    /\ pc' = [pc EXCEPT ![i] = "over"]
    /\ activeCount' = 0 /\ stage' = "pick"
    /\ UNCHANGED queue

\* The catch of urlUpload.
UrlCatch(i) ==
    /\ status' = [status EXCEPT ![i] = "failed"]
    /\ pc' = [pc EXCEPT ![i] = "over"]
    /\ queue' = {} /\ activeCount' = 0 /\ stage' = "pick"

-----------------------------------------------------------------------------
(* The user                                                                *)

\* enqueueFiles with n files
EnqueueFiles(n) ==
    LET new == (picked + 1) .. (picked + n)
        st == [i \in Item |-> IF i \in new THEN "waiting" ELSE status[i]]
    IN  /\ n \in 1 .. (MaxItems - picked)
        /\ picked' = picked + n
        /\ cancelled' = FALSE
        /\ Pump(queue \cup new, st, pc, activeCount, "progress")
        /\ UNCHANGED <<byUrl, chain, server>>

\* Dropped or chosen files: the drop zone is part of the pick stage.
PickFiles == stage = "pick" /\ \E n \in Item : EnqueueFiles(n)

\* Ctrl+V is listened to in every stage.
Paste == "paste" \in Habits /\ \E n \in Item : EnqueueFiles(n)

\* urlUpload: a queue of its own, whatever is still on its way.
UrlUpload ==
    /\ "url" \in Habits
    /\ stage = "pick" /\ picked < MaxItems
    /\ LET i == picked + 1 IN
        /\ picked' = i
        /\ byUrl' = byUrl \cup {i}
        /\ queue' = {i}
        /\ status' = [status EXCEPT ![i] = "uploading"]
        /\ pc' = [pc EXCEPT ![i] = "url"]
    /\ activeCount' = 1 /\ cancelled' = FALSE /\ stage' = "progress"
    /\ UNCHANGED <<chain, server>>

\* Mutant: the queue is left as it is.
Cancel_KeepsQueue ==
    /\ "cancel" \in Habits
    /\ stage = "progress"
    /\ cancelled' = TRUE
    /\ LET doomed == Rows("uploading") \cap tokens IN
        /\ deletes' = deletes \cup doomed
        /\ pc' = [i \in Item |->
                    IF i \in doomed /\ At(i, "parts") THEN "hung" ELSE pc[i]]
    /\ activeCount' = 0 /\ stage' = "pick"
    /\ UNCHANGED <<picks, queue, status, chain, row>>

\* The cancel button.  An aborted XHR calls neither onload nor onerror.
Cancel ==
    /\ "cancel" \in Habits
    /\ stage = "progress"
    /\ cancelled' = TRUE
    /\ LET doomed == Rows("uploading") \cap tokens IN
        /\ deletes' = deletes \cup doomed
        /\ pc' = [i \in Item |->
                    IF i \in doomed /\ At(i, "parts") THEN "hung" ELSE pc[i]]
    /\ queue' = {} /\ activeCount' = 0 /\ stage' = "pick"
    /\ UNCHANGED <<picks, status, chain, row>>

\* The "send another file" button.
Again ==
    /\ stage = "result"
    /\ queue' = {} /\ activeCount' = 0 /\ cancelled' = FALSE /\ stage' = "pick"
    /\ UNCHANGED <<picks, status, pc, chain, server>>

-----------------------------------------------------------------------------
(* One file: start, parts, finish                                          *)

\* fetchWithRetry has returned; `attempts` is its own.
Returned(i) == tries' = [tries EXCEPT ![i] = 0]

\* Mutant: `attempts` is not handed on to the next try.
Backoff_Uncounted(i) ==
    /\ \/ At(i, "start") /\ Goto(i, "startwait")
       \/ At(i, "finish") /\ Goto(i, "finishwait")
    /\ UNCHANGED <<picks, cancelled, tries, tokens, idx, server>>

\* fetchWithRetry meets a 429 and waits...
Backoff(i) ==
    /\ tries[i] < MaxAttempts
    /\ tries' = [tries EXCEPT ![i] = @ + 1]
    /\ \/ At(i, "start") /\ Goto(i, "startwait")
       \/ At(i, "finish") /\ Goto(i, "finishwait")
    /\ UNCHANGED <<picks, cancelled, tokens, idx, server>>

\* ...and sends the request again.
Resend(i) ==
    /\ \/ At(i, "startwait") /\ Goto(i, "start")
       \/ At(i, "finishwait") /\ Goto(i, "finish")
    /\ UNCHANGED <<picks, cancelled, chain, server>>

\* uploadOne: the row is there; uploadParts looks at `cancelled` first.
StartOk(i) ==
    /\ At(i, "start")
    /\ row' = [row EXCEPT ![i] = "uploading"]
    /\ tokens' = tokens \cup {i}
    /\ \/ cancelled /\ ItemDone(i, "failed")
       \/ ~cancelled /\ Goto(i, "parts")
    /\ Returned(i)
    /\ UNCHANGED <<picks, cancelled, idx, deletes>>

\* Refused, garbled, one 429 too many, or lost after the row was made.
StartFails(i) ==
    /\ At(i, "start")
    /\ row' \in {row, [row EXCEPT ![i] = "uploading"]}
    /\ ItemDone(i, "failed")
    /\ Returned(i)
    /\ UNCHANGED <<picks, cancelled, tokens, idx, deletes>>

\* A part arrives (200 while the row says uploading); next().
PartOk(i) ==
    /\ At(i, "parts")
    /\ row[i] \in {"uploading", "distributing"}
    /\ idx' = [idx EXCEPT ![i] = @ + 1]
    /\ \/ cancelled /\ ItemDone(i, "failed")
       \/ ~cancelled /\ idx'[i] < PartCount /\ Goto(i, "parts")
       \/ ~cancelled /\ idx'[i] = PartCount /\ Goto(i, "finish")
    /\ UNCHANGED <<picks, cancelled, tokens, tries, server>>

PartFails(i) ==
    /\ At(i, "parts")
    /\ ItemDone(i, "failed")
    /\ UNCHANGED <<picks, cancelled, chain, server>>

\* finishUpload: 202, the distribution begins.
FinishOk(i) ==
    /\ At(i, "finish")
    /\ row[i] = "uploading"
    /\ row' = [row EXCEPT ![i] = "distributing"]
    /\ Goto(i, "poll")
    /\ Returned(i)
    /\ UNCHANGED <<picks, cancelled, tokens, idx, deletes>>

\* Refused, or lost after the distribution began.
FinishFails(i) ==
    /\ At(i, "finish")
    /\ \/ row' = row
       \/ row[i] = "uploading" /\ row' = [row EXCEPT ![i] = "distributing"]
    /\ ItemDone(i, "failed")
    /\ Returned(i)
    /\ UNCHANGED <<picks, cancelled, tokens, idx, deletes>>

\* The reply of /upload/by-url; `cancelled` is not looked at.
UrlOk(i) ==
    /\ At(i, "url")
    /\ row' = [row EXCEPT ![i] = "distributing"]
    /\ tokens' = tokens \cup {i}
    /\ Goto(i, "poll")
    /\ UNCHANGED <<picks, cancelled, tries, idx, deletes>>

UrlFails(i) ==
    /\ At(i, "url")
    /\ row' \in {row, [row EXCEPT ![i] = "distributing"]}
    /\ UrlCatch(i)
    /\ UNCHANGED <<picks, cancelled, chain, deletes>>

-----------------------------------------------------------------------------
(* pollStatus                                                              *)

\* uploadStatus answers with the status of the row as it is now; "other" is
\* any other status, or none: a 404, or a 500 when the read fails.
Told(i, answer) ==
    /\ At(i, "poll")
    /\ answer = "heardReady" => row[i] = "ready"
    /\ answer = "heardFailed" => row[i] = "failed"
    /\ Goto(i, answer)
    /\ UNCHANGED <<picks, cancelled, chain, server>>

PollReady(i) ==
    /\ At(i, "heardReady")
    /\ ~cancelled
    /\ ItemDone(i, "done")
    /\ UNCHANGED <<picks, cancelled, chain, server>>

PollFailed(i) ==
    /\ pc[i] \in Heard
    /\ cancelled \/ At(i, "heardFailed")
    /\ \/ i \notin byUrl /\ ItemDone(i, "failed")
       \/ i \in byUrl /\ UrlCatch(i)
    /\ UNCHANGED <<picks, cancelled, chain, server>>

PollAgain(i) ==
    /\ At(i, "heardOther")
    /\ ~cancelled
    /\ Goto(i, "pollwait")
    /\ UNCHANGED <<picks, cancelled, chain, server>>

\* The request fails or its answer is not JSON.
PollError(i) ==
    /\ At(i, "poll")
    /\ \/ cancelled /\ Goto(i, "hung")
       \/ ~cancelled /\ Goto(i, "pollwait")
    /\ UNCHANGED <<picks, cancelled, chain, server>>

PollTimer(i) ==
    /\ At(i, "pollwait")
    /\ Goto(i, "poll")
    /\ UNCHANGED <<picks, cancelled, chain, server>>

-----------------------------------------------------------------------------
(* The server (modules Upload and Deletion have its detail)                *)

Distributed(i) ==
    /\ row[i] = "distributing"
    /\ \E s \in {"ready", "failed"} : row' = [row EXCEPT ![i] = s]
    /\ UNCHANGED <<picks, screen, cancelled, pc, chain, deletes>>

\* uploadCancel takes only a row that says uploading.  A request that is lost
\* never arrives, and nobody knows.
CancelArrives(i) ==
    /\ i \in deletes
    /\ row[i] \in {"uploading", "distributing"}
    /\ row' = [row EXCEPT ![i] = "gone"]
    /\ UNCHANGED <<picks, screen, cancelled, pc, chain, deletes>>

\* An administrator deletes the file, the sweep an old unfinished row, the
\* expiry a ready one.
Dropped(i) ==
    /\ "drop" \in Faults
    /\ row[i] \notin {"none"} \cup Vanished
    /\ row' = [row EXCEPT ![i] = IF @ = "ready" THEN "expired" ELSE "gone"]
    /\ UNCHANGED <<picks, screen, cancelled, pc, chain, deletes>>

-----------------------------------------------------------------------------

\* The replies and timers that come if one waits for them.
Answer(i) ==
    \/ Backoff(i) \/ Resend(i)
    \/ StartOk(i) \/ StartFails(i)
    \/ PartOk(i) \/ PartFails(i)
    \/ FinishOk(i) \/ FinishFails(i)
    \/ UrlOk(i) \/ UrlFails(i)
    \/ PollReady(i) \/ PollFailed(i) \/ PollAgain(i) \/ PollTimer(i)

Poll(i) == PollError(i) \/ \E answer \in Heard : Told(i, answer)
Server(i) == Distributed(i) \/ CancelArrives(i) \/ Dropped(i)

Next ==
    \/ PickFiles \/ Paste \/ UrlUpload \/ Cancel \/ Again
    \/ \E i \in Item : Answer(i) \/ Poll(i) \/ Server(i)

Spec == Init /\ [][Next]_vars

\* Requests are answered or fail, timers fire, a distribution ends (Upload's
\* Settles), and not every poll of a file that has ended is lost or refused.
FairSpec ==
    /\ Spec
    /\ \A i \in Item : /\ WF_vars(Answer(i))
                       /\ WF_vars(Distributed(i))
                       /\ SF_vars(Told(i, "heardReady") \/ Told(i, "heardFailed"))

-----------------------------------------------------------------------------

\* The screen tells the truth: nothing is queued behind the pick stage, the
\* progress stage has an upload that still runs (it never freezes with all
\* its files ended), and the result stage comes when every file has ended.
ScreenTrue ==
    /\ stage = "pick" <=> queue = {}
    /\ stage = "progress" => Rows("uploading") \cap Live # {}
    /\ stage = "result" => /\ queue = Rows("done") \cup Rows("failed")
                           /\ Rows("done") # {}

\* A file waits only while every slot of the queue is taken, whatever was
\* cancelled, replaced or failed before (pump).
NoStall == Rows("waiting") # {} => activeCount = MAX_CONCURRENT

\* A link the page shows, which "copy all" copies too, is that of a file that
\* has become ready and that this page has not asked to delete, however old
\* the answer of the poll is and whatever queue came in between (app.js:233).
\* The file may have expired or been deleted by others since.
LinksGood ==
    \A i \in Links :
        i \in tokens /\ row[i] \in {"ready", "expired"} /\ i \notin deletes

\* "At most MAX_CONCURRENT files are uploaded at the same time" (app.js:30).
Bounded == Cardinality(Live) <= MAX_CONCURRENT

\* The queue as a pool of MAX_CONCURRENT slots.  With "cancel" or "url" it is
\* none: a chain that outlives its queue gives back a slot it has no more.
P == INSTANCE Pool WITH
        Jobs <- Item,
        Slots <- MAX_CONCURRENT,
        waiting <- {i \in Item : status[i] = "waiting"},
        running <- Live,
        ended <- {i \in Item : status[i] \in {"done", "failed"}}
Pooled == P!Spec

\* Every file the user picks is reported as done or failed in the end.
Reported ==
    \A i \in Item : status[i] \in {"waiting", "uploading"}
                        ~> status[i] \in {"done", "failed"}
=============================================================================
