# hyaena-storage: formal models

hyaena-storage shares files by keeping them as messages in Telegram channels. A Go
server takes a file part by part into a temporary directory, sends each part (a
*segment*) to a channel in the background, and keeps in PostgreSQL which message of
which channel holds which part. It serves downloads from there, deletes expired
files, opens a channel a day, and shows a small page (`static/app.js`).

A second page serves the administrator (`static/admin.js`), and a Cloudflare Worker
(`worker/src/index.ts`) stands in front of the downloads.

This directory models the parts of that system in which goroutines, failures, restarts
and messages meet: the life of one upload, the dealing of segments over channels, the
growth of the channel fleet, the queue of the upload page, a shared file behind the edge,
and the administrator's browser. It holds TLA+ modules, the TLC runs that check them on
small instances and TLAPS proofs for every instance. `PROJECT.json` lists the
components, runs, mutants, hazards, theorems, and the source lines every definition
stands for.

## 1. The system

All paths are under `src/`; `internal/` is left out below.

| Component | State it keeps | Operations |
|---|---|---|
| Upload API `httpapi/upload.go` | temporary directory per token; `finishStarted`, `uploadCancels` (maps in memory) | start, part, finish, cancel, status; the goroutine `uploadSegmentsSafe` |
| Distribution `tgworker/upload.go` | its local counters; `Service.mu` | `UploadSegments`, `uploadOne` |
| Rows `storage/files.go`, `parts.go`, `db.go` | `files(status, done_parts, part_count)`, `parts(status, telegram_msg_id)`, a foreign key with cascade | one SQL statement each |
| Deletion paths `httpapi/upload.go`, `admin.go`, `scheduler.go`, `tgworker/download.go` | a snapshot of message ids | cancel, `adminDeleteFile`, `expireFiles`, `sweepTmp` |
| Channel dealing `storage/roundrobin.go` | `meta.next_channel_index` | `PickUploadChannelsBalanced` |
| Channel fleet `tgworker/channels.go`, `storage/channels.go` | table `channels`, `Service.mu` | `EnsureFleet`, `EnsureDailyChannel` |
| Scheduler `scheduler/scheduler.go` | none | expire every minute, sweep, daily channel, reference refresh, disk check |
| Process `main.go` | none | startup sweep of temporary directories, SIGTERM, restart |
| Upload by URL `httpapi/upload_byurl.go` | semaphore, directory, rows | fetch, split, distribute |
| Download `httpapi/download.go`, `tgworker/download.go` | semaphore, streams | range request, resync of a segment in the middle of a stream |
| Reference refresh `ResyncPart`, `refreshReferences` | stored references | read, wait for `s.mu`, write back |
| Rate limiter `core/ratelimit.go` | hits per key | allow, prune |
| Admin sessions `core/security.go`, `httpapi/helpers.go`, `admin.go` | session table, token bucket of time | login, check, logout |
| Telegram session `tgworker/service.go`, `login.go`, `heartbeat.go`, `notify.go` | connection, readiness, login error | guard, login dialogue, heartbeat |
| Upload page `static/app.js` | queue, active count, stage, a chain of promises per file | pick, paste, send parts, finish, poll, cancel, again, upload by URL |
| Administration page `static/admin.js` | view, tab, page of the list, disabled buttons; the cookie | session check, login, logout, lists, create a channel, delete a file |
| Edge worker `worker/src/index.ts` | `healthState`, `lastCheckAt`; the zone's cache in front of it | pass on, mark refusals, probe the origin, report health |
| Traffic figures and purge `bandwidth.go`, `cloudflare.go` | none | purge after a deletion or an expiry |

**How they interact.** Every HTTP request runs in a goroutine of its own, so requests
for one token overlap freely. `finish` starts the background goroutine and answers 202
before that goroutine has registered its cancel function. The goroutine, the scheduler's
jobs and the deleting handlers share the rows, the temporary directory and
`Service.mu`, the one mutex around Telegram calls that post or delete. The page polls
the row's status, so a file left `uploading` keeps its page waiting for ever. A download
passes the zone's cache, the Worker and the handler; what the handler says in
`Cache-Control` decides how long the cache keeps it, and a deletion reaches the cache only
by a purge that is sent once, or by the end of that time. The tabs of an administrator
share one cookie with one another and a registry with the server.

**What is hard, and what makes each component correct.**

* *Upload and distribution*: overlapping finish requests; a status that is read and then
  used after a wait; a restart in the middle; a segment that is skipped. Correct when a
  ready file has every segment, an outcome is final, one distribution runs at a time,
  every distribution ends in an outcome, and no directory stays for ever.
* *Deletion*: message ids exist only in the rows, so the order *messages, then row* is
  what keeps messages deletable, while a distribution may be adding to both. Correct when
  no row goes before its messages, nothing appears behind a row that is gone, and every
  message in a channel can be found from the database.
* *Dealing*: several transactions read and advance one counter. Correct when together
  they make indivisible deals and the channels stay balanced.
* *Fleet*: startup, first upload, daily job and administrator all create channels.
  Correct when a day has one channel, the fleet grows by one a day, and the mutex comes
  back.
* *Upload page*: chains of promises outlive the queue they belong to, and their ends
  decrement a counter that was reset meanwhile. Correct when the stage shown fits the
  queue, no file waits beside a free slot, every link is that of a file that became ready
  and was not given up, and every file is reported in the end.
* *Edge*: the expiry is checked before the first segment is fetched and the lifetime is
  computed after it; a request that was let in outlives the row; answers, purges and
  probes cross one another. Correct when no copy of a living file is given more time than
  the file has, a file that is gone leaves the cache for good, slots come back, there is
  one probe at a time, and an origin that stays down, or is back, is reported.
* *Administration*: requests and answers overtake one another, a 401 reloads the page in
  their middle, other tabs log out, the server restarts. Correct when the buttons fit what
  is on its way and the tabs come to rest.
* *Not modelled yet*: upload by URL; a reference refresh that writes back what it read
  before waiting; sliding windows of the rate limiter; the heartbeat.

`PROJECT.json` lists the hazards one by one, at their lines.

## 2. Modules

    Store  <-  Distribution  <-  Deletion  <-  Upload
    Upload  <-  Upload_proofs  <-  Upload_outcome_proofs  <-  Upload_deletion_proofs
    Dealing (abstract)  <-  RoundRobin  <-  RoundRobin_proofs
    Fleet  <-  Fleet_proofs
    Pool (abstract)  <-  Page  <-  Page_proofs
    Edge  <-  Edge_proofs
    Admin  <-  Admin_proofs

### Upload: the life of one share token

`Store` is the two tables restricted to one file, one operator per SQL statement, each
one atomic step. A statement for a row that is gone changes nothing, except an insert
into `parts`, which the foreign key refuses.

`Distribution` is the background goroutine. A *run* is one such goroutine; its program
counter `runPc` stops wherever another goroutine can intervene:

| `runPc` | Code |
|---|---|
| `spawned`, `guard` | the goroutine registers its cancel function, then `apiGuard` |
| `part` | `GetPart` and `GetChannel` for segment `runIdx` |
| `lock`, `send`, `add` | `uploadOne`: `s.mu.Lock`, `MessagesSendMedia`, `AddPart`, unlock |
| `bump`, `sleep` | `BumpDoneParts`, whose error the code discards, `okCount++`, the pause between two messages |
| `failPart`, `failFile`, `end` | status writes, whose errors the code discards |
| `clean` | the deferred `os.RemoveAll` |
| `safe`, `safeFail` | `uploadSegmentsSafe` after an error or a panic |
| `done` | the goroutine's deferred calls |

`runOk` is `okCount`, `runErr` says whether an error or a panic reached
`uploadSegmentsSafe`, `runMsg` is the message id between sending and storing. `live` is
what is in the channels and `sent` how many messages were ever posted: their ids are
`1 .. sent`. `finishStarted` and `uploadCancel` are the two maps in memory, at this token.

`Deletion` is the four paths `"cancel"`, `"admin"`, `"expire"`, `"sweep"`, all with the
same skeleton: read the row, take the snapshot of message ids, delete message by message,
drop the row. They differ in what admits them, in what a failure does (`admin` and
`expire` keep the row, F-15; `cancel` and `sweep` go on, F-14), and in what else they do:
`cancel` signals the run and releases the finish mark, `sweep` removes the directory
before the row.

`Upload` adds the requests (`startPc`, `putPc`, `finPc`) and the environment (a day of
silence, SIGTERM, a crash at any point), and composes all four modules.

`Faults` says which failures may happen. A run lists those it allows:

| Fault | What may fail | Fault | What may fail |
|---|---|---|---|
| `getpart` | `GetPart` in the loop (`tgworker/upload.go:43`) | `lostreply` | message posted, reply lost |
| `dbread` | any other read | `panic` | `uploadOne` panics |
| `dbwrite` | any write | `disk` | directory or file cannot be created |
| `net` | Telegram refuses to post | `worker` | no channel, or the worker is not ready |
| `delete` | Telegram refuses to delete | `stop` | SIGTERM: every context is done |
| | | `day` | 24 hours without a change of the directory |

`RepeatFinish` and `LatePut` are about the client. `static/app.js` sends every part, then
one finish, and neither again unless refused; `FALSE` is that client. `TRUE` is any other
client of the API.

### RoundRobin: dealing channels

`RoundRobin` is `PickUploadChannelsBalanced`, statement by statement, for any number of
concurrent callers under READ COMMITTED. `lock` is the row lock, or the lock on the key
once a transaction has inserted it. `SELECT ... FOR UPDATE` locks nothing while the row
is missing. `CommitLost` is a COMMIT whose reply is lost. `Dealing` is what the function
promises: slots of an endless rotation dealt in one indivisible step. `RoundRobin`
implements it with `next` mapped to the counter (0 when absent).

### Fleet: opening channels

`Fleet` is `EnsureFleet` (count, list, and the loop of `bootstrapChannels` that locks and
unlocks by hand) and `EnsureDailyChannel`, which `EnsureFleet` ends with. `channels` is
the table's `created_day` by id; `today` moves at midnight, also inside a call;
`Restart` loses everything but the table. A channel created in Telegram whose row could
not be inserted is known to nobody and has no place in the state.

### Page: the queue of the upload page

JavaScript runs one handler at a time, so an action of `Page` is a handler: a reply, a
timer or a click with everything it calls, `itemDone` and `pump` included. What is
concurrent are the chains of promises, one per file. `pc` is where a chain waits:

| `pc` | Code (`static/app.js`) |
|---|---|
| `start`, `startwait` | `fetchWithRetry` of `/upload/start`, and its wait after a 429 |
| `parts` | the XHR of the next part in `uploadParts` |
| `finish`, `finishwait` | `finishUpload` with its retries |
| `url` | the request of `urlUpload` |
| `poll` | the request of `pollStatus` |
| `heardReady`, `heardFailed`, `heardOther` | its answer, on its way back |
| `pollwait` | the timer of `pollStatus` |
| `hung`, `over` | a promise nobody settles any more; `itemDone` or the catch has run |

`queue`, `activeCount`, `cancelled`, `stage` and `status` are the variables of those names
(`stage` is the section that is not hidden); items are numbered in the order they were
picked. `row` is the server's row as the page can tell it, a `"distributing"` row being
one that says `uploading` after a finish, and `"expired"` one that has vanished after it
was ready; the server's own steps are `Distributed`, `CancelArrives`, `Dropped` and
`Told`, the answer to a poll; the detail of the first three is in `Upload` and `Deletion`.
`deletes` are the files whose DELETE the cancel button has sent. A request that fails may
have had its effect or not. `Habits` says what the user does besides choosing
files: paste (allowed in every stage), cancel, upload by URL.

`Pool` is what the queue promises: at most `Slots` files on their way, none waiting beside
a free slot, first come first served. `Page` implements it for a user who does not cancel
and uses no URL, with `waiting`, `running` and `ended` mapped to the files that wait, whose
chain runs, and that ended.

### Edge: a shared file from outside

`Edge` has one file, the origin's download handler, the Worker and the zone's cache, which
is external (the cache keys on the request and obeys `s-maxage`, as the comments of
`index.ts` say). `pc` of a reader is `asked` at the Worker, `checked` once the handler has
found the row ready and waits for the Telegram worker and a slot, `first` while the first
segment is fetched into memory, `rest` while the body streams, `sent` when the answer is on
its way back. `reply` and `copy` say what kind of answer it is (a body that is whole, has a
piece twice or is short; an error) and how long it may still be kept. The Worker marks an
error of the origin with no-store; its own 502 (`ProxyError`) has no `Cache-Control`, so the
model lets the cache choose how long it keeps that one. Time is in ticks; lifetimes count
down. `row`, `life` and `purge` are the file, what is left until `expires_at`, and the purge
that `adminDeleteFile` or the hook of the expiry job sent. `idle`, `probes` and `health` are
the Worker's memory of the origin; `HealthStatus` is a monitor that asks for
`/__health-status`. One instance of the Worker is modelled: each isolate has its own.

### Admin: the administrator's browser

`Admin` has several tabs (`Pages`) that share `cookie`, and the server's registry of
sessions. `net` is a bag of requests and of their answers: both overtake one another. An
action `Receive` is the continuation of one `api()` call, with what it calls next; a 401
reloads its tab, drops the answers on their way to it, and lets its logins and logouts go
on. `sessions` holds the ids whose token is accepted: a restart of the server and the next
bucket of time (`adminBucket`) both end all of them (`SessionsEnd`), whatever the cookie's
own age. `Background` tabs load but are not clicked in, which keeps the run small and
still lets one tab's 401 or logout meet the other's requests.

### Abstractions worth knowing

* Segment contents, sizes and names are left out: a segment file is there or not. So are
  live progress, titles of channels, and the wording of answers.
* `FinishStat` looks at all segment files in one step, and is followed by the choice of
  channels and the wait for the worker as the step `"try"`. A finish that fails there
  removes the directory, as the code does.
* `FromPath` and `MessagesSendMedia` are one step: both happen under `s.mu`. A FloodWait
  retry happens inside that step.
* `Finished` merges the goroutine's three deferred calls, which do not block.
* Reads that fail in a handler which then changes nothing are stuttering steps.
* `SweepOrphanDir` is one step: a row that is gone never comes back.
* `sweepTmp` and `expireFiles` are shown at one file; other files share no state with it
  but `s.mu`, and holding that longer only delays.
* A `nil` worker (the server started without Telegram credentials) is left out.
* `Page`: a request and its handling are the step of its reply, but for polls, whose
  answer (`Told`) is heard in a later step, and for the DELETE of a cancel. That one is a
  single step of the server here; `Deletion` has its steps. Any row may vanish at any time
  (`Dropped`: administrator, sweep, expiry). Sizes, names, the progress bars and the
  wording are left out.
* `Edge`: a fetch of a segment is one step that may repeat a piece or lose the rest.
  Anyone may be refused at any time (the Telegram worker is not ready, the semaphore is
  full). A tick is coarser than the second in which `s-maxage=0` is possible.
* `Admin`: no session is forged, and the contents of tables are left out, except which
  page of the file list was asked for.

## 3. What the runs check

| Run | Properties | Shows |
|---|---|---|
| `UploadFaults` | `TypeOK`, `ReadyWhole`, `Settled` | Three segments, every fault but `delete`, a restart at any point, an administrator deleting at any point. A ready file is whole; `ready` and `failed` are final. |
| `UploadRecorded` | `DoneCounted`, `NoOrphan` | Faults that leave no trace in Telegram, late parts, expiry with failing deletions: every message in a channel can be found from the database, and `done_parts` never runs ahead of the stored parts. |
| `UploadHealthy` | `NeverFails` | No fault, an orderly client, two restarts at any point: the client sends finish again, and the upload never ends as failed. |
| `RepeatedFinish` | `SingleRun`, `BecomesReadyWhole`, `DroppedClean` | Two overlapping finish requests sent again and again, skipped segments, a restart, expiry with failing deletions: one distribution at a time, none turns the file ready with a hole, and the row of a ready file goes only after all its messages. |
| `Settling` | `NoGhost`, `ReadyServable`, `Settles`, `Expires`, `DirReclaimed`, `TmpFreed` | Cancel, sweep and expiry in the middle of a distribution that meets errors, lost replies and panics: nothing behind a deleted row, a surviving ready file can be downloaded; under fairness every distribution settles, expired files go, directories are reclaimed. |
| `Deals` | `TypeOK`, `Balanced`, `LockHeldOpen`, `Deals` | Three concurrent transactions with aborts and lost commits: they implement `Dealing`; no channel is two parts ahead of another, but for slots whose COMMIT was lost; no lock outlives its transaction. |
| `FleetGrown` | `TypeOK`, `OnePerDay`, `Ends` | Startup, first upload and daily job on a fleet that exists, every fault, a restart, midnight: one channel a day, and every call ends. |
| `FleetFirst` | `GrowsDaily`, `Ends` | The first start, alone, with two midnights and two restarts: never more than the target plus one a day. |
| `PageFiles` | `Pooled`, `Reported` | A user who picks and pastes files: the queue implements `Pool`; under fairness every file is reported as done or failed, whatever replies are refused, delayed or lost. |
| `PageAll` | `TypeOK`, `ScreenTrue`, `NoStall`, `LinksGood` | Files, URLs, cancel and again in any order while chains of earlier queues still run, answers of polls are late and rows vanish: the stage fits the queue, no file waits beside a free slot, every link is that of a file that became ready and that the page has not asked to delete. |
| `Edge` | `WithinLife`, `SlotsKept`, `OneProbe`, `LeavesEdge`, `DownSeen`, `RecoverySeen` | Two readers of a file that becomes ready, expires or is deleted: no copy of a living file is given more time than the file has, slots come back, one probe at a time; under fairness a file that is gone leaves the cache for good, an origin that stays down is reported so, and one that is back is reported healthy again. |
| `Admin` | `TypeOK`, `OneCreate`, `PrevFits`, `Rests` | Two tabs sharing a cookie, answers in any order, logouts, restarts and reloads: the buttons fit what is on its way, and the tabs do not reload for ever. |

**Bounds.** Two or three segments: one that is stored, one in hand and one to come; with
three, a skipped segment can be first, middle or last. `MaxMsg` bounds the messages ever
sent: at least one more than the segments wherever a restart or a second run can send one
again (9 in `UploadHealthy`, which is every segment in each of three lives); at the bound
a send waits, so runs with liveness properties leave room or cannot send again. One slot
in `Runs` with one finisher is enough where `SingleRun` is known to hold; `RepeatedFinish`
has two of each. One or two restarts: the first leaves a file half distributed, the second
hits the recovery of the first. `MaxCount = 7` on three channels goes around the
rotation more than twice. `LastDay` gives one or two midnights.

Three items with two slots in the page: one file has to wait, and a queue can be replaced
while both slots are in use. Two parts per file tell the first from the last (`PageFiles`,
which also retries a 429); one part and no retry are enough where only the ends of chains
matter (`PageAll`, 4.6 million states). In `Edge` a file lives for up to `Longest = 3`
ticks, longer than the `DayTTL = 2` of a file without end, so that the flat and the
shortened lifetime differ both ways; one download slot and two readers, so that one finds it
taken; two probes, so that a second one has room to be wrong. `Admin` has two logins, three
clicks and two pages of the list: a click before, during and after a logout or a reload.

Deadlock is checked in `Edge`, where time always goes on. It is not in the others: a file
that is deleted, a counter at its bound, the last day of the model, a user who has picked
all files, and an administrator who has stopped are real ends.

**Fairness.** `Upload!FairSpec` assumes weak fairness of every goroutine that runs, every
handler that has begun, the scheduler's two jobs (tickers), and the passing of a day.
Nothing is promised about clients and administrators: no request ever has to be sent. A
Telegram call is assumed to return, with an answer or an error. The mutex needs only weak
fairness there: the one run takes it finitely often, so a deleter that waits for it finds
it free from some point on. In `Fleet`, where several callers contend,
`Lock` has strong fairness, since Go's `sync.Mutex` starves no waiter.

`Page!FairSpec` assumes that requests are answered or fail and timers fire (`fetchWithRetry`
and the XHR have error handlers), that a distribution ends, which is `Upload`'s `Settles`,
and, with strong fairness, that the polls of a file that has ended do not all get lost or
answered with an error. Without the last the page polls for ever, as the code does on
purpose. `Edge!FairSpec` assumes that time passes, that a request let in ends (its write
deadline), that a probe ends (`AbortSignal.timeout`), and that the outside monitor keeps
asking: the Worker has no timer of its own, and probes only when it is asked.
`Admin!FairSpec` assumes that something that is on its way is handled; no click ever has to
happen.

`DirReclaimed` supposes that clients fall silent for good (`Abandoned`): a client that
keeps sending parts keeps its directory, as it should.

## 4. What is proved

Every invariant and every action property of section 3, and both refinements, is a
theorem here. tlapm checks them for every value of the constants that meets the stated
conditions: any number of parts, runs, requests, callers, channels and restarts, any set
of faults; any number of files, slots and parts of the page; any readers, probes and times
at the edge; any tabs, logins and clicks. A condition names what must not happen, and
everything else may: `"delete"` missing from a list of excluded faults means that
deletions may fail. An *orderly* client is `~RepeatFinish`.

**`Upload_proofs`**, for any client:

| Theorem | States | Condition |
|---|---|---|
| `TypeCorrect` | `[]TypeOK` | none |
| `NothingOutlives` | `[]NoGhost` | none |
| `OneDistribution` | `[]SingleRun` | no cancels |
| `ReadyOnlyWhole` | `BecomesReadyWhole` | no cancels |

`TypeCorrect` needs `Counters` to be inductive: `okCount` never exceeds the index of the
segment, and the index stays inside the file. The foreign key and the cascade carry
`NothingOutlives`. By itself `SingleRun` is not inductive; `Marked` adds that the mark of
`tryStartFinish` stands as long as a run is active. `ReadyOnlyWhole` needs `Tally`, that a
run that has skipped nothing has stored all it passed, unless its row is gone; and
`Started`, that a run exists only after `uploadStart` has created its parts, so that
nothing resets them under it.

**`Upload_outcome_proofs`**, for an orderly client:

| Theorem | States | Condition besides |
|---|---|---|
| `OutcomeIsFinal` | `Settled` | none |
| `ReadyStaysWhole` | `[]ReadyWhole` | none |
| `OrderlyDistribution` | `[]SingleRun` and `BecomesReadyWhole` | none: cancels are allowed |
| `DoneIsCounted` | `[]DoneCounted` | no restart |
| `NothingFails` | `[]NeverFails` | no late part, no cancels, none of `Harmful`: `net`, `lostreply`, `panic`, `dbread`, `dbwrite`, `stop`, `day` |

They share the invariant `Orderly`. `OneRequest` takes the place of the mark, which a cancel
may release: with this client at most one finish is on its way, and a run is in progress
only after it was answered. `Outcome` says that as long as a run may still write an outcome
there is none. `DoneIsCounted` adds `Fresh` (no segment is recorded before finish is
accepted, nor ahead of the run) and `Progressed` (`done_parts` follows `AddPart` by one
statement, or not at all when that fails); a restart makes a stored segment be sent, and
counted, again. `NothingFails` adds `Sequential`, that parts and finish do not overlap, and
`Healthy`, that a run fails or loses its segments only after its row was dropped.

**`Upload_deletion_proofs`**:

| Theorem | States | Condition |
|---|---|---|
| `NothingOrphaned` | `[]NoOrphan` | orderly client, no restart, only `expire` deletes, none of `Traceless`: `lostreply`, `stop`, `dbwrite`, `dbread` |
| `RowGoesLast` | `DroppedClean` | only `expire` deletes, no `dbread`, no late part; any client |
| `ReadyIsServable` | `[]ReadyServable` | no `delete`, no `dbwrite`, no restart; any client and deleters |

`NothingOrphaned` rests on `Uploading`, that the file is uploading while somebody may still
record a segment, and on `Traced`: every message is named by a part or held by the run that
is about to record it, an expiry's snapshot holds all of them, and none is left when the
expiry drops the row. `RowGoesLast` rests on
`Sealed`, that once a file is closed no segment of it will be sent or recorded (its
directory is empty, or only the cleanup of the run that closed it is left), and on
`Covered`, that the snapshot of an expiry then holds every message still to be deleted.
`ReadyIsServable` rests on `Exclusive` (`s.mu` serialises each send with its `AddPart`),
`Numbered` (a message about to be recorded is new to the rows and to every deleter) and
`Served` (only a deleter that will drop the row takes a recorded message away).

**`RoundRobin_proofs`**:

| Theorem | States | Condition |
|---|---|---|
| `TypeCorrect` | `[]TypeOK` | none |
| `NoLockLeft` | `[]LockHeldOpen` | none |
| `NoSlotTwice` | `[]Disjoint` | the counter row exists |
| `Atomic` | `Deals`, the refinement of `Dealing` | the counter row exists |
| `EvenlyDealt` | `[]Balanced` | the counter row exists |

The invariant is `Locked`, that whoever is between SELECT and COMMIT holds the lock and
has read what is still stored, with `InOrder`, that all deals lie one after another below
the counter. `EvenlyDealt` is arithmetic on top: a channel's parts are slots of its residue
modulo the number of channels (`PlanFollows`, `LoadFits`), any stretch of the rotation
serves two channels equally but for one slot (`ColumnsEven`), and a slot of the stretch
that no file got is one whose COMMIT was lost (`ColumnCovered`). Loads are stated as
cardinalities of sets of parts, so no induction over the sequence of deals is needed.

**`Fleet_proofs`**:

| Theorem | States | Condition |
|---|---|---|
| `TypeCorrect` | `[]TypeOK` | none |
| `OneChannelPerDay` | `[]OnePerDay` | the fleet is not empty at first |
| `OneADay` | at most one channel for each day that had one before or has come since | the fleet is not empty at first |
| `FirstStartGrowsDaily` | `[]GrowsDaily` | the fleet is empty at first, a single caller |

For a fleet that exists, nobody is in the bootstrap loop (`Grown`), whoever has passed the
check of the day holds the mutex (`Held`) and the day is still free (`Free`); with `Dated`,
that every channel's day is one that has come, counting days bounds the channels.
`TypeCorrect` needs `Planned`, that no plan reaches into the future: with that the newest day
of a plan exists. For the first start, `Alone` says that the days still planned are free,
lie among the `Target` days up to today, and that the daily channel is of a day since the
first.

**`Page_proofs`**: `TypeCorrect`, `ScreenTruthful`, `NeverStalls` and `LinksLead`
(`[]TypeOK`, `[]ScreenTrue`, `[]NoStall`, `[]LinksGood`), for every user and every
fault. They follow from one invariant, theorem `PageInv`. Its heart is `Counted`:
`activeCount` is at most the number of uploads in the *present* queue. It is not equal to
it: a chain that outlives its queue decrements the counter of the next one. That is
harmless in this direction only, since the counter can then start a file too many, but
never leave the screen in progress with nothing on its way. `Known`, `Chained` and
`Uploads` tie the status of an item to its chain, `Emptied` says that after a cancel there
is no queue, and `ChainAt` ties the chain to the token and the row. `LinksLead` needs two
of them: the answer `heardReady` is true of the row's past whatever the server has done to
the row since (`ChainAt`), and nothing in the queue has been given up (`Wanted`), although
chains of files that were given up still run and are done.
`QueueIsPool` is the refinement `Spec => Pooled` for `Habits \subseteq {"paste"}`; there
the counter is exact (`FilesInv`), and each handler is one step of `Pool` or none.

**`Edge_proofs`**: `TypeCorrect`, `LifeRespected` (`[]WithinLife`), `SlotsReturned`
(`[]SlotsKept`) and `NoDoubleProbe` (`[]OneProbe`). The last needs `Timed`, that a probe on
its way is as old as the last check, and the assumption that the timeout of a probe does
not exceed the interval (`TimesAssumption`; 10 seconds and 5 minutes in the code).
`LifeRespected` needs `Begun`, that what streams after the headers is a body: its lifetime
was then computed when the first segment was there, and it ages with the file.

**`Admin_proofs`**: `TypeCorrect`, `OneCreation` (`[]OneCreate`) and `ListButtonFits`
(`[]PrevFits`), without conditions. The bag of messages is reasoned about by the number of
copies of each (`CopiesAdd`, `CopiesRemove`, `CopiesPlus`, `CopiesSet`), since the library
has no theorems about bags. `Single` says that a disabled create button has one message,
request or answer, and an enabled one none; `Fit` is `PrevFits` in the same terms.

The conditions are needed: section 5 shows what happens without them. Assumptions on
constants are the named `ASSUME`s of the modules (slots distinct from "nobody", bounds
natural, faults from the list), and TLC evaluates each in the runs.

**Only model-checked**: the liveness properties (`Settles`, `Expires`, `DirReclaimed`,
`TmpFreed`, `Ends`, `Reported`, `LeavesEdge`, `DownSeen`, `RecoverySeen`, `Rests`), since
the prover has no rule for `ENABLED` and therefore none for weak or strong fairness.

## 5. Where the code and its comments disagree

Every property of section 3 holds in its run. Some of them, or stronger readings of a
comment, fail in configurations beyond those runs. Each row below was found by TLC with
the constants given; none of these configurations is among the runs.

Of `Upload`, with `Spec`, `PartCount = 2`, `MaxMsg = 3`, `Runs = {r1}`,
`Finishers = {h1}`, no deleters, no faults, `RepeatFinish = FALSE`, `LatePut = FALSE` and
`MaxCrash = 0` where nothing else is said:

| Property | Change | What happens |
|---|---|---|
| `NeverFails` | `Finishers = {h1, h2}`, `RepeatFinish = TRUE` | The loser of `tryStartFinish` removes the directory the winner is sending from, and a healthy upload fails (`httpapi/upload.go:292`, under the comment of lines 290-291). |
| `Settled` | `RepeatFinish = TRUE` | A finish that read `uploading` before the first distribution ended passes `tryStartFinish` afterwards, finds no segments, and turns a ready file into a failed one (`httpapi/upload.go:246`; `server.go:37-38` says the mark prevents a second distribution). |
| `DroppedClean` | `Deleters = {"expire"}`, `Faults = {"dbread"}` | `DeleteSegmentMessage` returns nil when the channel row cannot be read, so `expireFiles` drops the row of a file whose message is still there (`tgworker/download.go:94`, against `scheduler.go:227-228`). |
| `NoOrphan` | `Deleters = {"cancel"}` or `{"admin"}` | A message sent after the deleter listed the parts, or while it deletes, loses its row and stays in the channel (`httpapi/upload.go:376-389`, `admin.go:230-253`). |
| `SingleRun` | `Deleters = {"cancel"}`, two runs, two finishers, `RepeatFinish = TRUE` | A cancel releases the mark of a run that still works, and a second run starts (`httpapi/upload.go:391`). |
| `Settles` | `FairSpec`, `Faults = {"getpart"}` | One failed `GetPart` is skipped, `okCount` stays short, the file stays `uploading` (`tgworker/upload.go:43-45`). |
| `TmpFreed` | `FairSpec`, `Deleters = {"sweep"}`, `Faults = {"day"}`, `LatePut = TRUE` | A part request that read the row earlier creates the directory of a finished upload again; no sweep takes it (`httpapi/upload.go:175`). |
| `ReadyServable` | `Deleters = {"cancel"}`, `MaxCrash = 1` | A cancel that read `uploading` deletes messages of a file that became ready, and the process stops before the row goes. |
| `Balanced` | `Deals.cfg` with `Stored = {}` | Two first requests both start at 0: `FOR UPDATE` locks no missing row (`storage/roundrobin.go:65`). |

Of the other modules:

| Property | Configuration | What happens |
|---|---|---|
| `Fleet!OnePerDay` | one bootstrapper, one daily caller, `Founded = {}`, `Target = 1`, a single day, no fault | `bootstrapChannels` compares the count outside the mutex, so two channels are opened for one day (`tgworker/channels.go:152`, against 104-105). |
| `Page!Bounded` | `PageAll.cfg` with `Habits = {"cancel"}` | The cancel resets `activeCount` while a request for `start` has no token yet and goes on; the next files are started beside it, more than `MAX_CONCURRENT` at a time (`static/app.js:30`). |
| `Page!Reported` | `PageFiles.cfg` with `Faults = {"drop"}` | An administrator or the sweep deletes the row of a file that is being polled. The 404 has no `status`, so the page polls for ever and the file is never reported (`static/app.js:213-238`). |
| `Edge!ErrorsMarked` | `Edge.cfg` | The Worker's own 502 goes out without `Cache-Control` (`index.ts:107`), while its comment says that error answers are marked with no-store (`index.ts:9-10`). |
| `Edge!EdgeWithinLife` | `Edge.cfg` | The file expires while its first segment is fetched: the remaining life is negative, the branch for it is skipped and the answer goes out with 24 hours (`httpapi/download.go:141` and 147). Such a copy outlives the row unless a purge works. |
| `Edge!LossNoticed` | `Edge.cfg` | A later segment fails; the handler logs that it cuts the connection and returns (`download.go:195-200`), which ends a chunked body properly. The reader and the cache take the short file for a whole one (against the comment at 156-157). |

Met while modelling, without a property of their own:

* A purge is sent once and its failure is only logged. `index.ts:81-82` relies on the
  purge of a single URL, which `cloudflare.go:60-62` says has no effect in this zone;
  expired files are purged by single URLs only, and `LeavesEdge` rests on lifetimes alone.
* A wrong password is answered 401, for which `api()` reloads the page: the error text set
  by the login button's catch is lost with it (`static/admin.js:32-35` and 75-78).
* An administrator's token is accepted in the bucket of time it was made in
  (`core/security.go:106`), so one made late in a bucket ends with it, long before its
  cookie does.
* An answer to an older logout that arrives after a newer login deletes the newer cookie.
* After "next" on the list of files, a failed load leaves "previous" disabled until a list
  arrives (`admin.js:185`); a list that was overtaken is shown under the newer page number.

Rule 3 in the comment of `sweepTmp` (`scheduler.go:148`, an `uploading` row without a
directory is deleted too) has no code: the job walks directories only, so there is no
step to model and such a row stays.

## 6. Plan

Done: Store, Distribution, Deletion, Upload; Dealing, RoundRobin; Fleet; Pool, Page; Edge;
Admin; the proofs of section 4.

Next, in this order:

1. `ByUrl`: composes `Distribution` with the fetching goroutine: started without
   `tryStartFinish`, before the number of parts is known, with a directory older than its
   row; the in-flight byte limit over several files.
2. `Segments`: one `DownloadSegment` with a resync in the middle, `ResyncPart` against the
   upsert; an abstract file reader as the specification. `Edge` has the handler around it.
3. `RateLimiter`: small, with a reference definition.
4. `Heartbeat`: `s.mu` shared by distribution, notices and the liveness check.
5. Segment contents in `Distribution`, so that a part sent again while it is being
   distributed matters.

Theorems to add: those of the modules above as they come; that `Page`'s abstract server
steps are implemented by `Upload`; what `NoOrphan` still promises after a restart (a bound
on the messages lost by one).

**Not modelled**, with the reasons in `PROJECT.json`: routing, MIME types, configuration,
live progress, traffic figures, the pure helpers, deployment, and the login dialogue with
Telegram. They are plumbing without state that another part reads, or a conversation with
a service whose rules are not in this code.
