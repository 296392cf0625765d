------------------------------- MODULE Admin -------------------------------
(***************************************************************************)
(* The administrator's browser (static/admin.js) and the sessions of the   *)
(* server (internal/httpapi/admin.go, helpers.go, internal/core/security.go)*)
(*                                                                         *)
(* The pages open in the browser share its cookie.  Requests and answers   *)
(* travel in a bag: they overtake one another, in both directions.  A 401  *)
(* reloads the page; what it has sent goes on, its answers are dropped.    *)
(* What the tables show is left out, except which list of files it is.     *)
(***************************************************************************)
EXTENDS Integers, FiniteSets, Bags, BagsExt, Functions

CONSTANTS
    Pages,      \* the browser's tabs with /admin in them
    Background, \* those of them that load and that nobody clicks in
    MaxSids,    \* bound: how many logins succeed
    MaxPage,    \* bound: the last page of the list the user turns to
    MaxClicks   \* bound: how often the user does something

ASSUME BoundsAssumption ==
    /\ MaxSids \in Nat /\ MaxPage \in Nat /\ MaxClicks \in Nat
    /\ Background \subseteq Pages

VARIABLES
    sessions,    \* the ids of adminSessions whose MAC is of the present bucket
    made,        \* how many ids there have been
    cookie,      \* the browser's admin cookie; 0: none
    view, tab, filesPage,
    prevOff,     \* "files-prev" is disabled
    busy,        \* "create-channel-btn" is disabled
    unlisted,    \* the last answer to a list of files was an error, or none came
    net,         \* the requests and answers on their way
    clicks

registry == <<sessions, made>>
panel == <<tab, filesPage, prevOff, busy, unlisted>>
vars == <<registry, cookie, view, panel, net, clicks>>

Tab == {"summary", "channels", "files", "settings"}
\* "table": summary, channels or settings, whose answers only fill a table.
Guarded == {"table", "files", "create", "delete"}
Kind == Guarded \cup {"session", "login", "logout"}

\* `page` is {} when the page that asked is gone; "denied" is 401, "no" the
\* answer of the session check, "error" any other failure, on the way too.
Request ==
    [page : {{}} \cup {{p} : p \in Pages}, kind : Kind, sid : 0 .. MaxSids,
     answer : {"none", "ok", "no", "denied", "error"}]

TypeOK ==
    /\ made \in 0 .. MaxSids
    /\ sessions \subseteq 1 .. made
    /\ cookie \in 0 .. made
    /\ view \in [Pages -> {"blank", "login", "panel"}]
    /\ tab \in [Pages -> Tab]
    /\ filesPage \in [Pages -> 0 .. MaxPage]
    /\ prevOff \in [Pages -> BOOLEAN]
    /\ busy \in [Pages -> BOOLEAN]
    /\ unlisted \in [Pages -> BOOLEAN]
    /\ IsABag(net) /\ BagToSet(net) \subseteq Request
    /\ clicks \in 0 .. MaxClicks

\* The requests p makes with cookie c.
Asked(p, kinds, c) ==
    SetToBag({[page |-> {p}, kind |-> k, sid |-> c, answer |-> "none"] :
                k \in kinds})

\* The pages are opened, maybe with the cookie of an earlier login.  The two
\* views are hidden until the session check is answered.
Init ==
    /\ made \in 0 .. 1 /\ made <= MaxSids
    /\ sessions = 1 .. made
    /\ cookie = made
    /\ view = [p \in Pages |-> "blank"]
    /\ tab = [p \in Pages |-> "summary"]
    /\ filesPage = [p \in Pages |-> 0]
    /\ prevOff = [p \in Pages |-> FALSE]
    /\ busy = [p \in Pages |-> FALSE]
    /\ unlisted = [p \in Pages |-> TRUE]
    /\ net = SetToBag({[page |-> {p}, kind |-> "session", sid |-> cookie,
                        answer |-> "none"] : p \in Pages})
    /\ clicks = 0

-----------------------------------------------------------------------------
(* The server                                                              *)

\* verifyAdmin: the MAC and the registry.
Accepted(sid) == sid \in sessions

\* The request q is answered with a; a login carries its sid back.
Answered(q, sid, a) ==
    net' = BagAdd(BagRemove(net, q), [q EXCEPT !.sid = sid, !.answer = a])

\* Mutant: the check looks for a cookie only, not at the registry.
ServeSession_AnyCookie(q) ==
    /\ q.kind = "session"
    /\ \E a \in {IF q.sid # 0 THEN "ok" ELSE "no", "error"} : Answered(q, 0, a)
    /\ UNCHANGED registry

\* adminSession; the channel's guard or the way may fail.
ServeSession(q) ==
    /\ q.kind = "session"
    /\ \E a \in {IF Accepted(q.sid) THEN "ok" ELSE "no", "error"} :
        Answered(q, 0, a)
    /\ UNCHANGED registry

\* adminLogin: a session of its own for every login.  That it prunes those
\* past their end changes nothing: their bucket is over before.
ServeLogin(q) ==
    /\ q.kind = "login"
    /\ \/ /\ \E a \in {"denied", "error"} : Answered(q, 0, a)
          /\ UNCHANGED registry
       \/ /\ made < MaxSids
          /\ made' = made + 1
          /\ sessions' = sessions \cup {made'}
          /\ \E a \in {"ok", "error"} : Answered(q, made', a)

\* adminLogout: the session of the cookie that came along.
ServeLogout(q) ==
    /\ q.kind = "logout"
    /\ \/ /\ sessions' = sessions \ {q.sid}
          /\ \E a \in {"ok", "error"} : Answered(q, 0, a)
       \/ Answered(q, 0, "error") /\ UNCHANGED sessions
    /\ UNCHANGED made

\* Behind requireAdmin.
ServeGuarded(q) ==
    /\ q.kind \in Guarded
    /\ \E a \in {IF Accepted(q.sid) THEN "ok" ELSE "denied", "error"} :
        Answered(q, 0, a)
    /\ UNCHANGED registry

Serve(q) ==
    /\ q.answer = "none"
    /\ \/ ServeSession(q) \/ ServeLogin(q) \/ ServeLogout(q) \/ ServeGuarded(q)
    /\ UNCHANGED <<cookie, view, panel, clicks>>

\* The server restarts, and with it the registry; or the next bucket of TTL
\* hours begins, and with it no MAC made before is right, however young.
SessionsEnd ==
    /\ sessions' = {}
    /\ UNCHANGED <<made, cookie, view, panel, net, clicks>>

-----------------------------------------------------------------------------
(* The page: answers                                                       *)

\* The answer q has arrived and p makes requests of its own.
Arrived(q, p, kinds) == net' = BagRemove(net, q) (+) Asked(p, kinds, cookie')

\* What outlives page p: of its own requests those that change a session.
Orphaned(p, rest) ==
    LET left == {q \in BagToSet(rest) :
                    q.page = {p} /\ q.kind \in {"login", "logout"}}
    IN  Restrict(rest, {q \in BagToSet(rest) : q.page # {p}})
          (+) [q \in {[l EXCEPT !.page = {}] : l \in left} |->
                 rest[[q EXCEPT !.page = {p}]]]

\* location.reload(), and init() of the new page.
Reload(p, rest) ==
    /\ net' = Orphaned(p, rest) (+) Asked(p, {"session"}, cookie')
    /\ view' = [view EXCEPT ![p] = "blank"]
    /\ tab' = [tab EXCEPT ![p] = "summary"]
    /\ filesPage' = [filesPage EXCEPT ![p] = 0]
    /\ prevOff' = [prevOff EXCEPT ![p] = FALSE]
    /\ busy' = [busy EXCEPT ![p] = FALSE]
    /\ unlisted' = [unlisted EXCEPT ![p] = TRUE]

\* api() meets a 401; of a logout any answer reloads the page (finally).
Denied(q, p) ==
    /\ q.answer = "denied" \/ q.kind = "logout"
    /\ cookie' = IF q.kind = "logout" /\ q.answer = "ok" THEN 0 ELSE cookie
    /\ Reload(p, BagRemove(net, q))

\* init(); showPanel loads the dashboard.
SessionChecked(q, p) ==
    /\ q.kind = "session"
    /\ UNCHANGED <<cookie, panel>>
    /\ \/ /\ q.answer = "ok"
          /\ view' = [view EXCEPT ![p] = "panel"]
          /\ Arrived(q, p, {"table"})
       \/ /\ q.answer \in {"no", "error"}
          /\ view' = [view EXCEPT ![p] = "login"]
          /\ Arrived(q, p, {})

\* The click handler of login-btn goes on.
LoggedIn(q, p) ==
    /\ q.kind = "login"
    /\ \/ /\ q.answer = "ok"
          /\ cookie' = q.sid
          /\ view' = [view EXCEPT ![p] = "panel"]
          /\ Arrived(q, p, {"table"})
       \/ q.answer = "error" /\ UNCHANGED <<cookie, view>> /\ Arrived(q, p, {})
    /\ UNCHANGED panel

\* loadDashboard, loadChannels, loadSettings fill their tables, or toast.
Loaded(q, p) ==
    /\ q.kind = "table" /\ q.answer \in {"ok", "error"}
    /\ UNCHANGED <<cookie, view, panel>>
    /\ Arrived(q, p, {})

\* Mutant: "previous" is disabled on the first page and never enabled again.
FilesLoaded_OnlyDisables(q, p) ==
    /\ q.kind = "files" /\ q.answer \in {"ok", "error"}
    /\ UNCHANGED <<cookie, view, tab, filesPage, busy>>
    /\ unlisted' = [unlisted EXCEPT ![p] = q.answer = "error"]
    /\ prevOff' = IF q.answer = "ok" /\ filesPage[p] = 0
                  THEN [prevOff EXCEPT ![p] = TRUE] ELSE prevOff
    /\ Arrived(q, p, {})

\* loadFiles: the list and whether there is one before it.
FilesLoaded(q, p) ==
    /\ q.kind = "files" /\ q.answer \in {"ok", "error"}
    /\ UNCHANGED <<cookie, view, tab, filesPage, busy>>
    /\ unlisted' = [unlisted EXCEPT ![p] = q.answer = "error"]
    /\ prevOff' = IF q.answer = "ok"
                  THEN [prevOff EXCEPT ![p] = filesPage[p] = 0] ELSE prevOff
    /\ Arrived(q, p, {})

\* Mutant: the button is enabled by the success only, not in `finally`.
Created_NoFinally(q, p) ==
    /\ q.kind = "create" /\ q.answer \in {"ok", "error"}
    /\ UNCHANGED <<cookie, view, tab, filesPage, prevOff, unlisted>>
    /\ busy' = [busy EXCEPT ![p] = q.answer = "error"]
    /\ Arrived(q, p, IF q.answer = "ok" THEN {"table"} ELSE {})

\* The create button: whatever comes back, it can be pressed again.
Created(q, p) ==
    /\ q.kind = "create" /\ q.answer \in {"ok", "error"}
    /\ UNCHANGED <<cookie, view, tab, filesPage, prevOff, unlisted>>
    /\ busy' = [busy EXCEPT ![p] = FALSE]
    /\ Arrived(q, p, IF q.answer = "ok" THEN {"table"} ELSE {})

\* deleteFile: the list and the dashboard are loaded again.
Deleted(q, p) ==
    /\ q.kind = "delete" /\ q.answer \in {"ok", "error"}
    /\ UNCHANGED <<cookie, view, panel>>
    /\ Arrived(q, p, IF q.answer = "ok" THEN {"files", "table"} ELSE {})

\* The page that asked is gone; the cookie may have been set or not.
Dropped(q) ==
    /\ q.page = {}
    /\ cookie' \in {cookie} \cup (IF q.answer # "ok" THEN {}
                                  ELSE IF q.kind = "login" THEN {q.sid}
                                  ELSE IF q.kind = "logout" THEN {0} ELSE {})
    /\ net' = BagRemove(net, q)
    /\ UNCHANGED <<view, panel>>

Receive(q) ==
    /\ q.answer # "none"
    /\ \/ Dropped(q)
       \/ \E p \in q.page :
            \/ Denied(q, p)
            \/ SessionChecked(q, p) \/ LoggedIn(q, p)
            \/ Loaded(q, p) \/ FilesLoaded(q, p) \/ Created(q, p) \/ Deleted(q, p)
    /\ UNCHANGED <<registry, clicks>>

-----------------------------------------------------------------------------
(* The page: clicks                                                        *)

\* A click of the user sends a request of kind k.
Click(p, k) ==
    /\ clicks < MaxClicks
    /\ clicks' = clicks + 1
    /\ net' = net (+) Asked(p, {k}, cookie)
    /\ UNCHANGED <<registry, cookie, view>>

\* login-btn, or Enter
Login(p) == view[p] = "login" /\ Click(p, "login") /\ UNCHANGED panel

\* The navigation; a tab loads what it shows.
Turn(p) ==
    /\ view[p] = "panel"
    /\ \E t \in Tab :
        /\ tab' = [tab EXCEPT ![p] = t]
        /\ Click(p, IF t = "files" THEN "files" ELSE "table")
    /\ UNCHANGED <<filesPage, prevOff, busy, unlisted>>

Logout(p) == view[p] = "panel" /\ Click(p, "logout") /\ UNCHANGED panel

CreateChannel(p) ==
    /\ view[p] = "panel" /\ tab[p] = "channels" /\ ~busy[p]
    /\ busy' = [busy EXCEPT ![p] = TRUE]
    /\ Click(p, "create")
    /\ UNCHANGED <<tab, filesPage, prevOff, unlisted>>

\* Mutant: files-prev without the test of filesPage.
TurnList_Below(p) ==
    /\ view[p] = "panel" /\ tab[p] = "files"
    /\ \/ /\ ~prevOff[p]
          /\ filesPage' = [filesPage EXCEPT ![p] = @ - 1]
       \/ /\ filesPage[p] < MaxPage
          /\ filesPage' = [filesPage EXCEPT ![p] = @ + 1]
    /\ Click(p, "files")
    /\ UNCHANGED <<tab, prevOff, busy, unlisted>>

\* files-prev and files-next
TurnList(p) ==
    /\ view[p] = "panel" /\ tab[p] = "files"
    /\ \/ /\ ~prevOff[p] /\ filesPage[p] > 0
          /\ filesPage' = [filesPage EXCEPT ![p] = @ - 1]
       \/ /\ filesPage[p] < MaxPage
          /\ filesPage' = [filesPage EXCEPT ![p] = @ + 1]
    /\ Click(p, "files")
    /\ UNCHANGED <<tab, prevOff, busy, unlisted>>

\* deleteFile, of a file in the list
DeleteFile(p) ==
    /\ view[p] = "panel" /\ tab[p] = "files"
    /\ Click(p, "delete")
    /\ UNCHANGED panel

\* The browser's own reload button
Refresh(p) ==
    /\ clicks < MaxClicks
    /\ clicks' = clicks + 1
    /\ UNCHANGED <<registry, cookie>>
    /\ Reload(p, net)

User(p) ==
    \/ Login(p) \/ Turn(p) \/ Logout(p) \/ CreateChannel(p)
    \/ TurnList(p) \/ DeleteFile(p) \/ Refresh(p)

-----------------------------------------------------------------------------

Network == \E q \in BagToSet(net) : Serve(q) \/ Receive(q)

Next == Network \/ SessionsEnd \/ \E p \in Pages \ Background : User(p)

Spec == Init /\ [][Next]_vars

\* Requests are answered, by the server or by an error on the way.
FairSpec == Spec /\ WF_vars(Network)

-----------------------------------------------------------------------------

Of(p, k) == {q \in BagToSet(net) : q.page = {p} /\ q.kind = k}

\* The create button is disabled exactly while its request is on its way, and
\* there is at most one per page (admin.js:146 and 155).
OneCreate ==
    \A p \in Pages :
        \/ ~busy[p] /\ Of(p, "create") = {}
        \/ busy[p] /\ \E q \in Of(p, "create") :
                        Of(p, "create") = {q} /\ net[q] = 1

\* When no list is on its way and the last one came, "previous" is disabled on
\* the first page only, in whatever order the lists came (admin.js:185).
PrevFits ==
    \A p \in Pages :
        Of(p, "files") = {} /\ ~unlisted[p] => (prevOff[p] <=> filesPage[p] = 0)

\* The pages do not reload one another or themselves for ever: when the user
\* has stopped, they come to rest with the panel or the login (admin.js:33).
Rests == <>[](net = EmptyBag /\ \A p \in Pages : view[p] # "blank")
=============================================================================
