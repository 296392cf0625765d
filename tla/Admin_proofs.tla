---------------------------- MODULE Admin_proofs ----------------------------
(***************************************************************************)
(* For any pages of the browser, any clicks and any way the requests and   *)
(* answers overtake one another: the types hold (TypeCorrect), the create  *)
(* button is disabled exactly while its one request is on its way          *)
(* (OneCreation), and once the lists have come the "previous" button fits  *)
(* the page of the list that is shown (ListButtonFits).                    *)
(***************************************************************************)
EXTENDS Admin, TLAPS

-----------------------------------------------------------------------------
(* Bags, by the number of copies of their elements                         *)

Copies(x, B) == IF x \in DOMAIN B THEN B[x] ELSE 0

LEMMA CopiesCount ==
    ASSUME NEW B, IsABag(B), NEW x
    PROVE  Copies(x, B) \in Nat /\ (x \in BagToSet(B) <=> Copies(x, B) > 0)
BY DEF IsABag, BagToSet, Copies

LEMMA CopiesAdd ==
    ASSUME NEW B, IsABag(B), NEW r
    PROVE  /\ IsABag(BagAdd(B, r))
           /\ BagToSet(BagAdd(B, r)) = BagToSet(B) \cup {r}
           /\ \A x : Copies(x, BagAdd(B, r))
                       = Copies(x, B) + (IF x = r THEN 1 ELSE 0)
BY DEF IsABag, BagToSet, Copies, BagAdd

LEMMA CopiesRemove ==
    ASSUME NEW B, IsABag(B), NEW q \in BagToSet(B)
    PROVE  /\ IsABag(BagRemove(B, q))
           /\ BagToSet(BagRemove(B, q)) \subseteq BagToSet(B)
           /\ \A x : Copies(x, BagRemove(B, q))
                       = Copies(x, B) - (IF x = q THEN 1 ELSE 0)
BY DEF IsABag, BagToSet, Copies, BagRemove

LEMMA CopiesPlus ==
    ASSUME NEW B, IsABag(B), NEW C, IsABag(C)
    PROVE  /\ IsABag(B (+) C)
           /\ BagToSet(B (+) C) = BagToSet(B) \cup BagToSet(C)
           /\ \A x : Copies(x, B (+) C) = Copies(x, B) + Copies(x, C)
BY DEF IsABag, BagToSet, Copies, (+)

LEMMA CopiesSet ==
    ASSUME NEW S
    PROVE  /\ IsABag(SetToBag(S))
           /\ BagToSet(SetToBag(S)) = S
           /\ \A x : Copies(x, SetToBag(S)) = IF x \in S THEN 1 ELSE 0
BY DEF IsABag, BagToSet, Copies, SetToBag

-----------------------------------------------------------------------------
(* What is on its way                                                      *)

\* A bag of requests and answers, none of which knows a session past the m-th.
Good(B, m) ==
    /\ IsABag(B)
    /\ BagToSet(B) \subseteq Request
    /\ \A x \in BagToSet(B) : x.sid <= m

LEMMA GoodRemove ==
    ASSUME NEW B, NEW m, Good(B, m), NEW q \in BagToSet(B)
    PROVE  Good(BagRemove(B, q), m)
BY CopiesRemove DEF Good

LEMMA GoodPlus ==
    ASSUME NEW B, NEW C, NEW m, Good(B, m), Good(C, m)
    PROVE  Good(B (+) C, m)
BY CopiesPlus DEF Good

Asking(p, k, c) == [page |-> {p}, kind |-> k, sid |-> c, answer |-> "none"]

LEMMA AskedGood ==
    ASSUME NEW p \in Pages, NEW ks \in SUBSET Kind,
           NEW m \in 0 .. MaxSids, NEW c \in 0 .. m
    PROVE  /\ Good(Asked(p, ks, c), m)
           /\ \A x : Copies(x, Asked(p, ks, c))
                       = IF \E k \in ks : x = Asking(p, k, c) THEN 1 ELSE 0
<1> DEFINE S == {Asking(p, k, c) : k \in ks}
<1>1. Asked(p, ks, c) = SetToBag(S)  BY DEF Asked, Asking
<1>2. S \subseteq Request
  <2>1. ASSUME NEW k \in ks PROVE Asking(p, k, c) \in Request
    <3>1. c \in 0 .. MaxSids /\ k \in Kind /\ {p} \in {{}} \cup {{r} : r \in Pages}
      BY BoundsAssumption
    <3> QED  BY <3>1 DEF Asking, Request
  <2> QED  BY <2>1
<1>3. \A x \in S : x.sid <= m  BY DEF Asking
<1>4. /\ IsABag(SetToBag(S)) /\ BagToSet(SetToBag(S)) = S
      /\ \A x : Copies(x, SetToBag(S)) = IF x \in S THEN 1 ELSE 0
  <2> HIDE DEF S
  <2> QED  BY CopiesSet
<1>5. Good(Asked(p, ks, c), m)
  <2> HIDE DEF S
  <2> QED  BY <1>1, <1>2, <1>3, <1>4 DEF Good
<1>6. \A x : x \in S <=> \E k \in ks : x = Asking(p, k, c)  OBVIOUS
<1> HIDE DEF S
<1> QED  BY <1>1, <1>4, <1>5, <1>6

\* A page that goes leaves the others' requests alone, and none of its own.
LEMMA OrphanedGood ==
    ASSUME NEW p \in Pages, NEW B, NEW m, Good(B, m)
    PROVE  /\ Good(Orphaned(p, B), m)
           /\ \A x \in Request : \A r \in Pages :
                 x.page = {r} => Copies(x, Orphaned(p, B))
                                   = IF r = p THEN 0 ELSE Copies(x, B)
<1> DEFINE left == {q \in BagToSet(B) :
                       q.page = {p} /\ q.kind \in {"login", "logout"}}
           Own == {[l EXCEPT !.page = {}] : l \in left}
           C == Restrict(B, {q \in BagToSet(B) : q.page # {p}})
           D == [q \in Own |-> B[[q EXCEPT !.page = {p}]]]
<1>1. Orphaned(p, B) = C (+) D  BY DEF Orphaned
<1>2. /\ IsABag(B) /\ BagToSet(B) \subseteq Request
      /\ \A x \in BagToSet(B) : x.sid <= m
  BY DEF Good
<1>3. /\ Good(C, m)
      /\ \A x : Copies(x, C) = IF x \in BagToSet(B) /\ x.page = {p}
                               THEN 0 ELSE Copies(x, B)
  <2>1. IsABag(C) /\ BagToSet(C) = {q \in BagToSet(B) : q.page # {p}}
    BY <1>2 DEF IsABag, BagToSet, Restrict
  <2>2. \A x \in BagToSet(C) : C[x] = B[x]
    BY <1>2 DEF IsABag, BagToSet, Restrict
  <2> HIDE DEF C
  <2> QED  BY <1>2, <2>1, <2>2 DEF Good, Copies, BagToSet
<1>4. ASSUME NEW l \in left
      PROVE  /\ [l EXCEPT !.page = {}] \in Request
             /\ [l EXCEPT !.page = {}].page = {}
             /\ [l EXCEPT !.page = {}].sid = l.sid
             /\ [[l EXCEPT !.page = {}] EXCEPT !.page = {p}] = l
  <2>1. l \in Request /\ l.page = {p}  BY <1>2
  <2> QED  BY <2>1 DEF Request
<1>5. /\ Good(D, m)
      /\ \A x \in BagToSet(D) : x.page = {}
  <2>1. ASSUME NEW x \in Own
        PROVE  /\ x \in Request /\ x.page = {} /\ x.sid <= m
               /\ [x EXCEPT !.page = {p}] \in BagToSet(B)
    <3>1. PICK l \in left : x = [l EXCEPT !.page = {}]  OBVIOUS
    <3> HIDE DEF Own
    <3> QED  BY <1>2, <1>4, <3>1
  <2> HIDE DEF Own
  <2>2. \A x \in Own : B[[x EXCEPT !.page = {p}]] \in {n \in Nat : n > 0}
    BY <1>2, <2>1 DEF IsABag, BagToSet
  <2>3. IsABag(D) /\ BagToSet(D) = Own  BY <2>2 DEF IsABag, BagToSet
  <2> HIDE DEF D
  <2> QED  BY <2>1, <2>3 DEF Good
<1> HIDE DEF C, D, left, Own
<1>6. Good(C (+) D, m)  BY <1>3, <1>5, GoodPlus
<1>7. ASSUME NEW x \in Request, NEW r \in Pages, x.page = {r}
      PROVE  Copies(x, C (+) D) = IF r = p THEN 0 ELSE Copies(x, B)
  <2>1. Copies(x, C (+) D) = Copies(x, C) + Copies(x, D)
    BY <1>3, <1>5, CopiesPlus DEF Good
  <2>2. Copies(x, D) = 0
    <3>1. x \notin BagToSet(D)  BY <1>5, <1>7
    <3> QED  BY <3>1 DEF Copies, BagToSet
  <2>3. Copies(x, C) = IF r = p THEN 0 ELSE Copies(x, B)
    <3>1. CASE r = p  BY <1>3, <1>7, <3>1 DEF Copies, BagToSet
    <3>2. CASE r # p
      <4>1. x.page # {p}  BY <1>7, <3>2
      <4> QED  BY <1>3, <3>2, <4>1
    <3> QED  BY <3>1, <3>2
  <2>4. Copies(x, C) \in Nat  BY <1>3, CopiesCount DEF Good
  <2> QED  BY <2>1, <2>2, <2>3, <2>4
<1> QED  BY <1>1, <1>6, <1>7

-----------------------------------------------------------------------------
(* Types                                                                   *)

Typed == TypeOK /\ Good(net, made)

LEMMA Fetched ==
    ASSUME Typed, NEW q \in BagToSet(net)
    PROVE  /\ q \in Request /\ q.sid \in 0 .. made
           /\ made \in 0 .. MaxSids /\ cookie \in 0 .. made
           /\ q.page = {} \/ \E p \in Pages : q.page = {p}
BY BoundsAssumption DEF Typed, TypeOK, Good, Request

\* The server puts an answer b in the place of the request q.
Replaced(q, b) ==
    /\ b \in Request /\ b.page = q.page /\ b.kind = q.kind
    /\ q.answer = "none" /\ b.answer # "none"
    /\ net' = BagAdd(BagRemove(net, q), b)

LEMMA AnswerGood ==
    ASSUME Typed, NEW q \in BagToSet(net), q.answer = "none",
           made' \in made .. MaxSids, NEW s \in 0 .. made',
           NEW a \in {"ok", "no", "denied", "error"}, Answered(q, s, a)
    PROVE  Good(net', made') /\ \E b \in Request : Replaced(q, b)
<1> DEFINE b == [q EXCEPT !.sid = s, !.answer = a]
<1>1. q \in Request /\ made \in 0 .. MaxSids  BY Fetched
<1>2. made' \in 0 .. MaxSids /\ s \in 0 .. MaxSids /\ made <= made'
  BY <1>1, BoundsAssumption
<1>3. /\ b \in Request /\ b.page = q.page /\ b.kind = q.kind
      /\ b.answer # "none" /\ b.sid = s
  BY <1>1, <1>2 DEF Request
<1>4. net' = BagAdd(BagRemove(net, q), b)  BY DEF Answered
<1>5. Good(BagRemove(net, q), made)  BY GoodRemove DEF Typed
<1> HIDE DEF b
<1>6. Good(net', made')
  <2>1. /\ IsABag(net')
        /\ BagToSet(net') = BagToSet(BagRemove(net, q)) \cup {b}
    BY <1>4, <1>5, CopiesAdd DEF Good
  <2>2. \A x \in BagToSet(BagRemove(net, q)) : x \in Request /\ x.sid <= made'
    <3> SUFFICES ASSUME NEW x \in BagToSet(BagRemove(net, q))
                 PROVE  x \in Request /\ x.sid <= made'
      OBVIOUS
    <3>1. x \in Request /\ x.sid <= made  BY <1>5 DEF Good
    <3>2. x.sid \in Int  BY <3>1, BoundsAssumption DEF Request
    <3> QED  BY <1>1, <1>2, <3>1, <3>2
  <2> QED  BY <1>2, <1>3, <2>1, <2>2 DEF Good
<1> QED  BY <1>3, <1>4, <1>6 DEF Replaced

LEMMA ServeNet ==
    ASSUME Typed, NEW q \in BagToSet(net), Serve(q)
    PROVE  /\ Good(net', made') /\ \E b \in Request : Replaced(q, b)
           /\ made' \in 0 .. MaxSids /\ made <= made'
           /\ sessions' \subseteq 1 .. made'
           /\ UNCHANGED <<cookie, view, panel, clicks>>
<1> USE BoundsAssumption
<1>1. /\ q.answer = "none" /\ UNCHANGED <<cookie, view, panel, clicks>>
      /\ made \in 0 .. MaxSids /\ sessions \subseteq 1 .. made
  BY Fetched DEF Serve, Typed, TypeOK
<1>2. ASSUME UNCHANGED made, sessions' \subseteq sessions,
             \E a \in {"ok", "no", "denied", "error"} : Answered(q, 0, a)
      PROVE  /\ Good(net', made') /\ \E b \in Request : Replaced(q, b)
             /\ made' \in 0 .. MaxSids /\ made <= made'
             /\ sessions' \subseteq 1 .. made'
  <2>1. made' \in made .. MaxSids /\ 0 \in 0 .. made'  BY <1>1, <1>2
  <2>2. PICK a \in {"ok", "no", "denied", "error"} : Answered(q, 0, a)
    BY <1>2
  <2>3. Good(net', made') /\ \E b \in Request : Replaced(q, b)
    BY <1>1, <2>1, <2>2, AnswerGood
  <2> QED  BY <1>1, <1>2, <2>3
<1>3. CASE ServeSession(q)
  <2>1. UNCHANGED made /\ sessions' \subseteq sessions
    BY <1>3 DEF ServeSession, registry
  <2>2. \E a \in {"ok", "no", "denied", "error"} : Answered(q, 0, a)
    BY <1>3 DEF ServeSession
  <2> QED  BY <1>1, <1>2, <2>1, <2>2
<1>4. CASE ServeLogin(q)
  <2>1. CASE (\E a \in {"denied", "error"} : Answered(q, 0, a)) /\ UNCHANGED registry
    <3>1. UNCHANGED made /\ sessions' \subseteq sessions
      BY <2>1 DEF registry
    <3>2. \E a \in {"ok", "no", "denied", "error"} : Answered(q, 0, a)
      BY <2>1
    <3> QED  BY <1>1, <1>2, <3>1, <3>2
  <2>2. CASE /\ made < MaxSids /\ made' = made + 1
             /\ sessions' = sessions \cup {made'}
             /\ \E a \in {"ok", "error"} : Answered(q, made', a)
    <3>1. made' \in made .. MaxSids /\ made' \in 0 .. made'  BY <1>1, <2>2
    <3>2. PICK a \in {"ok", "error"} : Answered(q, made', a)  BY <2>2
    <3>3. Good(net', made') /\ \E b \in Request : Replaced(q, b)
      BY <1>1, <3>1, <3>2, AnswerGood
    <3>4. sessions' \subseteq 1 .. made' /\ made <= made' /\ made' \in 0 .. MaxSids
      BY <1>1, <2>2
    <3> QED  BY <1>1, <3>3, <3>4
  <2> QED  BY <1>1, <1>4, <2>1, <2>2 DEF ServeLogin
<1>5. CASE ServeLogout(q)
  <2>1. UNCHANGED made /\ sessions' \subseteq sessions
    BY <1>5 DEF ServeLogout
  <2>2. \E a \in {"ok", "no", "denied", "error"} : Answered(q, 0, a)
    BY <1>5 DEF ServeLogout
  <2> QED  BY <1>1, <1>2, <2>1, <2>2
<1>6. CASE ServeGuarded(q)
  <2>1. UNCHANGED made /\ sessions' \subseteq sessions
    BY <1>6 DEF ServeGuarded, registry
  <2>2. \E a \in {"ok", "no", "denied", "error"} : Answered(q, 0, a)
    BY <1>6 DEF ServeGuarded
  <2> QED  BY <1>1, <1>2, <2>1, <2>2
<1> QED  BY <1>1, <1>3, <1>4, <1>5, <1>6 DEF Serve

\* An answer is taken off the way and requests of its page may be put on it.
LEMMA ArriveGood ==
    ASSUME Typed, NEW q \in BagToSet(net), NEW p \in Pages, UNCHANGED made,
           cookie' \in 0 .. made, NEW ks \in SUBSET Kind, Arrived(q, p, ks)
    PROVE  Good(net', made')
<1>1. Good(BagRemove(net, q), made)  BY GoodRemove DEF Typed
<1>2. Good(Asked(p, ks, cookie'), made)  BY AskedGood DEF Typed, TypeOK
<1> QED  BY <1>1, <1>2, GoodPlus DEF Arrived

LEMMA ReloadGood ==
    ASSUME Typed, NEW B, Good(B, made), NEW p \in Pages, UNCHANGED made,
           cookie' \in 0 .. made, Reload(p, B)
    PROVE  Good(net', made')
<1>1. Good(Orphaned(p, B), made)  BY OrphanedGood
<1>2. Good(Asked(p, {"session"}, cookie'), made)
  BY AskedGood DEF Typed, TypeOK, Kind
<1> QED  BY <1>1, <1>2, GoodPlus DEF Reload

\* A page that reloads starts again.
LEMMA ReloadTyped ==
    ASSUME Typed, NEW B, Good(B, made), NEW p \in Pages, UNCHANGED registry,
           cookie' \in 0 .. made, clicks' \in 0 .. MaxClicks, Reload(p, B)
    PROVE  Typed'
<1>1. Good(net', made')  BY ReloadGood DEF registry
<1>2. 0 \in 0 .. MaxPage  BY BoundsAssumption
<1> QED  BY <1>1, <1>2 DEF Typed, TypeOK, Good, Reload, registry, Tab

LEMMA ReceiveTyped ==
    ASSUME Typed, NEW q \in BagToSet(net), Receive(q)
    PROVE  Typed'
<1> USE BoundsAssumption
<1>1. /\ UNCHANGED <<registry, clicks>> /\ UNCHANGED made
      /\ q.sid \in 0 .. made /\ cookie \in 0 .. made
      /\ clicks \in 0 .. MaxClicks /\ 0 \in 0 .. made
  BY Fetched DEF Receive, registry, Typed, TypeOK
<1>2. Good(BagRemove(net, q), made)  BY GoodRemove DEF Typed
<1>3. CASE Dropped(q)
  <2>1. cookie' \in 0 .. made  BY <1>1, <1>3 DEF Dropped
  <2>2. Good(net', made')  BY <1>1, <1>2, <1>3 DEF Dropped
  <2> QED
    BY <1>1, <1>3, <2>1, <2>2
       DEF Typed, TypeOK, Good, Dropped, registry, panel
<1>4. ASSUME NEW p \in q.page, p \in Pages, Denied(q, p) PROVE Typed'
  <2>1. cookie' \in 0 .. made  BY <1>1, <1>4 DEF Denied
  <2> QED  BY <1>1, <1>2, <1>4, <2>1, ReloadTyped DEF Denied
<1>5. ASSUME NEW p \in q.page, p \in Pages, SessionChecked(q, p)
      PROVE  Typed'
  <2>1. UNCHANGED <<cookie, panel>> /\ cookie' \in 0 .. made
    BY <1>1, <1>5 DEF SessionChecked
  <2>2. view' \in [Pages -> {"blank", "login", "panel"}]
    BY <1>5 DEF SessionChecked, Typed, TypeOK
  <2>3. \E ks \in SUBSET Kind : Arrived(q, p, ks)
    <3>1. {"table"} \in SUBSET Kind /\ {} \in SUBSET Kind
      BY DEF Kind, Guarded
    <3> QED  BY <1>5, <3>1 DEF SessionChecked
  <2>4. Good(net', made')  BY <1>1, <1>5, <2>1, <2>3, ArriveGood
  <2> QED
    BY <1>1, <2>1, <2>2, <2>4 DEF Typed, TypeOK, Good, registry, panel
<1>6. ASSUME NEW p \in q.page, p \in Pages, LoggedIn(q, p) PROVE Typed'
  <2>1. UNCHANGED panel /\ cookie' \in 0 .. made
    BY <1>1, <1>6 DEF LoggedIn
  <2>2. view' \in [Pages -> {"blank", "login", "panel"}]
    BY <1>6 DEF LoggedIn, Typed, TypeOK
  <2>3. \E ks \in SUBSET Kind : Arrived(q, p, ks)
    <3>1. {"table"} \in SUBSET Kind /\ {} \in SUBSET Kind
      BY DEF Kind, Guarded
    <3> QED  BY <1>6, <3>1 DEF LoggedIn
  <2>4. Good(net', made')  BY <1>1, <1>6, <2>1, <2>3, ArriveGood
  <2> QED
    BY <1>1, <2>1, <2>2, <2>4 DEF Typed, TypeOK, Good, registry, panel
<1>7. ASSUME NEW p \in q.page, p \in Pages,
             Loaded(q, p) \/ FilesLoaded(q, p) \/ Created(q, p) \/ Deleted(q, p)
      PROVE  Typed'
  <2>1. /\ UNCHANGED <<cookie, view, tab, filesPage>> /\ cookie' \in 0 .. made
        /\ prevOff' \in [Pages -> BOOLEAN] /\ busy' \in [Pages -> BOOLEAN]
        /\ unlisted' \in [Pages -> BOOLEAN]
    BY <1>1, <1>7
       DEF Loaded, FilesLoaded, Created, Deleted, panel, Typed, TypeOK
  <2>2. \E ks \in SUBSET Kind : Arrived(q, p, ks)
    <3>1. /\ {"table"} \in SUBSET Kind /\ {} \in SUBSET Kind
          /\ {"files", "table"} \in SUBSET Kind
      BY DEF Kind, Guarded
    <3> QED  BY <1>7, <3>1 DEF Loaded, FilesLoaded, Created, Deleted
  <2>3. Good(net', made')  BY <1>1, <1>7, <2>1, <2>2, ArriveGood
  <2> QED
    BY <1>1, <2>1, <2>3 DEF Typed, TypeOK, Good, registry
<1>8. \A p \in q.page : p \in Pages  BY Fetched
<1> QED
  BY <1>3, <1>4, <1>5, <1>6, <1>7, <1>8 DEF Receive

LEMMA ClickGood ==
    ASSUME Typed, NEW p \in Pages, NEW k \in Kind, Click(p, k)
    PROVE  /\ Good(net', made') /\ clicks' \in 0 .. MaxClicks
           /\ UNCHANGED <<sessions, made, cookie, view>>
<1>1. Good(Asked(p, {k}, cookie), made)  BY AskedGood DEF Typed, TypeOK
<1>2. UNCHANGED <<sessions, made, cookie, view>>  BY DEF Click, registry
<1>3. Good(net', made')  BY <1>1, <1>2, GoodPlus DEF Click, Typed
<1>4. clicks' \in 0 .. MaxClicks
  BY BoundsAssumption DEF Click, Typed, TypeOK
<1> QED  BY <1>2, <1>3, <1>4

LEMMA UserTyped ==
    ASSUME Typed, NEW p \in Pages, User(p)
    PROVE  Typed'
<1>1. ASSUME NEW k \in Kind, Click(p, k),
             tab' \in [Pages -> Tab], filesPage' \in [Pages -> 0 .. MaxPage],
             busy' \in [Pages -> BOOLEAN], UNCHANGED <<prevOff, unlisted>>
      PROVE  Typed'
  BY <1>1, ClickGood DEF Typed, TypeOK, Good
<1>2. /\ tab \in [Pages -> Tab] /\ filesPage \in [Pages -> 0 .. MaxPage]
      /\ busy \in [Pages -> BOOLEAN]
  BY DEF Typed, TypeOK
<1>3. /\ "login" \in Kind /\ "logout" \in Kind /\ "files" \in Kind
      /\ "table" \in Kind /\ "create" \in Kind /\ "delete" \in Kind
  BY DEF Kind, Guarded
<1>4. CASE Login(p)  BY <1>1, <1>2, <1>3, <1>4 DEF Login, panel
<1>5. CASE Turn(p)  BY <1>1, <1>2, <1>3, <1>5 DEF Turn
<1>6. CASE Logout(p)  BY <1>1, <1>2, <1>3, <1>6 DEF Logout, panel
<1>7. CASE CreateChannel(p)  BY <1>1, <1>2, <1>3, <1>7 DEF CreateChannel
<1>8. CASE TurnList(p)
  <2>1. filesPage' \in [Pages -> 0 .. MaxPage]
    BY <1>2, <1>8, BoundsAssumption DEF TurnList
  <2> QED  BY <1>1, <1>2, <1>3, <1>8, <2>1 DEF TurnList
<1>9. CASE DeleteFile(p)  BY <1>1, <1>2, <1>3, <1>9 DEF DeleteFile, panel
<1>10. CASE Refresh(p)
  <2>1. clicks' \in 0 .. MaxClicks
    BY <1>10, BoundsAssumption DEF Refresh, Typed, TypeOK
  <2>2. UNCHANGED registry /\ cookie' \in 0 .. made /\ Reload(p, net)
    BY <1>10 DEF Refresh, Typed, TypeOK
  <2> QED  BY <2>1, <2>2, ReloadTyped DEF Typed
<1> QED
  BY <1>4, <1>5, <1>6, <1>7, <1>8, <1>9, <1>10 DEF User

LEMMA InitTyped == ASSUME Init PROVE Typed
<1> USE BoundsAssumption DEF Init
<1> DEFINE S == {[page |-> {p}, kind |-> "session", sid |-> cookie,
                  answer |-> "none"] : p \in Pages}
<1>1. /\ made \in 0 .. MaxSids /\ sessions \subseteq 1 .. made
      /\ cookie \in 0 .. made /\ cookie \in 0 .. MaxSids /\ cookie <= made
  OBVIOUS
<1>2. \A x \in S : x \in Request /\ x.sid <= made
  <2> SUFFICES ASSUME NEW p \in Pages
               PROVE  [page |-> {p}, kind |-> "session", sid |-> cookie,
                       answer |-> "none"] \in Request
    BY <1>1
  <2>1. {p} \in {{}} \cup {{r} : r \in Pages} /\ "session" \in Kind
    BY DEF Kind
  <2> HIDE DEF Init
  <2> QED  BY <1>1, <2>1 DEF Request
<1>3. net = SetToBag(S)  OBVIOUS
<1> HIDE DEF S
<1>4. Good(net, made)
  <2> HIDE DEF Init
  <2> QED  BY <1>2, <1>3, CopiesSet DEF Good
<1>5. TypeOK
  <2>1. /\ view \in [Pages -> {"blank", "login", "panel"}]
        /\ tab \in [Pages -> Tab] /\ filesPage \in [Pages -> 0 .. MaxPage]
        /\ prevOff \in [Pages -> BOOLEAN] /\ busy \in [Pages -> BOOLEAN]
        /\ unlisted \in [Pages -> BOOLEAN] /\ clicks \in 0 .. MaxClicks
    BY DEF Tab
  <2> HIDE DEF Init
  <2> QED  BY <1>1, <1>4, <2>1 DEF TypeOK, Good
<1> QED  BY <1>4, <1>5 DEF Typed

LEMMA StepTyped == ASSUME Typed, [Next]_vars PROVE Typed'
<1>1. ASSUME NEW q \in BagToSet(net), Serve(q) PROVE Typed'
  BY <1>1, ServeNet DEF Typed, TypeOK, Good, panel
<1>2. ASSUME NEW q \in BagToSet(net), Receive(q) PROVE Typed'
  BY <1>2, ReceiveTyped
<1>3. CASE SessionsEnd
  BY <1>3 DEF SessionsEnd, Typed, TypeOK, Good, panel
<1>4. ASSUME NEW p \in Pages, User(p) PROVE Typed'
  BY <1>4, UserTyped
<1>5. CASE UNCHANGED vars
  BY <1>5 DEF vars, registry, panel, Typed, TypeOK, Good
<1> QED
  BY <1>1, <1>2, <1>3, <1>4, <1>5 DEF Next, Network

LEMMA Typing == Spec => []Typed
BY InitTyped, StepTyped, PTL DEF Spec

\* Every variable of the browser and the registry has its type: no page of the
\* list below the first, no cookie of a session that was never made.
THEOREM TypeCorrect == Spec => []TypeOK
<1>1. Typed => TypeOK  BY DEF Typed
<1> QED  BY <1>1, Typing, PTL

-----------------------------------------------------------------------------
(* The two buttons of a page, and the requests they answer for             *)

IsOf(x, p, k) == x \in Request /\ x.page = {p} /\ x.kind = k

\* The page waits for exactly one create request, or for none.
Single(p) ==
    IF busy[p]
    THEN \E w \in Request :
            /\ IsOf(w, p, "create") /\ Copies(w, net) = 1
            /\ \A x \in Request :
                  IsOf(x, p, "create") /\ x # w => Copies(x, net) = 0
    ELSE \A x \in Request : IsOf(x, p, "create") => Copies(x, net) = 0

\* Without a list on its way, "previous" fits the page of the list.
Fit(p) ==
    /\ \A x \in Request : IsOf(x, p, "files") => Copies(x, net) = 0
    /\ ~unlisted[p]
    => (prevOff[p] <=> filesPage[p] = 0)

\* A step leaves the requests of kind k of page p as they are.
Kept(p, k) ==
    \A x \in Request : IsOf(x, p, k) => Copies(x, net') = Copies(x, net)

SameList(p) ==
    /\ prevOff'[p] = prevOff[p] /\ filesPage'[p] = filesPage[p]
    /\ unlisted'[p] = unlisted[p]

LEMMA SingleKept ==
    ASSUME NEW p, Single(p), Kept(p, "create"), busy'[p] = busy[p]
    PROVE  Single(p)'
BY DEF Single, Kept, IsOf

LEMMA FitKept ==
    ASSUME NEW p, Fit(p), Kept(p, "files"), SameList(p)
    PROVE  Fit(p)'
BY DEF Fit, Kept, IsOf, SameList

LEMMA FitAwaits ==
    ASSUME NEW p, NEW x \in Request, IsOf(x, p, "files"), Copies(x, net') # 0
    PROVE  Fit(p)'
BY DEF Fit, IsOf

\* What the network does to the number of copies of a request.
LEMMA ReplacedCopies ==
    ASSUME Typed, NEW q \in BagToSet(net), NEW b, Replaced(q, b), NEW x
    PROVE  Copies(x, net') = Copies(x, net) - (IF x = q THEN 1 ELSE 0)
                               + (IF x = b THEN 1 ELSE 0)
<1>1. IsABag(net)  BY DEF Typed, Good
<1>2. /\ IsABag(BagRemove(net, q))
      /\ Copies(x, BagRemove(net, q)) = Copies(x, net) - (IF x = q THEN 1 ELSE 0)
  BY <1>1, CopiesRemove
<1> QED  BY <1>2, CopiesAdd DEF Replaced

LEMMA ArrivedCopies ==
    ASSUME Typed, NEW q \in BagToSet(net), NEW p \in Pages,
           cookie' \in 0 .. made, NEW ks \in SUBSET Kind, Arrived(q, p, ks), NEW x
    PROVE  Copies(x, net')
             = Copies(x, net) - (IF x = q THEN 1 ELSE 0)
                 + (IF \E k \in ks : x = Asking(p, k, cookie') THEN 1 ELSE 0)
<1>1. IsABag(net)  BY DEF Typed, Good
<1>2. /\ IsABag(BagRemove(net, q))
      /\ Copies(x, BagRemove(net, q)) = Copies(x, net) - (IF x = q THEN 1 ELSE 0)
  BY <1>1, CopiesRemove
<1>3. /\ IsABag(Asked(p, ks, cookie'))
      /\ Copies(x, Asked(p, ks, cookie'))
           = IF \E k \in ks : x = Asking(p, k, cookie') THEN 1 ELSE 0
  BY AskedGood DEF Good, Typed, TypeOK
<1> QED  BY <1>2, <1>3, CopiesPlus DEF Arrived

LEMMA ReloadCopies ==
    ASSUME Typed, NEW B, Good(B, made), NEW p \in Pages, NEW r \in Pages,
           cookie' \in 0 .. made, Reload(p, B), NEW x \in Request, x.page = {r},
           x.kind # "session"
    PROVE  Copies(x, net') = IF r = p THEN 0 ELSE Copies(x, B)
<1>1. /\ IsABag(Orphaned(p, B))
      /\ Copies(x, Orphaned(p, B)) = IF r = p THEN 0 ELSE Copies(x, B)
  BY OrphanedGood DEF Good
<1>2. /\ IsABag(Asked(p, {"session"}, cookie'))
      /\ Copies(x, Asked(p, {"session"}, cookie')) = 0
  <2>1. {"session"} \in SUBSET Kind  BY DEF Kind
  <2>2. \A k \in {"session"} : x # Asking(p, k, cookie')  BY DEF Asking
  <2> QED  BY <2>1, <2>2, AskedGood DEF Good, Typed, TypeOK
<1>3. Copies(x, B) \in Nat  BY CopiesCount DEF Good
<1> QED  BY <1>1, <1>2, <1>3, CopiesPlus DEF Reload

LEMMA ClickCopies ==
    ASSUME Typed, NEW p \in Pages, NEW k \in Kind, Click(p, k), NEW x
    PROVE  Copies(x, net')
             = Copies(x, net) + (IF x = Asking(p, k, cookie) THEN 1 ELSE 0)
<1>1. /\ IsABag(Asked(p, {k}, cookie))
      /\ Copies(x, Asked(p, {k}, cookie))
           = IF \E l \in {k} : x = Asking(p, l, cookie) THEN 1 ELSE 0
  BY AskedGood, ZenonT(60) DEF Good, Typed, TypeOK
<1> QED  BY <1>1, CopiesPlus DEF Click, Typed, Good

LEMMA AskingIs ==
    ASSUME Typed, NEW p \in Pages, NEW k \in Kind, NEW c \in 0 .. made
    PROVE  /\ Asking(p, k, c) \in Request
           /\ \A r \in Pages : \A l : IsOf(Asking(p, k, c), r, l) <=> r = p /\ l = k
<1>1. c \in 0 .. MaxSids  BY BoundsAssumption DEF Typed, TypeOK
<1>2. Asking(p, k, c) \in Request  BY <1>1 DEF Asking, Request
<1>3. Asking(p, k, c).page = {p} /\ Asking(p, k, c).kind = k  BY DEF Asking
<1> QED  BY <1>2, <1>3 DEF IsOf

\* An answer that is none of page r's of kind k, and asks for none of it.
LEMMA ArrivedKept ==
    ASSUME Typed, NEW q \in BagToSet(net), NEW p \in Pages,
           cookie' \in 0 .. made, NEW ks \in SUBSET Kind, Arrived(q, p, ks),
           NEW r \in Pages, NEW k, ~IsOf(q, r, k), r # p \/ k \notin ks
    PROVE  Kept(r, k)
<1> SUFFICES ASSUME NEW x \in Request, IsOf(x, r, k)
             PROVE  Copies(x, net') = Copies(x, net)
  BY DEF Kept
<1>1. x # q  OBVIOUS
<1>2. \A l \in ks : x # Asking(p, l, cookie')  BY AskingIs
<1>3. Copies(x, net) \in Nat  BY CopiesCount DEF Typed, Good
<1> QED  BY <1>1, <1>2, <1>3, ArrivedCopies

LEMMA ServeButtons ==
    ASSUME Typed, NEW q \in BagToSet(net), Serve(q),
           NEW r \in Pages, Single(r), Fit(r)
    PROVE  Single(r)' /\ Fit(r)'
<1>1. PICK b \in Request : Replaced(q, b)  BY ServeNet
<1>2. /\ q \in Request /\ b # q
      /\ \A k : IsOf(q, r, k) <=> IsOf(b, r, k)
  BY <1>1, Fetched DEF Replaced, IsOf
<1>3. \A x : /\ Copies(x, net) \in Nat
             /\ Copies(x, net')
                  = Copies(x, net) - (IF x = q THEN 1 ELSE 0)
                      + (IF x = b THEN 1 ELSE 0)
  BY <1>1, ReplacedCopies, CopiesCount DEF Typed, Good
<1>4. Copies(q, net) > 0  BY CopiesCount DEF Typed, Good
<1>5. UNCHANGED panel  BY ServeNet
<1>6. ASSUME NEW k, ~IsOf(q, r, k) PROVE Kept(r, k)
  BY <1>2, <1>3, <1>6 DEF Kept
<1>7. Single(r)'
  <2>1. CASE ~IsOf(q, r, "create")
    BY <1>5, <1>6, <2>1, SingleKept DEF panel
  <2>2. CASE IsOf(q, r, "create")
    <3>1. /\ busy[r] /\ Copies(q, net) = 1
          /\ \A x \in Request :
                IsOf(x, r, "create") /\ x # q => Copies(x, net) = 0
      BY <1>2, <1>4, <2>2 DEF Single
    <3>2. busy'[r]  BY <1>5, <3>1 DEF panel
    <3>3. IsOf(b, r, "create") /\ Copies(b, net') = 1
      BY <1>2, <1>3, <2>2, <3>1
    <3>4. \A x \in Request :
             IsOf(x, r, "create") /\ x # b => Copies(x, net') = 0
      BY <1>3, <3>1
    <3> QED  BY <3>2, <3>3, <3>4 DEF Single, IsOf
  <2> QED  BY <2>1, <2>2
<1>8. Fit(r)'
  <2>1. CASE ~IsOf(q, r, "files")
    BY <1>5, <1>6, <2>1, FitKept DEF panel, SameList
  <2>2. CASE IsOf(q, r, "files")
    <3>1. Copies(b, net') # 0  BY <1>2, <1>3
    <3> QED  BY <1>2, <2>2, <3>1, FitAwaits
  <2> QED  BY <2>1, <2>2
<1> QED  BY <1>7, <1>8

LEMMA ReloadButtons ==
    ASSUME Typed, NEW B, Good(B, made), NEW p \in Pages, NEW r \in Pages,
           cookie' \in 0 .. made, Reload(p, B), Single(r), Fit(r),
           \A x \in Request : x.page = {r} /\ r # p
               => Copies(x, B) = Copies(x, net)
    PROVE  Single(r)' /\ Fit(r)'
<1>1. CASE r = p
  <2>1. ~busy'[r] /\ unlisted'[r]
    BY <1>1 DEF Reload, Typed, TypeOK
  <2>2. \A x \in Request : IsOf(x, r, "create") => Copies(x, net') = 0
    BY <1>1, ReloadCopies DEF IsOf
  <2> QED  BY <2>1, <2>2 DEF Single, Fit, IsOf
<1>2. CASE r # p
  <2>1. busy'[r] = busy[r] /\ SameList(r)
    BY <1>2 DEF Reload, Typed, TypeOK, SameList
  <2>2. Kept(r, "create") /\ Kept(r, "files")
    BY <1>2, ReloadCopies DEF Kept, IsOf
  <2> QED  BY <2>1, <2>2, SingleKept, FitKept
<1> QED  BY <1>1, <1>2

LEMMA ReceiveButtons ==
    ASSUME Typed, NEW q \in BagToSet(net), Receive(q),
           NEW r \in Pages, Single(r), Fit(r)
    PROVE  Single(r)' /\ Fit(r)'
<1>1. /\ q \in Request /\ cookie' \in 0 .. made
      /\ q.page = {} \/ \E p \in Pages : q.page = {p}
  <2>1. Typed'  BY ReceiveTyped
  <2>2. UNCHANGED made  BY DEF Receive, registry
  <2> QED  BY <2>1, <2>2, Fetched DEF Typed, TypeOK
<1>2. /\ Good(BagRemove(net, q), made) /\ IsABag(net)
      /\ \A x : Copies(x, BagRemove(net, q))
                 = Copies(x, net) - (IF x = q THEN 1 ELSE 0)
  BY GoodRemove, CopiesRemove DEF Typed, Good
<1>3. \A x : Copies(x, net) \in Nat  BY <1>2, CopiesCount
<1>4. CASE Dropped(q)
  <2>1. q.page = {} /\ net' = BagRemove(net, q) /\ UNCHANGED panel
    BY <1>4 DEF Dropped
  <2>2. Kept(r, "create") /\ Kept(r, "files")
    <3>1. \A x \in Request : x.page = {r} => x # q  BY <2>1
    <3>2. \A x \in Request : x.page = {r} => Copies(x, net') = Copies(x, net)
      BY <1>2, <1>3, <2>1, <3>1
    <3> QED  BY <3>2 DEF Kept, IsOf
  <2> QED  BY <2>1, <2>2, SingleKept, FitKept DEF panel, SameList
<1>5. ASSUME NEW p \in Pages, q.page = {p}, Denied(q, p)
      PROVE  Single(r)' /\ Fit(r)'
  <2>1. Reload(p, BagRemove(net, q))  BY <1>5 DEF Denied
  <2>2. \A x \in Request : x.page = {r} /\ r # p
           => Copies(x, BagRemove(net, q)) = Copies(x, net)
    <3>1. \A x \in Request : x.page = {r} /\ r # p => x # q  BY <1>5
    <3> QED  BY <1>2, <1>3, <3>1
  <2> QED  BY <1>1, <1>2, <2>1, <2>2, ReloadButtons
<1>6. ASSUME NEW p \in Pages, q.page = {p},
             SessionChecked(q, p) \/ LoggedIn(q, p) \/ Loaded(q, p)
      PROVE  Single(r)' /\ Fit(r)'
  <2>1. q.kind \in {"session", "login", "table"} /\ UNCHANGED panel
    BY <1>6 DEF SessionChecked, LoggedIn, Loaded
  <2>2. PICK ks \in {{}, {"table"}} : Arrived(q, p, ks)
    BY <1>6 DEF SessionChecked, LoggedIn, Loaded
  <2>3. ks \in SUBSET Kind  BY DEF Kind, Guarded
  <2>4. ~IsOf(q, r, "create") /\ ~IsOf(q, r, "files")  BY <2>1 DEF IsOf
  <2>5. Kept(r, "create") /\ Kept(r, "files")
    BY <1>1, <2>2, <2>3, <2>4, ArrivedKept
  <2> QED  BY <2>1, <2>5, SingleKept, FitKept DEF panel, SameList
<1>7. ASSUME NEW p \in Pages, q.page = {p}, FilesLoaded(q, p)
      PROVE  Single(r)' /\ Fit(r)'
  <2>1. q.kind = "files" /\ Arrived(q, p, {}) /\ UNCHANGED <<filesPage, busy>>
    BY <1>7 DEF FilesLoaded
  <2>2. {} \in SUBSET Kind  OBVIOUS
  <2>3. ~IsOf(q, r, "create") /\ (r # p => ~IsOf(q, r, "files"))
    BY <1>7, <2>1 DEF IsOf
  <2>4. Kept(r, "create") /\ (r # p => Kept(r, "files"))
    BY <1>1, <2>1, <2>2, <2>3, ArrivedKept
  <2>5. Single(r)'  BY <2>1, <2>4, SingleKept
  <2>6. CASE r # p
    <3>1. SameList(r)  BY <1>7, <2>6 DEF FilesLoaded, SameList, Typed, TypeOK
    <3> QED  BY <2>4, <2>5, <2>6, <3>1, FitKept
  <2>7. CASE r = p
    <3>1. unlisted'[p] \/ (prevOff'[p] <=> filesPage'[p] = 0)
      <4>1. CASE q.answer = "error"
        BY <1>7, <4>1 DEF FilesLoaded, Typed, TypeOK
      <4>2. CASE q.answer = "ok"
        BY <1>7, <4>2 DEF FilesLoaded, Typed, TypeOK
      <4> QED  BY <1>7, <4>1, <4>2 DEF FilesLoaded
    <3> QED  BY <2>5, <2>7, <3>1 DEF Fit, IsOf
  <2> QED  BY <2>6, <2>7
<1>8. ASSUME NEW p \in Pages, q.page = {p}, Created(q, p)
      PROVE  Single(r)' /\ Fit(r)'
  <2>1. q.kind = "create" /\ UNCHANGED <<filesPage, prevOff, unlisted>>
    BY <1>8 DEF Created
  <2>2. PICK ks \in {{}, {"table"}} : Arrived(q, p, ks)
    BY <1>8 DEF Created
  <2>3. ks \in SUBSET Kind  BY DEF Kind, Guarded
  <2>4. ~IsOf(q, r, "files") /\ (r # p => ~IsOf(q, r, "create"))
    BY <1>8, <2>1 DEF IsOf
  <2>5. Kept(r, "files") /\ (r # p => Kept(r, "create"))
    BY <1>1, <2>2, <2>3, <2>4, ArrivedKept
  <2>6. Fit(r)'  BY <2>1, <2>5, FitKept DEF SameList
  <2>7. CASE r # p
    <3>1. busy'[r] = busy[r]  BY <1>8, <2>7 DEF Created, Typed, TypeOK
    <3> QED  BY <2>5, <2>6, <2>7, <3>1, SingleKept
  <2>8. CASE r = p
    <3>1. IsOf(q, r, "create") /\ Copies(q, net) > 0
      BY <1>1, <1>2, <1>8, <2>1, <2>8, CopiesCount DEF IsOf
    <3>2. /\ Copies(q, net) = 1
          /\ \A x \in Request :
                IsOf(x, r, "create") /\ x # q => Copies(x, net) = 0
      BY <1>1, <3>1 DEF Single
    <3>3. ASSUME NEW x \in Request, IsOf(x, r, "create")
          PROVE  Copies(x, net') = 0
      <4>1. \A l \in ks : x # Asking(p, l, cookie')
        BY <1>1, <2>3, <3>3, AskingIs
      <4> QED  BY <1>1, <2>2, <2>3, <3>2, <3>3, <4>1, ArrivedCopies
    <3>4. ~busy'[r]  BY <1>8, <2>8 DEF Created, Typed, TypeOK
    <3> QED  BY <2>6, <3>3, <3>4 DEF Single, IsOf
  <2> QED  BY <2>7, <2>8
<1>9. ASSUME NEW p \in Pages, q.page = {p}, Deleted(q, p)
      PROVE  Single(r)' /\ Fit(r)'
  <2>1. q.kind = "delete" /\ UNCHANGED panel
    BY <1>9 DEF Deleted
  <2>2. PICK ks \in {{}, {"files", "table"}} : Arrived(q, p, ks)
    BY <1>9 DEF Deleted
  <2>3. ks \in SUBSET Kind  BY DEF Kind, Guarded
  <2>4. ~IsOf(q, r, "create") /\ ~IsOf(q, r, "files")  BY <2>1 DEF IsOf
  <2>5. Kept(r, "create") /\ (r # p \/ ks = {} => Kept(r, "files"))
    BY <1>1, <2>2, <2>3, <2>4, ArrivedKept
  <2>6. Single(r)'  BY <2>1, <2>5, SingleKept DEF panel
  <2>7. CASE r # p \/ ks = {}
    BY <2>1, <2>5, <2>6, <2>7, FitKept DEF panel, SameList
  <2>8. CASE r = p /\ ks = {"files", "table"}
    <3> DEFINE x == Asking(p, "files", cookie')
    <3>1. x \in Request /\ IsOf(x, r, "files")
      BY <1>1, <2>8, AskingIs DEF Kind, Guarded
    <3>2. x # q  BY <2>4, <3>1
    <3>3. Copies(x, net') = Copies(x, net) + 1
      <4>1. \E k \in ks : x = Asking(p, k, cookie')  BY <2>8
      <4> HIDE DEF x
      <4> QED  BY <1>1, <1>3, <2>2, <2>3, <3>2, <4>1, ArrivedCopies
    <3> HIDE DEF x
    <3>4. Copies(x, net') # 0  BY <1>3, <3>3
    <3> QED  BY <2>6, <3>1, <3>4, FitAwaits
  <2> QED  BY <2>2, <2>7, <2>8
<1> QED
  BY <1>1, <1>4, <1>5, <1>6, <1>7, <1>8, <1>9 DEF Receive

LEMMA UserButtons ==
    ASSUME Typed, NEW p \in Pages, User(p), NEW r \in Pages, Single(r), Fit(r)
    PROVE  Single(r)' /\ Fit(r)'
<1>1. cookie \in 0 .. made /\ \A x : Copies(x, net) \in Nat
  BY CopiesCount DEF Typed, TypeOK, Good
<1>2. ASSUME NEW k \in Kind, Click(p, k)
      PROVE  /\ \A l : r # p \/ l # k => Kept(r, l)
             /\ r = p => /\ IsOf(Asking(p, k, cookie), r, k)
                         /\ Copies(Asking(p, k, cookie), net')
                              = Copies(Asking(p, k, cookie), net) + 1
             /\ \A x \in Request : x # Asking(p, k, cookie)
                                   => Copies(x, net') = Copies(x, net)
  BY <1>1, <1>2, ClickCopies, AskingIs DEF Kept
<1>3. /\ "login" \in Kind /\ "logout" \in Kind /\ "files" \in Kind
      /\ "table" \in Kind /\ "create" \in Kind /\ "delete" \in Kind
  BY DEF Kind, Guarded
<1>4. ASSUME NEW k \in Kind \ {"create"}, Click(p, k), UNCHANGED busy,
             k = "files" \/ SameList(r), r # p => SameList(r)
      PROVE  Single(r)' /\ Fit(r)'
  <2>1. Single(r)'  BY <1>2, <1>4, SingleKept
  <2>2. CASE r # p \/ k # "files"
    BY <1>2, <1>4, <2>1, <2>2, FitKept
  <2>3. CASE r = p /\ k = "files"
    <3> DEFINE x == Asking(p, k, cookie)
    <3>1. IsOf(x, r, "files") /\ Copies(x, net') = Copies(x, net) + 1
      BY <1>2, <1>4, <2>3
    <3> HIDE DEF x
    <3> QED  BY <1>1, <2>1, <3>1, FitAwaits DEF IsOf
  <2> QED  BY <2>2, <2>3
<1>5. CASE Login(p)
  BY <1>3, <1>4, <1>5 DEF Login, panel, SameList
<1>6. CASE Turn(p)
  BY <1>3, <1>4, <1>6 DEF Turn, SameList
<1>7. CASE Logout(p)
  BY <1>3, <1>4, <1>7 DEF Logout, panel, SameList
<1>8. CASE CreateChannel(p)
  <2>1. Click(p, "create") /\ ~busy[p] /\ SameList(r)
    BY <1>8 DEF CreateChannel, SameList
  <2>2. Fit(r)'  BY <1>2, <1>3, <2>1, FitKept
  <2>3. CASE r # p
    <3>1. busy'[r] = busy[r]  BY <1>8, <2>3 DEF CreateChannel, Typed, TypeOK
    <3> QED  BY <1>2, <1>3, <2>1, <2>2, <2>3, <3>1, SingleKept
  <2>4. CASE r = p
    <3> DEFINE w == Asking(p, "create", cookie)
    <3>1. /\ IsOf(w, r, "create") /\ Copies(w, net') = Copies(w, net) + 1
          /\ \A x \in Request : x # w => Copies(x, net') = Copies(x, net)
      BY <1>2, <1>3, <2>1, <2>4
    <3> HIDE DEF w
    <3>2. w \in Request  BY <3>1 DEF IsOf
    <3>3. \A x \in Request : IsOf(x, r, "create") => Copies(x, net) = 0
      BY <2>1, <2>4 DEF Single
    <3>4. /\ Copies(w, net') = 1
          /\ \A x \in Request :
                IsOf(x, r, "create") /\ x # w => Copies(x, net') = 0
      BY <3>1, <3>2, <3>3
    <3>5. busy'[r]  BY <1>8, <2>4 DEF CreateChannel, Typed, TypeOK
    <3> QED  BY <2>2, <3>1, <3>2, <3>4, <3>5 DEF Single, IsOf
  <2> QED  BY <2>3, <2>4
<1>9. CASE TurnList(p)
  <2>1. Click(p, "files") /\ UNCHANGED busy
    BY <1>9 DEF TurnList
  <2>2. r # p => SameList(r)
    BY <1>9 DEF TurnList, SameList, Typed, TypeOK
  <2> QED  BY <1>3, <1>4, <2>1, <2>2
<1>10. CASE DeleteFile(p)
  BY <1>3, <1>4, <1>10 DEF DeleteFile, panel, SameList
<1>11. CASE Refresh(p)
  <2>1. Reload(p, net) /\ cookie' \in 0 .. made
    BY <1>1, <1>11 DEF Refresh
  <2> QED  BY <2>1, ReloadButtons DEF Typed
<1> QED
  BY <1>5, <1>6, <1>7, <1>8, <1>9, <1>10, <1>11 DEF User

Buttons == \A p \in Pages : Single(p) /\ Fit(p)

LEMMA InitButtons == ASSUME Init PROVE Buttons
<1> SUFFICES ASSUME NEW p \in Pages PROVE Single(p) /\ Fit(p)
  BY DEF Buttons
<1> DEFINE S == {[page |-> {r}, kind |-> "session", sid |-> cookie,
                  answer |-> "none"] : r \in Pages}
<1>1. net = SetToBag(S)  BY DEF Init
<1>2. \A x \in S : x.kind = "session"  OBVIOUS
<1>3. \A x \in Request : IsOf(x, p, "create") => x \notin S
  BY <1>2 DEF IsOf
<1> HIDE DEF S
<1>4. \A x \in Request : IsOf(x, p, "create") => Copies(x, net) = 0
  BY <1>1, <1>3, CopiesSet
<1>5. ~busy[p] /\ unlisted[p]  BY DEF Init
<1> QED  BY <1>4, <1>5 DEF Single, Fit

LEMMA StepButtons == ASSUME Typed, Buttons, [Next]_vars PROVE Buttons'
<1> SUFFICES ASSUME NEW r \in Pages, Single(r), Fit(r)
             PROVE  Single(r)' /\ Fit(r)'
  BY DEF Buttons
<1>1. CASE UNCHANGED <<net, panel>>
  <2>1. Kept(r, "create") /\ Kept(r, "files")  BY <1>1 DEF Kept
  <2> QED  BY <1>1, <2>1, SingleKept, FitKept DEF panel, SameList
<1>2. CASE SessionsEnd  BY <1>1, <1>2 DEF SessionsEnd
<1>3. CASE UNCHANGED vars  BY <1>1, <1>3 DEF vars
<1> QED
  BY <1>2, <1>3, ServeButtons, ReceiveButtons, UserButtons DEF Next, Network

LEMMA Invariance == Spec => [](Typed /\ Buttons)
<1>1. Init => Typed /\ Buttons  BY InitTyped, InitButtons
<1>2. Typed /\ Buttons /\ [Next]_vars => (Typed /\ Buttons)'
  BY StepTyped, StepButtons
<1> QED  BY <1>1, <1>2, PTL DEF Spec

\* The requests of a page and their number of copies.
LEMMA OfCopies ==
    ASSUME Typed, NEW p, NEW k
    PROVE  /\ \A x : x \in Of(p, k) <=> IsOf(x, p, k) /\ Copies(x, net) > 0
           /\ \A x \in Of(p, k) : net[x] = Copies(x, net)
BY CopiesCount DEF Typed, Good, Of, IsOf, BagToSet, Copies

LEMMA ButtonsSuffice == ASSUME Typed, Buttons PROVE OneCreate /\ PrevFits
<1>1. OneCreate
  <2> SUFFICES ASSUME NEW p \in Pages
               PROVE  \/ ~busy[p] /\ Of(p, "create") = {}
                      \/ busy[p] /\ \E q \in Of(p, "create") :
                                      Of(p, "create") = {q} /\ net[q] = 1
    BY DEF OneCreate
  <2>1. Single(p)  BY DEF Buttons
  <2>2. CASE busy[p]
    <3>1. PICK w \in Request :
             /\ IsOf(w, p, "create") /\ Copies(w, net) = 1
             /\ \A x \in Request :
                   IsOf(x, p, "create") /\ x # w => Copies(x, net) = 0
      BY <2>1, <2>2 DEF Single
    <3>2. w \in Of(p, "create") /\ net[w] = 1  BY <3>1, OfCopies
    <3>3. \A x \in Of(p, "create") : x = w  BY <3>1, OfCopies DEF IsOf
    <3>4. Of(p, "create") = {w}  BY <3>2, <3>3
    <3> QED  BY <2>2, <3>2, <3>4
  <2>3. CASE ~busy[p]
    <3>1. \A x : x \notin Of(p, "create")
      BY <2>1, <2>3, OfCopies DEF Single, IsOf
    <3> QED  BY <2>3, <3>1
  <2> QED  BY <2>2, <2>3
<1>2. PrevFits
  <2> SUFFICES ASSUME NEW p \in Pages, Of(p, "files") = {}, ~unlisted[p]
               PROVE  prevOff[p] <=> filesPage[p] = 0
    BY DEF PrevFits
  <2>1. \A x \in Request : IsOf(x, p, "files") => Copies(x, net) = 0
    BY OfCopies, CopiesCount DEF Typed, Good
  <2>2. Fit(p)  BY DEF Buttons
  <2> QED  BY <2>1, <2>2 DEF Fit
<1> QED  BY <1>1, <1>2

\* The create button of the panel is disabled exactly while its request or the
\* answer to it is on its way, and then there is one: two clicks never make two
\* channels, and no answer, reload or 401 leaves the button disabled.
THEOREM OneCreation == Spec => []OneCreate
<1>1. Typed /\ Buttons => OneCreate  BY ButtonsSuffice
<1> QED  BY <1>1, Invariance, PTL

\* In whatever order the lists of files come, when none is on its way and the
\* last one came, "previous" is disabled on the first page only.
THEOREM ListButtonFits == Spec => []PrevFits
<1>1. Typed /\ Buttons => PrevFits  BY ButtonsSuffice
<1> QED  BY <1>1, Invariance, PTL
=============================================================================
