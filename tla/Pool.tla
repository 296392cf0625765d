-------------------------------- MODULE Pool --------------------------------
(***************************************************************************)
(* What the upload queue of the page promises (static/app.js:30 and 73):   *)
(* at most Slots files on their way at a time, no slot idle while a file   *)
(* waits, first come first served, and nothing is started or ends twice.   *)
(***************************************************************************)
EXTENDS Integers, FiniteSets

CONSTANTS Jobs,  \* numbers: the lower came first
          Slots

VARIABLES waiting, running, ended

vars == <<waiting, running, ended>>

Init == waiting = {} /\ running = {} /\ ended = {}

\* New jobs come in or running ones end, and the slots are filled again.
Step(new, ends, starts) ==
    /\ waiting' = (waiting \cup new) \ starts
    /\ running' = (running \ ends) \cup starts
    /\ ended' = ended \cup ends
    /\ Cardinality(running') <= Slots
    /\ waiting' # {} => Cardinality(running') = Slots
    /\ \A j \in starts, k \in waiting' : j < k

Next ==
    \E new \in SUBSET (Jobs \ (waiting \cup running \cup ended)),
       ends \in SUBSET running :
        \E starts \in SUBSET (waiting \cup new) : Step(new, ends, starts)

Spec == Init /\ [][Next]_vars
=============================================================================
