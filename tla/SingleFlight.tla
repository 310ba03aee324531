---------------------------- MODULE SingleFlight ----------------------------
(***************************************************************************)
(* What a cache with a lock promises its callers: while the value is not   *)
(* cached one caller at a time executes the function, the others wait for  *)
(* its value, and a value is never replaced by an older one.               *)
(* Values are numbered by age.  LockedCache is shown to implement this.    *)
(***************************************************************************)
EXTENDS Naturals

CONSTANTS Process, None

VARIABLES
    place,     \* place[p]: where p is in its call
    answer,    \* answer[p]: the value p is about to return
    cached,    \* the cached value
    newest     \* the newest value that was ever cached

vars == <<place, answer, cached, newest>>

Init ==
    /\ place = [p \in Process |-> "out"]
    /\ answer = [p \in Process |-> None]
    /\ cached = None
    /\ newest = 0

Ask(p) ==
    /\ place[p] = "out"
    /\ place' = [place EXCEPT ![p] = "asked"]
    /\ UNCHANGED <<answer, cached, newest>>

\* The value is there.
Take(p) ==
    /\ place[p] = "asked"
    /\ cached # None
    /\ place' = [place EXCEPT ![p] = "served"]
    /\ answer' = [answer EXCEPT ![p] = cached]
    /\ UNCHANGED <<cached, newest>>

\* It is not, and nobody is fetching it.
Fly(p) ==
    /\ place[p] = "asked"
    /\ cached = None
    /\ \A q \in Process : place[q] # "flying"
    /\ place' = [place EXCEPT ![p] = "flying"]
    /\ UNCHANGED <<answer, cached, newest>>

Land(p) ==
    /\ place[p] = "flying"
    /\ place' = [place EXCEPT ![p] = "served"]
    /\ cached' \in Nat
    /\ cached' >= newest
    /\ newest' = cached'
    /\ answer' = [answer EXCEPT ![p] = cached']

Leave(p) ==
    /\ place[p] = "served"
    /\ place' = [place EXCEPT ![p] = "out"]
    /\ answer' = [answer EXCEPT ![p] = None]
    /\ UNCHANGED <<cached, newest>>

Fail(p) ==
    /\ place[p] # "out"
    /\ place' = [place EXCEPT ![p] = "out"]
    /\ answer' = [answer EXCEPT ![p] = None]
    /\ UNCHANGED <<cached, newest>>

Expire ==
    /\ cached # None
    /\ cached' = None
    /\ UNCHANGED <<place, answer, newest>>

Next ==
    \/ \E p \in Process : Ask(p) \/ Take(p) \/ Fly(p) \/ Land(p) \/ Leave(p) \/ Fail(p)
    \/ Expire

Spec == Init /\ [][Next]_vars
=============================================================================
