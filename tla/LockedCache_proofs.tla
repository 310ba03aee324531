------------------------- MODULE LockedCache_proofs -------------------------
(***************************************************************************)
(* Proofs about LockedCache, for any number of processes and any number of *)
(* changes of the data.                                                    *)
(***************************************************************************)
EXTENDS LockedCache, TLAPS

\* The initial state is typed.
LEMMA TypeInit == Init => TypeOK
<1> SUFFICES ASSUME Init PROVE TypeOK
  OBVIOUS
<1>1. untimely \in BOOLEAN
  BY Zenon DEF Init
<1> QED
  BY <1>1, LockedCacheAssumption DEF Init, TypeOK

\* The type invariant is inductive, whatever may go wrong.
LEMMA TypeNext == TypeOK /\ [Next]_vars => TypeOK'
<1> SUFFICES ASSUME TypeOK, [Next]_vars PROVE TypeOK'
  OBVIOUS
<1> USE DEF TypeOK, Inside, Goto, Got, seen
<1>1. ASSUME NEW p \in Process, Call(p) PROVE TypeOK'
  BY <1>1 DEF Call
<1>2. ASSUME NEW p \in Process, Hit(p) PROVE TypeOK'
  BY <1>2 DEF Hit
<1>3. ASSUME NEW p \in Process, Miss(p) \/ Bypass(p) \/ GiveUp(p) PROVE TypeOK'
  BY <1>3 DEF Miss, Bypass, GiveUp
<1>4. ASSUME NEW p \in Process, Acquire(p) \/ AcquireLost(p) PROVE TypeOK'
  BY <1>4 DEF Acquire, AcquireLost
<1>5. ASSUME NEW p \in Process, HitAfterLock(p) PROVE TypeOK'
  BY <1>5 DEF HitAfterLock
<1>6. ASSUME NEW p \in Process, Execute(p) \/ Raise(p) PROVE TypeOK'
  BY <1>6 DEF Execute, Raise
<1>7. ASSUME NEW p \in Process, Compute(p) PROVE TypeOK'
  BY <1>7 DEF Compute
<1>8. ASSUME NEW p \in Process, Store(p) PROVE TypeOK'
  BY <1>8 DEF Store, Put
<1>9. ASSUME NEW p \in Process, Release(p) PROVE TypeOK'
  <2>1. CASE result[p] = None
    BY <1>9, <2>1 DEF Release
  <2>2. CASE result[p] # None
    BY <1>9, <2>2 DEF Release
  <2> QED
    BY <2>1, <2>2
<1>10. ASSUME NEW p \in Process, ReleaseError(p) PROVE TypeOK'
  BY <1>10 DEF ReleaseError
<1>11. ASSUME NEW p \in Process, Direct(p) PROVE TypeOK'
  BY <1>11 DEF Direct
<1>12. ASSUME NEW p \in Process, Return(p) \/ Crash(p) PROVE TypeOK'
  BY <1>12 DEF Return, Crash
<1>13. CASE CacheExpire \/ LockExpire \/ ClearCache \/ Change
  <2>1. CASE LockExpire
    <3>1. untimely' \in BOOLEAN
      BY <2>1, Zenon DEF LockExpire
    <3> QED
      BY <2>1, <3>1 DEF LockExpire
  <2>2. CASE ClearCache
    <3>1. untimely' \in BOOLEAN
      BY <2>2, Zenon DEF ClearCache
    <3> QED
      BY <2>2, <3>1 DEF ClearCache
  <2> QED
    BY <1>13, <2>1, <2>2 DEF CacheExpire, Change
<1>14. CASE UNCHANGED vars
  BY <1>14 DEF vars
<1> QED
  BY <1>1, <1>2, <1>3, <1>4, <1>5, <1>6, <1>7, <1>8, <1>9, <1>10, <1>11,
     <1>12, <1>13, <1>14 DEF Next, Work

\* Every variable keeps its type, whatever may go wrong.
THEOREM TypeCorrect == Spec => []TypeOK
BY TypeInit, TypeNext, PTL DEF Spec

-----------------------------------------------------------------------------
(* While the lock outlives executions and waits are not given up, whoever   *)
(* is inside has the lock, and what is being stored is not older than what  *)
(* was stored before.                                                       *)

Locked ==
    \A p \in Process : (holds[p] <=> pc[p] \in Inside) /\ (holds[p] => lock = p)

Ordered ==
    /\ newest <= version
    /\ cache # None => cache = newest
    /\ \A p \in Process : pc[p] = "store" => newest <= result[p] /\ result[p] <= version

OrderInv == TypeOK /\ (~untimely => Locked /\ Ordered)

\* Nobody is inside and nothing is cached at first.
LEMMA OrderInit == Init => OrderInv
BY TypeInit DEF Init, OrderInv, Locked, Ordered, Inside

\* What was untimely stays so.
LEMMA Timely ==
    ASSUME TypeOK, [Next]_vars, ~untimely'
    PROVE  ~untimely
BY DEF TypeOK, Next, Work, Call, Hit, Miss, Bypass, Acquire, AcquireLost, GiveUp, HitAfterLock,
   Execute, Compute, Raise, Store, Release, ReleaseError, Direct, Return, Crash, CacheExpire,
   LockExpire, ClearCache, Change, vars, seen

\* The locking discipline is inductive on timely executions.
LEMMA LockedNext ==
    ASSUME ~untimely', TypeOK, Locked, [Next]_vars
    PROVE  Locked'
<1> USE LockedCacheAssumption DEF TypeOK, Locked, Inside, Goto, Got, seen
<1>1. ASSUME NEW p \in Process, Call(p) \/ Hit(p) \/ Miss(p) \/ Bypass(p) PROVE Locked'
  BY <1>1 DEF Call, Hit, Miss, Bypass
<1>2. ASSUME NEW p \in Process, Acquire(p) PROVE Locked'
  BY <1>2 DEF Acquire
<1>3. ASSUME NEW p \in Process, AcquireLost(p) PROVE Locked'
  BY <1>3 DEF AcquireLost
<1>4. ASSUME NEW p \in Process, GiveUp(p) PROVE Locked'
  BY <1>4 DEF GiveUp
<1>5. ASSUME NEW p \in Process, HitAfterLock(p) \/ Execute(p) \/ Raise(p) \/ Compute(p) \/ Store(p)
      PROVE  Locked'
  BY <1>5 DEF HitAfterLock, Execute, Raise, Compute, Store
<1>6. ASSUME NEW p \in Process, Release(p) PROVE Locked'
  <2>1. pc' = [pc EXCEPT ![p] = "direct"] \/ pc' = [pc EXCEPT ![p] = "return"]
    BY <1>6 DEF Release
  <2> QED
    BY <1>6, <2>1 DEF Release
<1>7. ASSUME NEW p \in Process, ReleaseError(p) PROVE Locked'
  BY <1>7 DEF ReleaseError
<1>8. ASSUME NEW p \in Process, Direct(p) \/ Return(p) \/ Crash(p) PROVE Locked'
  BY <1>8 DEF Direct, Return, Crash
<1>9. CASE LockExpire
  BY <1>9 DEF LockExpire
<1>10. CASE CacheExpire \/ Change \/ UNCHANGED vars
  BY <1>10 DEF CacheExpire, Change, vars
<1>11. CASE ClearCache
  BY <1>11 DEF ClearCache
<1> QED
  BY <1>1, <1>2, <1>3, <1>4, <1>5, <1>6, <1>7, <1>8, <1>9, <1>10, <1>11 DEF Next, Work

\* Nobody else stores between the time a value is computed and is stored.
LEMMA OrderedNext ==
    ASSUME ~untimely', TypeOK, Locked, Ordered, [Next]_vars
    PROVE  Ordered'
<1> USE LockedCacheAssumption DEF TypeOK, Ordered, Goto, Got, seen
<1>1. ASSUME NEW p \in Process,
             Call(p) \/ Hit(p) \/ Miss(p) \/ Bypass(p) \/ Acquire(p) \/ AcquireLost(p) \/ GiveUp(p)
      PROVE  Ordered'
  BY <1>1 DEF Call, Hit, Miss, Bypass, Acquire, AcquireLost, GiveUp
<1>2. ASSUME NEW p \in Process, HitAfterLock(p) \/ Execute(p) \/ Raise(p) PROVE Ordered'
  BY <1>2 DEF HitAfterLock, Execute, Raise
<1>3. ASSUME NEW p \in Process, Compute(p) PROVE Ordered'
  BY <1>3 DEF Compute
<1>4. ASSUME NEW p \in Process, Store(p) PROVE Ordered'
  <2>1. \A q \in Process \ {p} : pc[q] # "store"
    BY <1>4 DEF Store, Locked, Inside
  <2>2. \A q \in Process : pc'[q] # "store"
    BY <1>4, <2>1 DEF Store
  <2>3. newest <= result[p] /\ result[p] <= version /\ result[p] \in Nat
    BY <1>4 DEF Store
  <2>4. CASE Put(p)
    BY <1>4, <2>2, <2>3, <2>4 DEF Store, Put
  <2>5. CASE UNCHANGED <<cache, newest>>
    BY <1>4, <2>2, <2>5 DEF Store
  <2> QED
    BY <1>4, <2>4, <2>5 DEF Store
<1>5. ASSUME NEW p \in Process, Release(p) PROVE Ordered'
  <2>1. \A q \in Process : pc'[q] = "store" => pc[q] = "store" /\ result'[q] = result[q]
    BY <1>5 DEF Release
  <2> QED
    BY <1>5, <2>1 DEF Release
<1>6. ASSUME NEW p \in Process, ReleaseError(p) \/ Direct(p) \/ Return(p) \/ Crash(p)
      PROVE  Ordered'
  BY <1>6 DEF ReleaseError, Direct, Return, Crash
<1>7. CASE CacheExpire \/ LockExpire \/ ClearCache \/ Change \/ UNCHANGED vars
  BY <1>7 DEF CacheExpire, LockExpire, ClearCache, Change, vars
<1> QED
  BY <1>1, <1>2, <1>3, <1>4, <1>5, <1>6, <1>7 DEF Next, Work

\* OrderInv holds in every reachable state.
LEMMA OrderInvariant == Spec => []OrderInv
<1>1. OrderInv /\ [Next]_vars => OrderInv'
  BY TypeNext, Timely, LockedNext, OrderedNext DEF OrderInv
<1> QED
  BY <1>1, OrderInit, PTL DEF Spec

\* A cached value is never replaced by an older one, as long as executions
\* end before lock_timeout, no wait is given up and the namespace not cleared.
THEOREM CacheNeverGoesBack == Spec => []StoredInOrder
<1>1. OrderInv => StoredInOrder
  BY DEF OrderInv, Ordered, StoredInOrder
<1> QED
  BY <1>1, OrderInvariant, PTL

-----------------------------------------------------------------------------
(* While nothing fails but processes, nobody takes the way around the lock. *)

Reliable == Faults \subseteq {"crash"}

Straight ==
    /\ ~untimely
    /\ \A p \in Process : pc[p] # "direct" /\ (pc[p] = "release" => result[p] \in Nat)

FlightInv == TypeOK /\ Locked /\ Ordered /\ Straight

\* Without failures nobody reaches the outer handler.
LEMMA StraightNext ==
    ASSUME Reliable, OrderInv, Straight, [Next]_vars
    PROVE  Straight'
<1> USE LockedCacheAssumption DEF OrderInv, TypeOK, Straight, Reliable, Goto, Got, seen
<1>1. ASSUME NEW p \in Process, Call(p) \/ Hit(p) \/ Miss(p) \/ Bypass(p) PROVE Straight'
  BY <1>1 DEF Call, Hit, Miss, Bypass
<1>2. ASSUME NEW p \in Process, Acquire(p) \/ AcquireLost(p) \/ GiveUp(p) PROVE Straight'
  BY <1>2 DEF Acquire, AcquireLost, GiveUp
<1>3. ASSUME NEW p \in Process, HitAfterLock(p) \/ Execute(p) \/ Raise(p) PROVE Straight'
  BY <1>3 DEF HitAfterLock, Execute, Raise
<1>4. ASSUME NEW p \in Process, Compute(p) \/ Store(p) PROVE Straight'
  BY <1>4 DEF Compute, Store
<1>5. ASSUME NEW p \in Process, Release(p) PROVE Straight'
  <2>1. pc' = [pc EXCEPT ![p] = "return"] /\ result' = result /\ ~untimely'
    BY <1>5 DEF Release
  <2> QED
    BY <2>1
<1>6. ASSUME NEW p \in Process, ReleaseError(p) PROVE Straight'
  BY <1>6 DEF ReleaseError, Locked, Inside
<1>7. ASSUME NEW p \in Process, Direct(p) \/ Return(p) \/ Crash(p) PROVE Straight'
  BY <1>7 DEF Direct, Return, Crash
<1>8. CASE CacheExpire \/ LockExpire \/ ClearCache \/ Change \/ UNCHANGED vars
  BY <1>8 DEF CacheExpire, LockExpire, ClearCache, Change, vars
<1> QED
  BY <1>1, <1>2, <1>3, <1>4, <1>5, <1>6, <1>7, <1>8 DEF Next, Work

\* FlightInv holds in every reachable state of reliable executions.
LEMMA FlightInvariant ==
    ASSUME Reliable
    PROVE  Spec => []FlightInv
<1>1. Init => Straight
  BY DEF Init, Straight
<1>2. Spec => []OrderInv
  BY OrderInvariant
<1>3. OrderInv /\ Straight /\ [Next]_vars => Straight'
  BY StraightNext
<1>4. OrderInv /\ Straight => FlightInv
  BY DEF OrderInv, FlightInv, Straight
<1> QED
  BY <1>1, <1>2, <1>3, <1>4, PTL DEF Spec

\* Processes execute the function one at a time while nothing fails but
\* processes: the docstring's promise, under the condition it needs.
THEOREM OneExecutionAtATime ==
    ASSUME Reliable
    PROVE  Spec => []OneExecution
<1>1. FlightInv => OneExecution
  BY DEF FlightInv, Straight, Locked, Inside, OneExecution, Executing
<1> QED
  BY <1>1, FlightInvariant, PTL

-----------------------------------------------------------------------------
(* Refinement: each step is one of SingleFlight, or changes none of its    *)
(* variables.                                                               *)

places == [p \in Process |-> Place(p)]
answers == [p \in Process |-> Answer(p)]

\* The initial state maps to the initial state.
LEMMA FlightInit == Init => Flight!Init
BY DEF Init, Flight!Init, Place, Answer

\* A step of p moves p alone.
LEMMA OnlyOne ==
    ASSUME NEW p \in Process, NEW a,
           \A q \in Process \ {p} : pc'[q] = pc[q] /\ result'[q] = result[q],
           Place(p)' = a
    PROVE  /\ places' = [places EXCEPT ![p] = a]
           /\ answers' = [answers EXCEPT ![p] = Answer(p)']
           /\ Answer(p)' = Answer(p) => answers' = answers
<1>1. \A q \in Process \ {p} : Place(q)' = Place(q) /\ Answer(q)' = Answer(q)
  BY DEF Place, Answer
<1> QED
  BY <1>1 DEF places, answers

\* A step that p's caller does not see.
LEMMA Unseen ==
    ASSUME NEW p \in Process,
           \A q \in Process \ {p} : pc'[q] = pc[q] /\ result'[q] = result[q],
           Place(p)' = Place(p), Answer(p)' = Answer(p), UNCHANGED <<cache, newest>>
    PROVE  UNCHANGED Flight!vars
<1>1. \A q \in Process : Place(q)' = Place(q) /\ Answer(q)' = Answer(q)
  BY DEF Place, Answer
<1> QED
  BY <1>1 DEF Flight!vars

\* Every step of the decorator maps to a step of SingleFlight or to none.
LEMMA FlightNext ==
    ASSUME Reliable, FlightInv, [Next]_vars
    PROVE  [Flight!Next]_(Flight!vars)
<1> USE LockedCacheAssumption DEF FlightInv, TypeOK, Goto, Got, seen
<1>1. ASSUME NEW p \in Process, Call(p) PROVE Flight!Ask(p)
  <2>1. Place(p) = "out" /\ Place(p)' = "asked" /\ Answer(p) = None /\ Answer(p)' = None
    BY <1>1 DEF Call, Place, Answer
  <2>2. \A q \in Process \ {p} : pc'[q] = pc[q] /\ result'[q] = result[q]
    BY <1>1 DEF Call
  <2>3. places' = [places EXCEPT ![p] = "asked"] /\ answers' = answers
    BY <2>1, <2>2, OnlyOne
  <2> QED
    BY <1>1, <2>1, <2>3 DEF Call, Flight!Ask, places, answers
<1>2. ASSUME NEW p \in Process, Hit(p) \/ HitAfterLock(p) PROVE Flight!Take(p)
  <2>1. Place(p) = "asked" /\ Place(p)' = "served" /\ Answer(p)' = cache
    BY <1>2 DEF Hit, HitAfterLock, Place, Answer
  <2>2. \A q \in Process \ {p} : pc'[q] = pc[q] /\ result'[q] = result[q]
    BY <1>2 DEF Hit, HitAfterLock
  <2>3. places' = [places EXCEPT ![p] = "served"] /\ answers' = [answers EXCEPT ![p] = cache]
    BY <2>1, <2>2, OnlyOne
  <2> QED
    BY <1>2, <2>1, <2>3 DEF Hit, HitAfterLock, Flight!Take, places, answers
<1>3. ASSUME NEW p \in Process, Execute(p) PROVE Flight!Fly(p)
  <2>1. Place(p) = "asked" /\ Place(p)' = "flying" /\ Answer(p) = None /\ Answer(p)' = None
    BY <1>3 DEF Execute, Place, Answer
  <2>2. \A q \in Process \ {p} : pc'[q] = pc[q] /\ result'[q] = result[q]
    BY <1>3 DEF Execute
  <2>3. places' = [places EXCEPT ![p] = "flying"] /\ answers' = answers
    BY <2>1, <2>2, OnlyOne
  <2>4. \A q \in Process : Place(q) # "flying"
    BY <1>3 DEF Execute, Place, Locked, Inside
  <2>5. cache = None
    BY <1>3 DEF Execute, Reliable
  <2> QED
    BY <1>3, <2>1, <2>3, <2>4, <2>5 DEF Execute, Flight!Fly, places, answers
<1>4. ASSUME NEW p \in Process, Store(p) PROVE Flight!Land(p)
  <2>1. cache' = result[p] /\ newest' = result[p] /\ result[p] \in Nat /\ result[p] >= newest
    BY <1>4 DEF Store, Put, Ordered, Reliable
  <2>2. Place(p) = "flying" /\ Place(p)' = "served" /\ Answer(p)' = result[p]
    BY <1>4 DEF Store, Place, Answer
  <2>3. \A q \in Process \ {p} : pc'[q] = pc[q] /\ result'[q] = result[q]
    BY <1>4 DEF Store
  <2>4. places' = [places EXCEPT ![p] = "served"] /\ answers' = [answers EXCEPT ![p] = cache']
    BY <2>1, <2>2, <2>3, OnlyOne
  <2> QED
    BY <2>1, <2>2, <2>4 DEF Flight!Land, places, answers
<1>5. ASSUME NEW p \in Process, Return(p) PROVE Flight!Leave(p)
  <2>1. Place(p) = "served" /\ Place(p)' = "out" /\ Answer(p)' = None
    BY <1>5 DEF Return, Place, Answer, Straight
  <2>2. \A q \in Process \ {p} : pc'[q] = pc[q] /\ result'[q] = result[q]
    BY <1>5 DEF Return
  <2>3. places' = [places EXCEPT ![p] = "out"] /\ answers' = [answers EXCEPT ![p] = None]
    BY <2>1, <2>2, OnlyOne
  <2> QED
    BY <1>5, <2>1, <2>3 DEF Return, Flight!Leave, places, answers
<1>6. ASSUME NEW p \in Process, Crash(p) PROVE Flight!Fail(p)
  <2>1. Place(p) # "out" /\ Place(p)' = "out" /\ Answer(p)' = None
    BY <1>6 DEF Crash, Place, Answer
  <2>2. \A q \in Process \ {p} : pc'[q] = pc[q] /\ result'[q] = result[q]
    BY <1>6 DEF Crash
  <2>3. places' = [places EXCEPT ![p] = "out"] /\ answers' = [answers EXCEPT ![p] = None]
    BY <2>1, <2>2, OnlyOne
  <2> QED
    BY <1>6, <2>1, <2>3 DEF Crash, Flight!Fail, places, answers
<1>7. ASSUME NEW p \in Process, Miss(p) \/ Acquire(p) \/ Compute(p) \/ Release(p)
      PROVE  UNCHANGED Flight!vars
  <2>1. /\ UNCHANGED <<cache, newest>>
        /\ \A q \in Process \ {p} : pc'[q] = pc[q] /\ result'[q] = result[q]
    BY <1>7 DEF Miss, Acquire, Compute, Release
  <2>2. CASE Miss(p) \/ Acquire(p)
    BY <2>1, <2>2, Unseen DEF Miss, Acquire, Place, Answer
  <2>3. CASE Compute(p)
    BY <2>1, <2>3, Unseen DEF Compute, Place, Answer
  <2>4. CASE Release(p)
    <3>1. pc[p] = "release" /\ pc'[p] = "return" /\ result' = result
      BY <2>4 DEF Release, Straight
    <3> QED
      BY <2>1, <3>1, Unseen DEF Place, Answer
  <2> QED
    BY <1>7, <2>2, <2>3, <2>4
<1>8. ASSUME NEW p \in Process,
             Bypass(p) \/ AcquireLost(p) \/ GiveUp(p) \/ Raise(p) \/ ReleaseError(p) \/ Direct(p)
      PROVE  FALSE
  BY <1>8 DEF Bypass, AcquireLost, GiveUp, Raise, ReleaseError, Direct, Reliable,
              Straight, Locked, Inside
<1>9. CASE CacheExpire
  <2>1. places' = places /\ answers' = answers
    BY <1>9 DEF CacheExpire, places, answers, Place, Answer
  <2> QED
    BY <1>9, <2>1 DEF CacheExpire, Flight!Expire, Flight!Next, places, answers
<1>10. CASE LockExpire \/ Change \/ UNCHANGED vars
  <2>1. pc' = pc /\ result' = result /\ cache' = cache /\ newest' = newest
    BY <1>10 DEF LockExpire, Change, vars
  <2> QED
    BY <2>1 DEF Flight!vars, Place, Answer
<1>11. ~ClearCache
  BY DEF ClearCache, Reliable
<1> QED
  BY <1>1, <1>2, <1>3, <1>4, <1>5, <1>6, <1>7, <1>8, <1>9, <1>10, <1>11
  DEF Next, Work, Flight!Next

\* While nothing fails but processes, the decorator is a single-flight cache.
THEOREM ImplementsSingleFlight ==
    ASSUME Reliable
    PROVE  Spec => FlightSpec
<1>1. FlightInv /\ [Next]_vars => [Flight!Next]_(Flight!vars)
  BY FlightNext
<1>2. Spec => []FlightInv
  BY FlightInvariant
<1> QED
  BY <1>1, <1>2, FlightInit, PTL DEF Spec, FlightSpec, Flight!Spec
=============================================================================
