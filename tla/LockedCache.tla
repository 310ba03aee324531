---------------------------- MODULE LockedCache ----------------------------
(***************************************************************************)
(* redis_acache_with_lock: calls of one decorated function with the same   *)
(* arguments, that is one cache key and one lock key in Redis, both of     *)
(* which expire.  The lock is redis-py's: acquire() gives up after         *)
(* blocking_timeout and returns False, release() raises when the lock is   *)
(* no longer this call's.  The result of acquire() is not looked at, and   *)
(* every exception ends in the outer handler, which executes the function  *)
(* once more without lock or cache.                                        *)
(*                                                                         *)
(* What the function computes is the version of the data it reads.         *)
(***************************************************************************)
EXTENDS Naturals

CONSTANTS
    Process,      \* the processes that call the function
    None,         \* no value, no holder
    Faults,       \* which things may go wrong
    MaxVersion    \* bound on the changes of the data

Fault == {"slow",    \* an execution outlives lock_timeout
          "wait",    \* a caller waits for the lock until blocking_timeout
          "raise",   \* the function raises
          "redis",   \* Redis does not answer
          "decode",  \* a cached value cannot be decoded
          "key",     \* no key can be made of the arguments
          "clear",   \* the namespace is cleared
          "crash"}   \* a process dies

ASSUME LockedCacheAssumption ==
    /\ None \notin Process
    /\ None \notin Nat
    /\ Faults \subseteq Fault
    /\ MaxVersion \in Nat

VARIABLES
    pc,        \* pc[p]: where process p is in its call
    holds,     \* holds[p]: p's lock object has a token
    result,    \* result[p]: the value p has got so far
    lock,      \* the process whose token is in the lock key
    cache,     \* the cached value
    version,   \* the version of the data that the function reads
    newest,    \* the newest version that was ever cached (for the properties)
    untimely   \* an execution was slow, a wait given up or the cache cleared (the same)

seen == <<newest, untimely>>
vars == <<pc, holds, result, lock, cache, version, seen>>

\* Between acquire() and the end of release().
Inside == {"check", "exec", "store", "release"}

Goto(p, label) == pc' = [pc EXCEPT ![p] = label]
Got(p, value) == result' = [result EXCEPT ![p] = value]

-----------------------------------------------------------------------------
Init ==
    /\ pc = [p \in Process |-> "idle"]
    /\ holds = [p \in Process |-> FALSE]
    /\ result = [p \in Process |-> None]
    /\ lock = None
    /\ cache = None
    /\ version = 0
    /\ newest = 0
    /\ untimely = FALSE

Call(p) ==
    /\ pc[p] = "idle"
    /\ Goto(p, "lookup")
    /\ UNCHANGED <<holds, result, lock, cache, version, seen>>

Hit(p) ==
    /\ pc[p] = "lookup"
    /\ cache # None
    /\ Got(p, cache)
    /\ Goto(p, "return")
    /\ UNCHANGED <<holds, lock, cache, version, seen>>

\* A value that cannot be decoded counts as a miss.
Miss(p) ==
    /\ pc[p] = "lookup"
    /\ cache = None \/ "decode" \in Faults
    /\ Goto(p, "wait")
    /\ UNCHANGED <<holds, result, lock, cache, version, seen>>

\* No key, or Redis fails at the first get or while acquiring.
Bypass(p) ==
    /\ \/ pc[p] = "lookup" /\ Faults \cap {"key", "redis"} # {}
       \/ pc[p] = "wait" /\ "redis" \in Faults
    /\ Goto(p, "direct")
    /\ UNCHANGED <<holds, result, lock, cache, version, seen>>

Acquire(p) ==
    /\ pc[p] = "wait"
    /\ lock = None
    /\ lock' = p
    /\ holds' = [holds EXCEPT ![p] = TRUE]
    /\ Goto(p, "check")
    /\ UNCHANGED <<result, cache, version, seen>>

\* Redis has set the lock, but its reply is lost.
AcquireLost(p) ==
    /\ "redis" \in Faults
    /\ pc[p] = "wait"
    /\ lock = None
    /\ lock' = p
    /\ Goto(p, "direct")
    /\ UNCHANGED <<holds, result, cache, version, seen>>

\* Mutant: acquire() waits for ever.
NeverGiveUp(p) == FALSE

\* acquire() returns False, and the call goes on as if it had the lock.
GiveUp(p) ==
    /\ "wait" \in Faults
    /\ pc[p] = "wait"
    /\ lock # None
    /\ Goto(p, "check")
    /\ untimely' = TRUE
    /\ UNCHANGED <<holds, result, lock, cache, version, newest>>

HitAfterLock(p) ==
    /\ pc[p] = "check"
    /\ cache # None
    /\ Got(p, cache)
    /\ Goto(p, "release")
    /\ UNCHANGED <<holds, lock, cache, version, seen>>

\* Mutant: the cache is not looked at again.
ExecuteUnchecked(p) ==
    /\ pc[p] = "check"
    /\ Goto(p, "exec")
    /\ UNCHANGED <<holds, result, lock, cache, version, seen>>

\* Errors of the second look are swallowed, and the function is executed.
Execute(p) ==
    /\ pc[p] = "check"
    /\ cache = None \/ Faults \cap {"decode", "redis"} # {}
    /\ Goto(p, "exec")
    /\ UNCHANGED <<holds, result, lock, cache, version, seen>>

Compute(p) ==
    /\ pc[p] = "exec"
    /\ Got(p, version)
    /\ Goto(p, "store")
    /\ UNCHANGED <<holds, lock, cache, version, seen>>

\* Mutant: an execution that raised is stored like any other.
RaiseStored(p) ==
    /\ pc[p] = "exec"
    /\ "raise" \in Faults
    /\ Goto(p, "store")
    /\ UNCHANGED <<holds, result, lock, cache, version, seen>>

\* result stays None, and release() raises the exception on.
Raise(p) ==
    /\ pc[p] = "exec"
    /\ "raise" \in Faults
    /\ Goto(p, "release")
    /\ UNCHANGED <<holds, result, lock, cache, version, seen>>

Put(p) ==
    /\ cache' = result[p]
    /\ newest' = IF result[p] > newest THEN result[p] ELSE newest

\* A failure to write the cache is swallowed.
Store(p) ==
    /\ pc[p] = "store"
    /\ \/ Put(p)
       \/ "redis" \in Faults /\ UNCHANGED <<cache, newest>>
    /\ Goto(p, "release")
    /\ UNCHANGED <<holds, result, lock, version, untimely>>

\* release() deletes the key if it still holds this call's token.
Release(p) ==
    /\ pc[p] = "release"
    /\ holds[p] /\ lock = p
    /\ lock' = None
    /\ holds' = [holds EXCEPT ![p] = FALSE]
    /\ Goto(p, IF result[p] = None THEN "direct" ELSE "return")
    /\ UNCHANGED <<result, cache, version, seen>>

\* Otherwise, or when Redis fails, it raises: even a result is given up.
ReleaseError(p) ==
    /\ pc[p] = "release"
    /\ \/ ~(holds[p] /\ lock = p) /\ UNCHANGED lock
       \/ "redis" \in Faults /\ lock' \in {lock, IF holds[p] /\ lock = p THEN None ELSE lock}
    /\ holds' = [holds EXCEPT ![p] = FALSE]
    /\ Got(p, None)
    /\ Goto(p, "direct")
    /\ UNCHANGED <<cache, version, seen>>

\* Mutant: the outer handler caches its value too.
DirectStored(p) ==
    /\ pc[p] = "direct"
    /\ Got(p, version)
    /\ cache' = version
    /\ newest' = version
    /\ Goto(p, "return")
    /\ UNCHANGED <<holds, lock, version, untimely>>

\* The outer handler: the function without lock and cache.
Direct(p) ==
    /\ pc[p] = "direct"
    /\ Got(p, version)
    /\ Goto(p, "return")
    /\ UNCHANGED <<holds, lock, cache, version, seen>>

Return(p) ==
    /\ \/ pc[p] = "return"
       \/ pc[p] = "direct" /\ "raise" \in Faults
    /\ Got(p, None)
    /\ Goto(p, "idle")
    /\ UNCHANGED <<holds, lock, cache, version, seen>>

\* A dead process leaves its lock behind.
Crash(p) ==
    /\ "crash" \in Faults
    /\ pc[p] # "idle"
    /\ holds' = [holds EXCEPT ![p] = FALSE]
    /\ Got(p, None)
    /\ Goto(p, "idle")
    /\ UNCHANGED <<lock, cache, version, seen>>

-----------------------------------------------------------------------------
CacheExpire ==
    /\ cache # None
    /\ cache' = None
    /\ UNCHANGED <<pc, holds, result, lock, version, seen>>

\* Mutant: lock_timeout is shorter than the function.
LockExpireEarly ==
    /\ lock # None
    /\ lock' = None
    /\ UNCHANGED <<pc, holds, result, cache, version, seen>>

\* lock_timeout is over; unless executions are slow, the holder is gone.
LockExpire ==
    /\ lock # None
    /\ "slow" \in Faults \/ ~holds[lock]
    /\ lock' = None
    /\ untimely' = (untimely \/ holds[lock])
    /\ UNCHANGED <<pc, holds, result, cache, version, newest>>

\* clear_cache deletes all keys of the namespace, those of the locks too.
ClearCache ==
    /\ "clear" \in Faults
    /\ cache' = None
    /\ lock' = None
    /\ untimely' = TRUE
    /\ UNCHANGED <<pc, holds, result, version, newest>>

\* The data behind the function changes.
Change ==
    /\ version < MaxVersion
    /\ version' = version + 1
    /\ UNCHANGED <<pc, holds, result, lock, cache, seen>>

-----------------------------------------------------------------------------
\* What a call does by itself once it is made.
Work(p) ==
    \/ Hit(p) \/ Miss(p) \/ Acquire(p) \/ GiveUp(p) \/ HitAfterLock(p) \/ Execute(p)
    \/ Compute(p) \/ Raise(p) \/ Store(p) \/ Release(p) \/ ReleaseError(p)
    \/ Direct(p) \/ Return(p)

Next ==
    \/ \E p \in Process :
        Call(p) \/ Work(p) \/ Bypass(p) \/ AcquireLost(p) \/ Crash(p)
    \/ CacheExpire \/ LockExpire \/ ClearCache \/ Change

Spec == Init /\ [][Next]_vars

\* Processes run, and the function ends (its requests have timeouts); nothing is
\* owed by callers, the data, expiries or deaths, and no failure need happen.
FairSpec == Spec /\ \A p \in Process : WF_vars(Work(p))

-----------------------------------------------------------------------------
(* Properties *)

TypeOK ==
    /\ pc \in [Process -> {"idle", "lookup", "wait", "direct", "return"} \cup Inside]
    /\ holds \in [Process -> BOOLEAN]
    /\ result \in [Process -> Nat \cup {None}]
    /\ lock \in Process \cup {None}
    /\ cache \in Nat \cup {None}
    /\ version \in Nat
    /\ newest \in Nat
    /\ untimely \in BOOLEAN
    \* Only results of executions are stored and returned.
    /\ \A p \in Process : pc[p] \in {"store", "return"} => result[p] \in Nat

\* One process executes the function at a time: what the docstring of
\* redis_acache_with_lock promises of a miss.
Executing(p) == pc[p] \in {"exec", "direct"}
OneExecution == \A p, q \in Process : Executing(p) /\ Executing(q) => p = q

\* As long as executions end before lock_timeout and no wait is given up, a
\* cached value is never replaced by an older one, even where failures make
\* several processes execute the function: what the outer handler computes is
\* not cached, and who caches has read the data while it held the lock.
StoredInOrder == ~untimely /\ cache # None => cache = newest

\* Every call comes back, whatever fails and whoever dies holding the lock.
CallsReturn == \A p \in Process : pc[p] # "idle" ~> pc[p] = "idle"

\* While nothing fails but processes, the decorator is a single-flight cache.
Place(p) ==
    IF pc[p] = "idle" THEN "out"
    ELSE IF pc[p] \in {"exec", "store"} THEN "flying"
    ELSE IF pc[p] \in {"release", "return"} THEN "served"
    ELSE "asked"
Answer(p) == IF Place(p) = "served" THEN result[p] ELSE None

Flight == INSTANCE SingleFlight WITH
    place <- [p \in Process |-> Place(p)],
    answer <- [p \in Process |-> Answer(p)],
    cached <- cache
FlightSpec == Flight!Spec
=============================================================================
