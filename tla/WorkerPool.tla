----------------------------- MODULE WorkerPool -----------------------------
(***************************************************************************)
(* The coordinator's pool of workers: registration by heartbeat, the sweep *)
(* that removes silent workers, and the round robin that ticks use to      *)
(* offer runs.  Two mutexes are involved.  The pool mutex is held for a    *)
(* whole heartbeat or sweep (lock says by which), and the keys mutex only  *)
(* while the list of keys is rebuilt or read; the round robin reads the    *)
(* pool itself without the pool mutex.                                     *)
(***************************************************************************)
EXTENDS Naturals, Sequences, FiniteSets, SequencesExt

CONSTANTS
    Worker,     \* worker processes; a restarted one has a new id
    Tick,       \* ticks that may offer runs at the same time
    MaxMisses,  \* maxHeartbeatMisses
    Width,      \* roundRobinIndex wraps at this value, a power of two
    MaxFaults,  \* bound: lost heartbeats and crashes
    None        \* no worker

ASSUME WorkerPoolAssumption ==
    /\ MaxMisses \in Nat
    /\ Width \in Nat \ {0}
    /\ MaxFaults \in Nat
    /\ None \notin Worker
    /\ IsFiniteSet(Worker)

VARIABLES
    life,     \* a process is new, up, silent (its heartbeat loop ended) or dead
    pool,     \* ids in WorkerPool
    misses,   \* heartbeatMisses
    keys,     \* WorkerPoolKeys
    lock,     \* who holds the pool mutex, and where they are
    waits,    \* that one waits for the keys mutex, and readers queue behind
    left,     \* workers the sweep has still to visit
    next,     \* roundRobinIndex
    offer,    \* where offerRunToWorker of a tick is
    count,    \* the workerCount it read
    attempt,  \* how many workers it has asked
    target,   \* the worker it asks, None if the pool did not have it
    seen,     \* the roundRobinIndex it read
    asked,    \* history: the workers it has asked
    alone,    \* history: neither the keys nor another tick changed its course
    faults    \* faults so far

poolVars == <<pool, misses, keys, lock, waits, left>>
offerVars == <<next, offer, count, attempt, target, seen, asked, alone>>
vars == <<life, poolVars, offerVars, faults>>

Init ==
    /\ life = [w \in Worker |-> "new"]
    /\ pool = {}
    /\ misses = [w \in Worker |-> 0]
    /\ keys = <<>>
    /\ lock = "free"
    /\ waits = FALSE
    /\ left = {}
    /\ next = 0
    /\ offer = [t \in Tick |-> "idle"]
    /\ count = [t \in Tick |-> 0]
    /\ attempt = [t \in Tick |-> 0]
    /\ target = [t \in Tick |-> None]
    /\ seen = [t \in Tick |-> 0]
    /\ asked = [t \in Tick |-> {}]
    /\ alone = [t \in Tick |-> FALSE]
    /\ faults = 0

Fault == faults < MaxFaults /\ faults' = faults + 1

-----------------------------------------------------------------------------
(* Worker processes *)

WorkerStarts(w) ==
    /\ life[w] = "new"
    /\ life' = [life EXCEPT ![w] = "up"]
    /\ UNCHANGED <<poolVars, offerVars, faults>>

\* A heartbeat that returns an error ends the worker's heartbeat loop.
HeartbeatFails(w) ==
    /\ life[w] = "up"
    /\ Fault
    /\ life' = [life EXCEPT ![w] = "silent"]
    /\ UNCHANGED <<poolVars, offerVars>>

WorkerDies(w) ==
    /\ life[w] \in {"up", "silent"}
    /\ Fault
    /\ life' = [life EXCEPT ![w] = "dead"]
    /\ UNCHANGED <<poolVars, offerVars>>

-----------------------------------------------------------------------------
(* SendHeartbeat *)

\* Mutant: the heartbeat of a worker that is not known is only acknowledged.
SendHeartbeat_OnlyKnown(w) ==
    /\ life[w] = "up"
    /\ lock = "free"
    /\ w \in pool \/ faults = 0
    /\ pool' = pool \cup {w}
    /\ misses' = [misses EXCEPT ![w] = 0]
    /\ lock' = IF w \in pool THEN "free" ELSE "register"
    /\ UNCHANGED <<life, keys, waits, left, offerVars, faults>>

\* A known worker has its misses reset; a new one is entered, and the keys
\* mutex is still to be taken.
SendHeartbeat(w) ==
    /\ life[w] = "up"
    /\ lock = "free"
    /\ pool' = pool \cup {w}
    /\ misses' = [misses EXCEPT ![w] = 0]
    /\ lock' = IF w \in pool THEN "free" ELSE "register"
    /\ UNCHANGED <<life, keys, waits, left, offerVars, faults>>

\* WorkerPoolKeysMutex.Lock: from now on no reader gets the mutex.
WaitForKeys ==
    /\ lock \in {"register", "rebuild"}
    /\ ~waits
    /\ waits' = TRUE
    /\ UNCHANGED <<life, pool, misses, keys, lock, left, offerVars, faults>>

\* Nobody reads the keys, and they list the pool, in whatever order the map
\* is iterated.
RebuildKeys ==
    /\ waits
    /\ waits' = FALSE
    /\ \A t \in Tick : offer[t] # "advance"
    /\ keys' \in {s \in [1 .. Cardinality(pool) -> pool] : IsInjective(s)}
    /\ alone' = [t \in Tick |-> FALSE]
    /\ UNCHANGED <<next, offer, count, attempt, target, seen, asked>>

RegisterWorker ==
    /\ lock = "register"
    /\ RebuildKeys
    /\ lock' = "free"
    /\ UNCHANGED <<life, pool, misses, left, faults>>

-----------------------------------------------------------------------------
(* removeInactiveWorkers *)

BeginSweep ==
    /\ lock = "free"
    /\ lock' = "sweep"
    /\ left' = pool
    /\ UNCHANGED <<life, pool, misses, keys, waits, offerVars, faults>>

\* Mutants: the sweep never counts a miss; the keys are not rebuilt.
VisitWorker_NoMiss(w) ==
    IF misses[w] > MaxMisses
      THEN pool' = pool \ {w} /\ lock' = "rebuild" /\ UNCHANGED misses
      ELSE UNCHANGED <<misses, pool, lock>>

VisitWorker_KeysKept(w) ==
    IF misses[w] > MaxMisses
      THEN pool' = pool \ {w} /\ UNCHANGED <<lock, misses>>
      ELSE misses' = [misses EXCEPT ![w] = @ + 1] /\ UNCHANGED <<pool, lock>>

\* A silent worker is deleted from the pool; another one has a miss more.
VisitWorker(w) ==
    IF misses[w] > MaxMisses
      THEN pool' = pool \ {w} /\ lock' = "rebuild" /\ UNCHANGED misses
      ELSE misses' = [misses EXCEPT ![w] = @ + 1] /\ UNCHANGED <<pool, lock>>

SweepWorker(w) ==
    /\ lock = "sweep"
    /\ w \in left
    /\ left' = left \ {w}
    /\ VisitWorker(w)
    /\ UNCHANGED <<life, keys, waits, offerVars, faults>>

\* Until then a tick that picks its key finds nothing in the pool.
RemoveKey ==
    /\ lock = "rebuild"
    /\ RebuildKeys
    /\ lock' = "sweep"
    /\ UNCHANGED <<life, pool, misses, left, faults>>

EndSweep ==
    /\ lock = "sweep"
    /\ left = {}
    /\ lock' = "free"
    /\ UNCHANGED <<life, pool, misses, keys, waits, left, offerVars, faults>>

-----------------------------------------------------------------------------
(* offerRunToWorker and getNextWorker *)

\* The offers of the ticks ts are over.
EndOffers(ts) ==
    /\ offer' = [t \in Tick |-> IF t \in ts THEN "idle" ELSE offer[t]]
    /\ count' = [t \in Tick |-> IF t \in ts THEN 0 ELSE count[t]]
    /\ attempt' = [t \in Tick |-> IF t \in ts THEN 0 ELSE attempt[t]]
    /\ target' = [t \in Tick |-> IF t \in ts THEN None ELSE target[t]]
    /\ seen' = [t \in Tick |-> IF t \in ts THEN 0 ELSE seen[t]]
    /\ asked' = [t \in Tick |-> IF t \in ts THEN {} ELSE asked[t]]
    /\ alone' = [t \in Tick |-> IF t \in ts THEN FALSE ELSE alone[t]]

\* The number of workers is read once; without workers the offer fails.
BeginOffer(t) ==
    /\ offer[t] = "idle"
    /\ ~waits
    /\ keys # <<>>
    /\ offer' = [offer EXCEPT ![t] = "choose"]
    /\ count' = [count EXCEPT ![t] = Len(keys)]
    /\ alone' = [alone EXCEPT ![t] = TRUE]
    /\ UNCHANGED <<life, poolVars, next, attempt, target, seen, asked, faults>>

\* getNextWorker, under the read lock: the key at the index is looked up.
ChooseWorker(t) ==
    /\ offer[t] = "choose"
    /\ ~waits
    /\ keys # <<>>
    /\ LET w == keys[(next % Len(keys)) + 1]
       IN  /\ target' = [target EXCEPT ![t] = IF w \in pool THEN w ELSE None]
           /\ asked' = [asked EXCEPT ![t] = @ \cup {w}]
    /\ seen' = [seen EXCEPT ![t] = next]
    /\ offer' = [offer EXCEPT ![t] = "advance"]
    /\ UNCHANGED <<life, poolVars, next, count, attempt, alone, faults>>

\* Mutant: the index is not incremented.
Increment_Forgotten(i) == i

Increment(i) == (i + 1) % Width

\* The index is incremented.  Readers share the lock, so the increments of two
\* ticks may be mixed up.  Where the index wraps, the round robin jumps unless
\* the number of workers divides the width.
AdvanceIndex(t) ==
    /\ offer[t] = "advance"
    /\ next' \in {Increment(seen[t]), Increment(next)}
    /\ offer' = [offer EXCEPT ![t] = "ask"]
    /\ alone' = [u \in Tick |-> alone[u] /\ u = t
                                /\ (next' # 0 \/ Width % Len(keys) = 0)]
    /\ UNCHANGED <<life, poolVars, count, attempt, target, seen, asked, faults>>

\* No worker was found: the offer fails.
NoWorker(t) ==
    /\ \/ offer[t] = "choose" /\ ~waits /\ keys = <<>>
       \/ offer[t] = "ask" /\ target[t] = None
    /\ EndOffers({t})
    /\ UNCHANGED <<life, poolVars, next, faults>>

\* Mutant: an attempt that fails is not counted.
TryNext_Uncounted(t) ==
    /\ offer' = [offer EXCEPT ![t] = "choose"]
    /\ UNCHANGED <<count, attempt, target, seen, asked, alone>>

\* After a worker that did not take the run comes the next one.
TryNext(t) ==
    /\ attempt[t] + 1 < count[t]
    /\ attempt' = [attempt EXCEPT ![t] = @ + 1]
    /\ offer' = [offer EXCEPT ![t] = "choose"]
    /\ UNCHANGED <<count, target, seen, asked, alone>>

\* SubmitRun: a worker may take the run or not (see Worker); one that is
\* removed or dead does not.  The offer ends when one takes it, or as many were
\* asked as there were workers.
SubmitRun(t) ==
    /\ offer[t] = "ask"
    /\ target[t] # None
    /\ \/ target[t] \in pool /\ life[target[t]] # "dead" /\ EndOffers({t})
       \/ TryNext(t)
       \/ attempt[t] + 1 >= count[t] /\ EndOffers({t})
    /\ UNCHANGED <<life, poolVars, next, faults>>

-----------------------------------------------------------------------------
\* A coordinator that restarts knows no worker.
CoordinatorRestarts ==
    /\ Fault
    /\ pool' = {} /\ misses' = [w \in Worker |-> 0]
    /\ keys' = <<>> /\ lock' = "free" /\ waits' = FALSE /\ left' = {}
    /\ next' = 0
    /\ EndOffers(Tick)
    /\ UNCHANGED life

OfferStep(t) ==
    ChooseWorker(t) \/ AdvanceIndex(t) \/ NoWorker(t) \/ SubmitRun(t)

PoolStep ==
    \/ WaitForKeys
    \/ RegisterWorker
    \/ \E w \in Worker : SweepWorker(w)
    \/ RemoveKey
    \/ EndSweep

Next ==
    \/ \E w \in Worker : \/ WorkerStarts(w) \/ HeartbeatFails(w)
                         \/ WorkerDies(w) \/ SendHeartbeat(w)
    \/ BeginSweep
    \/ PoolStep
    \/ \E t \in Tick : BeginOffer(t) \/ OfferStep(t)
    \/ CoordinatorRestarts

Spec == Init /\ [][Next]_vars

\* Heartbeats and sweeps come with their tickers; Go's mutexes do not starve a
\* waiter, be it a reader or a writer; a tick goes on with its offer.
Fairness ==
    /\ \A w \in Worker : SF_vars(SendHeartbeat(w))
    /\ SF_vars(BeginSweep)
    /\ SF_vars(PoolStep)
    /\ \A t \in Tick : SF_vars(OfferStep(t))

FairSpec == Spec /\ Fairness

-----------------------------------------------------------------------------
(* Properties *)

\* The keys list every worker of the pool once, except while somebody who
\* holds the pool mutex has changed the pool and not yet rebuilt them.
KeysMatchPool ==
    /\ lock \in {"free", "sweep"} => ToSet(keys) = pool
    /\ IsInjective(keys)

\* An offer that asks its last worker has by then asked every worker of the
\* pool ("tries each worker once, so that one saturated worker does not hold up
\* a run another worker could take"), unless the pool changed, another tick
\* moved the shared index, or the index wrapped unevenly.
AsksEveryWorker ==
    \A t \in Tick :
        offer[t] = "ask" /\ alone[t] /\ attempt[t] + 1 = count[t]
            => asked[t] = ToSet(keys)

\* A worker that keeps sending heartbeats is (again) offered runs, also after
\* the coordinator forgot it.
BeatingWorkerIsOffered ==
    \A w \in Worker : life[w] = "up" ~> (w \in ToSet(keys) \/ life[w] # "up")

\* A worker that died is in the end no longer asked, and so does not use up
\* the attempts of an offer.
DeadWorkerIsForgotten ==
    \A w \in Worker : life[w] = "dead" ~> [](w \notin ToSet(keys))

\* An offer comes to an end, whatever joins or leaves the pool meanwhile: it
\* would hold the dispatch transaction and its row locks.
OfferEnds ==
    \A t \in Tick : offer[t] # "idle" ~> offer[t] = "idle"

=============================================================================
