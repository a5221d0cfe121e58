-------------------------- MODULE WorkerPoolProofs --------------------------
(***************************************************************************)
(* Theorems about WorkerPool, for any number of workers, ticks and faults  *)
(* and any width of the index.                                             *)
(*                                                                         *)
(* Whenever nobody is between a change of the pool and the rebuilding of   *)
(* the key list, the list has every worker of the pool exactly once.  It   *)
(* is rebuilt as some enumeration of the pool without repetition, of the   *)
(* pool's size; that it leaves nobody out is the pigeonhole principle, and *)
(* needs the pool to be finite.                                            *)
(*                                                                         *)
(* An offer that nobody disturbs asks every worker.  CourseInv says where  *)
(* the offer began and that it has asked the keys from there to the index, *)
(* around the end of the list; the arithmetic is that of a remainder.      *)
(***************************************************************************)
EXTENDS WorkerPool, Integers, FiniteSetTheorems, TLAPS

Inv == pool \subseteq Worker /\ KeysMatchPool

\* A list of the pool's size without repetitions lists all of the pool.
LEMMA EnumerationIsComplete ==
    ASSUME NEW S, IsFiniteSet(S),
           NEW s \in [1 .. Cardinality(S) -> S], IsInjective(s)
    PROVE  ToSet(s) = S
<1>1. s \in Injection(1 .. Cardinality(S), S)
  BY DEF Injection
<1>2. Cardinality(S) \in Nat
  BY FS_CardinalityType
<1>3. Cardinality(1 .. Cardinality(S)) = Cardinality(S)
  BY <1>2, FS_Interval
<1>4. s \in Surjection(1 .. Cardinality(S), S)
  BY <1>1, <1>3, FS_Injection
<1> QED
  BY <1>4 DEF Surjection, ToSet

\* Rebuilding the keys makes them match, whoever does it.
LEMMA RebuildMatches ==
    ASSUME WorkerPoolAssumption, Inv, RebuildKeys, UNCHANGED pool
    PROVE  Inv'
<1>1. IsFiniteSet(pool)
  BY FS_Subset DEF WorkerPoolAssumption, Inv
<1>2. keys' \in [1 .. Cardinality(pool) -> pool] /\ IsInjective(keys')
  BY DEF RebuildKeys
<1>3. ToSet(keys') = pool
  BY <1>1, <1>2, EnumerationIsComplete
<1> QED
  BY <1>2, <1>3 DEF Inv, KeysMatchPool, IsInjective, ToSet

\* A step that leaves the pool, the keys and the pool mutex alone.
LEMMA SamePool ==
    ASSUME Inv, UNCHANGED <<pool, keys, lock>>
    PROVE  Inv'
BY DEF Inv, KeysMatchPool, IsInjective, ToSet

\* Every step keeps the inductive invariant.
LEMMA WorkerPoolInvariant ==
    Spec => []Inv
<1>1. Init => Inv
  BY DEF Init, Inv, KeysMatchPool, IsInjective, ToSet
<1>2. Inv /\ [Next]_vars => Inv'
  <2> SUFFICES ASSUME Inv, [Next]_vars
               PROVE  Inv'
    OBVIOUS
  <2>1. ASSUME NEW w \in Worker, WorkerStarts(w) \/ HeartbeatFails(w) \/ WorkerDies(w)
        PROVE  Inv'
    BY <2>1, SamePool DEF WorkerStarts, HeartbeatFails, WorkerDies, poolVars
  <2>2. ASSUME NEW w \in Worker, SendHeartbeat(w)
        PROVE  Inv'
    <3>1. /\ keys' = keys /\ lock = "free"
          /\ pool' = pool \cup {w}
          /\ lock' = IF w \in pool THEN "free" ELSE "register"
      BY <2>2 DEF SendHeartbeat
    <3> QED
      BY <3>1 DEF Inv, KeysMatchPool, IsInjective, ToSet
  <2>3. CASE WaitForKeys
    BY <2>3, SamePool DEF WaitForKeys
  <2>4. CASE RegisterWorker \/ RemoveKey
    BY <2>4, RebuildMatches, WorkerPoolAssumption DEF RegisterWorker, RemoveKey
  <2>5. CASE BeginSweep \/ EndSweep
    BY <2>5 DEF BeginSweep, EndSweep, Inv, KeysMatchPool, IsInjective, ToSet
  <2>6. ASSUME NEW w \in Worker, SweepWorker(w)
        PROVE  Inv'
    <3>1. /\ keys' = keys
          /\ \/ pool' = pool /\ lock' = lock
             \/ pool' \subseteq pool /\ lock' = "rebuild"
      BY <2>6 DEF SweepWorker, VisitWorker
    <3> QED
      BY <3>1 DEF Inv, KeysMatchPool, IsInjective, ToSet
  <2>7. ASSUME NEW t \in Tick, BeginOffer(t) \/ OfferStep(t)
        PROVE  Inv'
    BY <2>7, SamePool
       DEF BeginOffer, OfferStep, ChooseWorker, AdvanceIndex, NoWorker, SubmitRun, poolVars
  <2>8. CASE CoordinatorRestarts
    BY <2>8 DEF CoordinatorRestarts, Inv, KeysMatchPool, IsInjective, ToSet
  <2>9. CASE UNCHANGED vars
    BY <2>9, SamePool DEF vars, poolVars
  <2> QED
    BY <2>1, <2>2, <2>3, <2>4, <2>5, <2>6, <2>7, <2>8, <2>9 DEF Next, PoolStep
<1> QED
  BY <1>1, <1>2, PTL DEF Spec

\* WorkerPoolKeys and WorkerPool agree whenever SendHeartbeat and
\* removeInactiveWorkers are not in the middle of changing them.
THEOREM WorkerPoolKeysMatchPool ==
    Spec => []KeysMatchPool
BY WorkerPoolInvariant, PTL DEF Inv

-----------------------------------------------------------------------------
(* Remainders *)

\* A number is a multiple of n and a remainder.
LEMMA DivMod ==
    ASSUME NEW n \in Nat \ {0}, NEW i \in Nat
    PROVE  i % n \in 0 .. n - 1 /\ i \div n \in Nat /\ i = n * (i \div n) + (i % n)
<1>1. i % n \in 0 .. n - 1
  OBVIOUS
<1>2. i \div n \in Int
  OBVIOUS
<1>3. i = n * (i \div n) + (i % n)
  OBVIOUS
<1>4. i \div n >= 0
  BY <1>2, <1>3
<1> QED
  BY <1>1, <1>2, <1>3, <1>4

\* The larger multiple leaves no room for the other's remainder.
LEMMA NoRoom ==
    ASSUME NEW n \in Nat \ {0}, NEW q \in Nat, NEW p \in Nat, q < p,
           NEW r \in 0 .. n - 1, NEW s \in 0 .. n - 1
    PROVE  n * q + r # n * p + s
<1>1. PICK d \in Nat : p = q + 1 + d
  <2>1. p - q - 1 \in Nat /\ p = q + 1 + (p - q - 1)
    OBVIOUS
  <2> QED
    BY <2>1
<1>2. n * p = n * q + n + n * d
  BY <1>1
<1>3. n * d >= 0 /\ n * q \in Nat /\ n * d \in Nat
  OBVIOUS
<1> QED
  BY <1>2, <1>3

\* So a number has one remainder.
LEMMA OneRemainder ==
    ASSUME NEW n \in Nat \ {0}, NEW q \in Nat, NEW p \in Nat,
           NEW r \in 0 .. n - 1, NEW s \in 0 .. n - 1, n * q + r = n * p + s
    PROVE  r = s
<1>1. q = p
  BY NoRoom
<1>2. n * q = n * p /\ n * q \in Nat
  BY <1>1
<1> QED
  BY <1>2

\* Counting on by one goes to the next remainder, around the end.
LEMMA NextRemainder ==
    ASSUME NEW n \in Nat \ {0}, NEW i \in Nat
    PROVE  (i + 1) % n = IF (i % n) + 1 = n THEN 0 ELSE (i % n) + 1
<1> DEFINE q == i \div n
           p == (i + 1) \div n
           r == i % n
           s == (i + 1) % n
<1>1. r \in 0 .. n - 1 /\ q \in Nat /\ i = n * q + r
  BY DivMod
<1> HIDE DEF q, r
<1>2. s \in 0 .. n - 1 /\ p \in Nat /\ i + 1 = n * p + s
  <2>1. i + 1 \in Nat
    OBVIOUS
  <2> QED
    BY <2>1, DivMod
<1> HIDE DEF p, s
<1>3. n * q \in Nat /\ n * p \in Nat /\ n * (q + 1) = n * q + n /\ q + 1 \in Nat
  BY <1>1, <1>2
<1>4. CASE r + 1 = n
  <2>1. n * (q + 1) + 0 = n * p + s
    BY <1>1, <1>2, <1>3, <1>4
  <2>2. s = 0
    BY <2>1, <1>1, <1>2, <1>3, OneRemainder
  <2> QED
    BY <2>2, <1>4 DEF r, s
<1>5. CASE r + 1 # n
  <2>1. n * q + (r + 1) = n * p + s /\ r + 1 \in 0 .. n - 1
    BY <1>1, <1>2, <1>3, <1>5
  <2>2. s = r + 1
    BY <2>1, <1>1, <1>2, OneRemainder
  <2> QED
    BY <2>2, <1>5 DEF r, s
<1> QED
  BY <1>4, <1>5

-----------------------------------------------------------------------------
(* The course of an offer *)

\* The k-th place after place f of a list of n, around its end.
Place(f, k, n) == IF f + k < n THEN f + k ELSE f + k - n

\* Where getNextWorker puts the index, unless it wrapped unevenly.
LEMMA IncrementMoves ==
    ASSUME WorkerPoolAssumption, NEW n \in Nat \ {0}, NEW i \in 0 .. Width - 1,
           NEW f \in 0 .. n - 1, NEW k \in 0 .. n - 1, i % n = Place(f, k, n),
           Increment(i) # 0 \/ Width % n = 0
    PROVE  Increment(i) % n = Place(f, k + 1, n)
<1>1. Width \in Nat \ {0}
  BY DEF WorkerPoolAssumption
<1>2. (i + 1) % n = Place(f, k + 1, n)
  <2> DEFINE r == i % n
             s == (i + 1) % n
  <2>1. s = IF r + 1 = n THEN 0 ELSE r + 1
    <3>1. i \in Nat
      BY <1>1
    <3> QED
      BY <3>1, NextRemainder, Zenon
  <2>2. r = Place(f, k, n)
    OBVIOUS
  <2> HIDE DEF r, s
  <2>3. s = Place(f, k + 1, n)
    BY <2>1, <2>2 DEF Place
  <2> QED
    BY <2>3 DEF s
<1>3. CASE i + 1 < Width
  <2>1. Increment(i) = i + 1
    <3>1. (i + 1) % Width = i + 1
      BY <1>1, <1>3
    <3> QED
      BY <3>1 DEF Increment
  <2> QED
    BY <1>2, <2>1
<1>4. CASE i + 1 = Width
  <2>1. Increment(i) = 0
    <3>1. Width % Width = 0
      BY <1>1
    <3> QED
      BY <1>4, <3>1 DEF Increment
  <2>2. Width % n = 0 /\ 0 % n = 0
    BY <2>1
  <2> QED
    BY <1>2, <1>4, <2>1, <2>2
<1> QED
  BY <1>1, <1>3, <1>4

\* The keys at the k places from place f on.
Visited(f, k) == {keys[Place(f, i, Len(keys)) + 1] : i \in 0 .. k - 1}

\* How many workers an offer has asked, and how often it moved the index.
Asked(t) == IF offer[t] = "choose" THEN attempt[t] ELSE attempt[t] + 1
Moved(t) == IF offer[t] = "ask" THEN attempt[t] + 1 ELSE attempt[t]

\* An offer that nobody disturbed began at some place of the list, and has since
\* asked the keys up to the index.
OnCourse(t) ==
    /\ Len(keys) > 0 /\ count[t] = Len(keys) /\ attempt[t] < Len(keys)
    /\ offer[t] \in {"choose", "advance", "ask"}
    /\ offer[t] = "advance" => seen[t] = next
    /\ \E f \in 0 .. Len(keys) - 1 :
         asked[t] = Visited(f, Asked(t)) /\ next % Len(keys) = Place(f, Moved(t), Len(keys))

CourseInv == \A t \in Tick : alone[t] => OnCourse(t)

OfferTypes ==
    /\ keys \in Seq(Worker)
    /\ next \in 0 .. Width - 1
    /\ seen \in [Tick -> 0 .. Width - 1]
    /\ offer \in [Tick -> {"idle", "choose", "advance", "ask"}]
    /\ count \in [Tick -> Nat]
    /\ attempt \in [Tick -> Nat]
    /\ asked \in [Tick -> SUBSET Worker]
    /\ alone \in [Tick -> BOOLEAN]
    /\ \A t \in Tick : offer[t] = "idle" => attempt[t] = 0 /\ asked[t] = {} /\ ~alone[t]

\* n places in a row, around the end, are all of them.
LEMMA VisitedAll ==
    ASSUME NEW f \in 0 .. Len(keys) - 1, keys \in Seq(Worker)
    PROVE  Visited(f, Len(keys)) = ToSet(keys)
<1> DEFINE n == Len(keys)
<1>1. n \in Nat /\ DOMAIN keys = 1 .. n
  OBVIOUS
<1>2. \A i \in 0 .. n - 1 : Place(f, i, n) + 1 \in 1 .. n
  BY <1>1 DEF Place
<1>3. \A j \in 1 .. n : \E i \in 0 .. n - 1 : Place(f, i, n) + 1 = j
  <2> SUFFICES ASSUME NEW j \in 1 .. n
               PROVE  \E i \in 0 .. n - 1 : Place(f, i, n) + 1 = j
    OBVIOUS
  <2> HIDE DEF n
  <2>1. CASE j > f
    <3>1. j - 1 - f \in 0 .. n - 1 /\ Place(f, j - 1 - f, n) + 1 = j
      BY <1>1, <2>1 DEF Place
    <3> QED
      BY <3>1
  <2>2. CASE j <= f
    <3>1. j - 1 - f + n \in 0 .. n - 1 /\ Place(f, j - 1 - f + n, n) + 1 = j
      BY <1>1, <2>2 DEF Place
    <3> QED
      BY <3>1
  <2> QED
    BY <2>1, <2>2, <1>1
<1> QED
  BY <1>1, <1>2, <1>3 DEF Visited, ToSet

\* Types.
LEMMA OfferTypesStep ==
    ASSUME WorkerPoolAssumption, Inv, OfferTypes, [Next]_vars
    PROVE  OfferTypes'
<1>1. Width \in Nat \ {0} /\ 0 \in 0 .. Width - 1 /\ IsFiniteSet(pool)
  BY FS_Subset DEF WorkerPoolAssumption, Inv
<1>2. \A i \in 0 .. Width - 1 : Increment(i) \in 0 .. Width - 1
  BY <1>1 DEF Increment
<1>3. ASSUME RebuildKeys PROVE OfferTypes'
  <2>1. /\ keys' \in [1 .. Cardinality(pool) -> pool]
        /\ alone' = [t \in Tick |-> FALSE]
        /\ UNCHANGED <<next, offer, count, attempt, target, seen, asked>>
    BY <1>3 DEF RebuildKeys
  <2>2. Cardinality(pool) \in Nat
    BY <1>1, FS_CardinalityType
  <2>3. keys' \in Seq(Worker)
    BY <2>1, <2>2 DEF Inv
  <2> QED
    BY <2>1, <2>3 DEF OfferTypes
<1>4. CASE RegisterWorker \/ RemoveKey
  BY <1>3, <1>4 DEF RegisterWorker, RemoveKey
<1>5. ASSUME NEW ts \in SUBSET Tick, EndOffers(ts), UNCHANGED keys, next' \in 0 .. Width - 1
      PROVE  OfferTypes'
  BY <1>1, <1>5 DEF EndOffers, OfferTypes
<1>6. CASE CoordinatorRestarts
  <2>1. /\ keys' = <<>> /\ next' = 0
        /\ offer' = [t \in Tick |-> "idle"] /\ count' = [t \in Tick |-> 0]
        /\ attempt' = [t \in Tick |-> 0] /\ seen' = [t \in Tick |-> 0]
        /\ asked' = [t \in Tick |-> {}] /\ alone' = [t \in Tick |-> FALSE]
    BY <1>6 DEF CoordinatorRestarts, EndOffers
  <2> QED
    BY <1>1, <2>1 DEF OfferTypes
<1>7. ASSUME NEW t \in Tick, BeginOffer(t) PROVE OfferTypes'
  BY <1>7 DEF BeginOffer, poolVars, OfferTypes
<1>8. ASSUME NEW t \in Tick, ChooseWorker(t) PROVE OfferTypes'
  <2>1. keys[(next % Len(keys)) + 1] \in Worker
    BY <1>8 DEF ChooseWorker, OfferTypes
  <2> QED
    BY <1>8, <2>1 DEF ChooseWorker, poolVars, OfferTypes
<1>9. ASSUME NEW t \in Tick, AdvanceIndex(t) PROVE OfferTypes'
  BY <1>2, <1>9 DEF AdvanceIndex, poolVars, OfferTypes
<1>10. ASSUME NEW t \in Tick, NoWorker(t) PROVE OfferTypes'
  <2>1. EndOffers({t}) /\ UNCHANGED <<keys, next>>
    BY <1>10 DEF NoWorker, poolVars
  <2>2. next' \in 0 .. Width - 1
    BY <2>1 DEF OfferTypes
  <2> QED
    BY <1>5, <2>1, <2>2
<1>11. ASSUME NEW t \in Tick, SubmitRun(t) PROVE OfferTypes'
  <2>1. (EndOffers({t}) \/ TryNext(t)) /\ UNCHANGED <<keys, next>>
    BY <1>11 DEF SubmitRun, poolVars
  <2>2. next' \in 0 .. Width - 1
    BY <2>1 DEF OfferTypes
  <2>3. CASE EndOffers({t})
    BY <1>5, <2>1, <2>2, <2>3
  <2>4. CASE TryNext(t)
    BY <2>1, <2>4 DEF TryNext, OfferTypes
  <2> QED
    BY <2>1, <2>3, <2>4
<1>12. CASE UNCHANGED <<keys, offerVars>>
  BY <1>12 DEF offerVars, OfferTypes
<1>13. ASSUME NEW w \in Worker,
              WorkerStarts(w) \/ HeartbeatFails(w) \/ WorkerDies(w) \/ SendHeartbeat(w)
                \/ SweepWorker(w)
       PROVE  OfferTypes'
  BY <1>12, <1>13
     DEF WorkerStarts, HeartbeatFails, WorkerDies, SendHeartbeat, SweepWorker, poolVars
<1>14. CASE BeginSweep \/ EndSweep \/ WaitForKeys \/ UNCHANGED vars
  BY <1>12, <1>14 DEF BeginSweep, EndSweep, WaitForKeys, vars, poolVars
<1> QED
  BY <1>4, <1>6, <1>7, <1>8, <1>9, <1>10, <1>11, <1>13, <1>14
     DEF Next, PoolStep, OfferStep

\* An offer stays on its course while nothing of it changes.
LEMMA SameCourse ==
    ASSUME NEW u \in Tick, OnCourse(u), UNCHANGED <<keys, next>>,
           offer'[u] = offer[u], count'[u] = count[u], attempt'[u] = attempt[u],
           seen'[u] = seen[u], asked'[u] = asked[u]
    PROVE  OnCourse(u)'
BY DEF OnCourse, Visited, Asked, Moved

\* The first place is where the index was.
LEMMA BeginOfferOnCourse ==
    ASSUME WorkerPoolAssumption, OfferTypes, NEW t \in Tick, BeginOffer(t)
    PROVE  OnCourse(t)'
<1> DEFINE n == Len(keys)
<1>1. n \in Nat \ {0} /\ next \in Nat
  BY DEF BeginOffer, OfferTypes, WorkerPoolAssumption
<1>2. PICK f \in 0 .. n - 1 : f = next % n
  BY <1>1, DivMod
<1>3. /\ keys' = keys /\ next' = next /\ offer'[t] = "choose" /\ count'[t] = n
      /\ attempt'[t] = 0 /\ asked'[t] = {}
  BY DEF BeginOffer, OfferTypes, poolVars
<1>4. Place(f, 0, n) = f
  BY <1>1, <1>2 DEF Place
<1>5. Asked(t)' = 0 /\ Moved(t)' = 0
  BY <1>3 DEF Asked, Moved
<1>6. Visited(f, Asked(t))' = {}
  BY <1>5 DEF Visited
<1>7. /\ asked'[t] = Visited(f, Asked(t))'
      /\ next' % Len(keys') = Place(f, Moved(t)', Len(keys'))
  BY <1>2, <1>3, <1>4, <1>5, <1>6
<1> QED
  BY <1>1, <1>2, <1>3, <1>7 DEF OnCourse

\* The key at the index is the next one of the course.
LEMMA ChooseOnCourse ==
    ASSUME WorkerPoolAssumption, OfferTypes, NEW t \in Tick, OnCourse(t), ChooseWorker(t)
    PROVE  OnCourse(t)'
<1> DEFINE n == Len(keys)
<1>1. PICK f \in 0 .. n - 1 : /\ asked[t] = Visited(f, attempt[t])
                              /\ next % n = Place(f, attempt[t], n)
  BY DEF OnCourse, Asked, Moved, ChooseWorker
<1>2. /\ keys' = keys /\ next' = next /\ offer'[t] = "advance" /\ count'[t] = count[t]
      /\ attempt'[t] = attempt[t] /\ seen'[t] = next
      /\ asked'[t] = asked[t] \cup {keys[(next % n) + 1]}
  BY DEF ChooseWorker, OfferTypes, poolVars
<1>3. Visited(f, attempt[t] + 1) = Visited(f, attempt[t]) \cup {keys[Place(f, attempt[t], n) + 1]}
  <2>1. attempt[t] \in Nat
    BY DEF OfferTypes
  <2>2. 0 .. (attempt[t] + 1) - 1 = (0 .. attempt[t] - 1) \cup {attempt[t]}
    BY <2>1
  <2> QED
    BY <2>2 DEF Visited
<1>4. \A k : Visited(f, k)' = Visited(f, k)
  BY <1>2 DEF Visited
<1>5. Asked(t)' = attempt[t] + 1 /\ Moved(t)' = attempt[t]
  BY <1>2 DEF Asked, Moved
<1>6. /\ asked'[t] = Visited(f, Asked(t))'
      /\ next' % Len(keys') = Place(f, Moved(t)', Len(keys'))
  <2>1. asked'[t] = Visited(f, attempt[t] + 1)
    BY <1>1, <1>2, <1>3
  <2>2. Visited(f, Asked(t))' = Visited(f, attempt[t] + 1)
    BY <1>2, <1>5 DEF Visited
  <2> QED
    BY <1>1, <1>2, <1>5, <2>1, <2>2
<1> QED
  BY <1>1, <1>2, <1>6 DEF OnCourse, ChooseWorker

\* The index moves to the next place.
LEMMA AdvanceOnCourse ==
    ASSUME WorkerPoolAssumption, OfferTypes, NEW t \in Tick, OnCourse(t), AdvanceIndex(t),
           alone'[t]
    PROVE  OnCourse(t)'
<1> DEFINE n == Len(keys)
           k == attempt[t]
<1>1. PICK f \in 0 .. n - 1 : asked[t] = Visited(f, k + 1) /\ next % n = Place(f, k, n)
  BY DEF OnCourse, Asked, Moved, AdvanceIndex
<1>2. /\ keys' = keys /\ offer'[t] = "ask" /\ count'[t] = count[t]
      /\ attempt'[t] = k /\ asked'[t] = asked[t]
  BY DEF AdvanceIndex, OfferTypes, poolVars
<1>3. next' = Increment(next)
  BY DEF AdvanceIndex, OnCourse
<1>4. next' # 0 \/ Width % n = 0
  <2>1. alone' = [u \in Tick |-> alone[u] /\ u = t /\ (next' # 0 \/ Width % n = 0)]
    BY DEF AdvanceIndex
  <2> QED
    BY <2>1, Zenon
<1>5. n \in Nat \ {0} /\ k \in 0 .. n - 1 /\ next \in 0 .. Width - 1
  BY DEF OnCourse, OfferTypes
<1> HIDE DEF n, k
<1>6. Increment(next) % n = Place(f, k + 1, n)
  BY <1>1, <1>3, <1>4, <1>5, IncrementMoves
<1>7. Asked(t)' = k + 1 /\ Moved(t)' = k + 1 /\ Len(keys') = n
  BY <1>2 DEF Asked, Moved, n
<1>8. Visited(f, Asked(t))' = Visited(f, k + 1)
  BY <1>2, <1>7 DEF Visited
<1>9. /\ asked'[t] = Visited(f, Asked(t))'
      /\ next' % Len(keys') = Place(f, Moved(t)', Len(keys'))
  BY <1>1, <1>2, <1>3, <1>6, <1>7, <1>8
<1>10. count'[t] = n
  BY <1>2 DEF OnCourse, n
<1> QED
  BY <1>1, <1>2, <1>5, <1>7, <1>9, <1>10 DEF OnCourse

\* A worker that declined is followed by the next.
LEMMA TryNextOnCourse ==
    ASSUME OfferTypes, NEW t \in Tick, OnCourse(t), offer[t] = "ask", TryNext(t),
           UNCHANGED <<keys, next>>
    PROVE  OnCourse(t)'
<1> DEFINE n == Len(keys)
           k == attempt[t]
<1>1. PICK f \in 0 .. n - 1 : asked[t] = Visited(f, k + 1) /\ next % n = Place(f, k + 1, n)
  BY DEF OnCourse, Asked, Moved
<1>2. /\ offer'[t] = "choose" /\ count'[t] = count[t]
      /\ attempt'[t] = k + 1 /\ asked'[t] = asked[t] /\ k + 1 < n
  BY DEF TryNext, OfferTypes, OnCourse
<1>3. Asked(t)' = k + 1 /\ Moved(t)' = k + 1 /\ Len(keys') = n
  BY <1>2 DEF Asked, Moved
<1>4. Visited(f, Asked(t))' = Visited(f, k + 1)
  BY <1>3 DEF Visited
<1> QED
  BY <1>1, <1>2, <1>3, <1>4 DEF OnCourse

\* Every step keeps the offers on their course that nobody disturbs.
LEMMA CourseStep ==
    ASSUME WorkerPoolAssumption, OfferTypes, OfferTypes', CourseInv, [Next]_vars
    PROVE  CourseInv'
<1> SUFFICES ASSUME NEW u \in Tick, alone'[u]
             PROVE  OnCourse(u)'
  BY DEF CourseInv
<1>1. ASSUME UNCHANGED <<keys, offerVars>> PROVE OnCourse(u)'
  <2>1. alone[u] /\ UNCHANGED <<keys, next, offer, count, attempt, seen, asked>>
    BY <1>1 DEF offerVars
  <2>2. OnCourse(u)
    BY <2>1 DEF CourseInv
  <2> QED
    BY <2>1, <2>2, SameCourse
<1>2. ASSUME NEW w \in Worker,
             WorkerStarts(w) \/ HeartbeatFails(w) \/ WorkerDies(w) \/ SendHeartbeat(w)
               \/ SweepWorker(w)
      PROVE  OnCourse(u)'
  BY <1>1, <1>2
     DEF WorkerStarts, HeartbeatFails, WorkerDies, SendHeartbeat, SweepWorker, poolVars
<1>3. CASE BeginSweep \/ EndSweep \/ WaitForKeys \/ UNCHANGED vars
  BY <1>1, <1>3 DEF BeginSweep, EndSweep, WaitForKeys, vars, poolVars
<1>4. CASE RegisterWorker \/ RemoveKey
  <2>1. alone' = [t \in Tick |-> FALSE]
    BY <1>4 DEF RegisterWorker, RemoveKey, RebuildKeys
  <2> QED
    BY <2>1
<1>5. CASE CoordinatorRestarts
  <2>1. offer' = [t \in Tick |-> "idle"]
    BY <1>5 DEF CoordinatorRestarts, EndOffers
  <2> QED
    BY <2>1 DEF OfferTypes
<1>6. ASSUME NEW t \in Tick, t # u, alone[u], UNCHANGED <<keys, next>>,
             offer'[u] = offer[u], count'[u] = count[u], attempt'[u] = attempt[u],
             seen'[u] = seen[u], asked'[u] = asked[u]
      PROVE  OnCourse(u)'
  BY <1>6, SameCourse DEF CourseInv
<1>7. ASSUME NEW t \in Tick, BeginOffer(t) PROVE OnCourse(u)'
  <2>1. CASE t = u
    BY <1>7, <2>1, BeginOfferOnCourse
  <2>2. CASE t # u
    BY <1>6, <1>7, <2>2 DEF BeginOffer, poolVars, OfferTypes
  <2> QED
    BY <2>1, <2>2
<1>8. ASSUME NEW t \in Tick, ChooseWorker(t) PROVE OnCourse(u)'
  <2>1. CASE t = u
    BY <1>8, <2>1, ChooseOnCourse DEF ChooseWorker, CourseInv
  <2>2. CASE t # u
    BY <1>6, <1>8, <2>2 DEF ChooseWorker, poolVars, OfferTypes
  <2> QED
    BY <2>1, <2>2
<1>9. ASSUME NEW t \in Tick, AdvanceIndex(t) PROVE OnCourse(u)'
  <2>1. alone[u] /\ u = t
    <3>1. alone' = [v \in Tick |-> alone[v] /\ v = t /\ (next' # 0 \/ Width % Len(keys) = 0)]
      BY <1>9 DEF AdvanceIndex
    <3> QED
      BY <3>1, Zenon
  <2> QED
    BY <1>9, <2>1, AdvanceOnCourse DEF CourseInv
<1>10. ASSUME NEW t \in Tick, EndOffers({t}), UNCHANGED <<keys, next>> PROVE OnCourse(u)'
  <2>1. offer'[t] = "idle"
    BY <1>10 DEF EndOffers
  <2>2. t # u
    BY <2>1 DEF OfferTypes
  <2>3. /\ alone'[u] = alone[u] /\ offer'[u] = offer[u] /\ count'[u] = count[u]
        /\ attempt'[u] = attempt[u] /\ seen'[u] = seen[u] /\ asked'[u] = asked[u]
    BY <1>10, <2>2 DEF EndOffers
  <2> QED
    BY <1>6, <1>10, <2>2, <2>3
<1>11. ASSUME NEW t \in Tick, NoWorker(t) PROVE OnCourse(u)'
  BY <1>10, <1>11 DEF NoWorker, poolVars
<1>12. ASSUME NEW t \in Tick, SubmitRun(t) PROVE OnCourse(u)'
  <2>1. /\ EndOffers({t}) \/ TryNext(t)
        /\ UNCHANGED <<keys, next>>
        /\ offer[t] = "ask"
    BY <1>12 DEF SubmitRun, poolVars
  <2>2. CASE EndOffers({t})
    BY <1>10, <2>1, <2>2
  <2>3. CASE TryNext(t)
    <3>1. alone[u] /\ OnCourse(u)
      BY <2>3 DEF TryNext, CourseInv
    <3>2. CASE t = u
      BY <2>1, <2>3, <3>1, <3>2, TryNextOnCourse
    <3>3. CASE t # u
      BY <1>6, <2>1, <2>3, <3>1, <3>3 DEF TryNext, OfferTypes
    <3> QED
      BY <3>2, <3>3
  <2> QED
    BY <2>1, <2>2, <2>3
<1> QED
  BY <1>2, <1>3, <1>4, <1>5, <1>7, <1>8, <1>9, <1>11, <1>12 DEF Next, PoolStep, OfferStep

\* The inductive invariant of an offer.
LEMMA OfferInvariant ==
    Spec => [](OfferTypes /\ CourseInv)
<1>1. Init => OfferTypes /\ CourseInv
  BY WorkerPoolAssumption DEF Init, OfferTypes, CourseInv, WorkerPoolAssumption
<1>2. Inv /\ OfferTypes /\ CourseInv /\ [Next]_vars => (OfferTypes /\ CourseInv)'
  BY OfferTypesStep, CourseStep, WorkerPoolAssumption
<1> QED
  BY <1>1, <1>2, WorkerPoolInvariant, PTL DEF Spec

\* offerRunToWorker "tries each worker once": when it asks the last of as many
\* workers as it counted, it has asked every one of them.
THEOREM WorkerPoolAsksEveryWorker ==
    Spec => []AsksEveryWorker
<1>1. OfferTypes /\ CourseInv => AsksEveryWorker
  <2> SUFFICES ASSUME OfferTypes, CourseInv, NEW t \in Tick,
                      offer[t] = "ask", alone[t], attempt[t] + 1 = count[t]
               PROVE  asked[t] = ToSet(keys)
    BY DEF AsksEveryWorker
  <2>1. PICK f \in 0 .. Len(keys) - 1 : asked[t] = Visited(f, Asked(t))
    BY DEF CourseInv, OnCourse
  <2>2. Asked(t) = Len(keys)
    BY DEF CourseInv, OnCourse, Asked
  <2>3. Visited(f, Len(keys)) = ToSet(keys)
    BY VisitedAll DEF OfferTypes
  <2> QED
    BY <2>1, <2>2, <2>3
<1> QED
  BY <1>1, OfferInvariant, PTL

=============================================================================
