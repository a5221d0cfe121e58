---------------------------- MODULE WorkerProofs ----------------------------
(***************************************************************************)
(* Proofs about Worker, for any number of runs and goroutines and any      *)
(* capacity: the queue stays within its capacity, a run that was accepted  *)
(* is in exactly one place, and the connection to the coordinator is       *)
(* closed after the last execution.                                        *)
(*                                                                         *)
(* The properties speak of what is queued as a set.  The inductive         *)
(* invariant adds that no run is queued twice, so that receiving a run     *)
(* takes it out of the queue, and that a goroutine which exited executes   *)
(* nothing, which is what wg.Wait relies on.                               *)
(***************************************************************************)
EXTENDS Worker, TLAPS

QueuedOnce == \A i, j \in 1 .. Len(queue) : queue[i] = queue[j] => i = j

ExitedIsFree == \A g \in Goroutine : mode[g] = "exited" => job[g] = None

WaitedFor ==
    stop \in {"closing", "stopped"} => \A g \in Goroutine : mode[g] = "exited"

Inv ==
    /\ TypeOK
    /\ QueuedOnce
    /\ AcceptedIsHeldOnce
    /\ ExitedIsFree
    /\ WaitedFor

\* Enqueueing a run adds it to what is queued, and nothing else.
LEMMA AppendQueued ==
    ASSUME TypeOK, NEW r \in Run, queue' = Append(queue, r)
    PROVE  /\ Queued' = Queued \cup {r}
           /\ QueuedOnce /\ r \notin Queued => QueuedOnce'
<1>1. queue \in Seq(Run) /\ Len(queue) \in Nat
  BY DEF TypeOK
<1>2. /\ Len(queue') = Len(queue) + 1
      /\ \A i \in 1 .. Len(queue) : queue'[i] = queue[i]
      /\ queue'[Len(queue) + 1] = r
      /\ DOMAIN queue = 1 .. Len(queue)
      /\ DOMAIN queue' = 1 .. Len(queue) + 1
  BY <1>1
<1>3. Queued' = Queued \cup {r}
  BY <1>1, <1>2 DEF Queued
<1>4. QueuedOnce /\ r \notin Queued => QueuedOnce'
  BY <1>1, <1>2 DEF Queued, QueuedOnce
<1> QED
  BY <1>3, <1>4

\* Receiving a run takes it, and nothing else, out of what is queued.
LEMMA TailQueued ==
    ASSUME TypeOK, QueuedOnce, queue # <<>>, queue' = Tail(queue)
    PROVE  /\ Head(queue) \in Queued
           /\ Queued' = Queued \ {Head(queue)}
           /\ QueuedOnce'
<1>1. queue \in Seq(Run) /\ Len(queue) \in Nat \ {0}
  BY DEF TypeOK
<1>2. /\ Len(queue') = Len(queue) - 1
      /\ \A i \in 1 .. Len(queue) - 1 : queue'[i] = queue[i + 1]
      /\ Head(queue) = queue[1]
      /\ DOMAIN queue = 1 .. Len(queue)
      /\ DOMAIN queue' = 1 .. Len(queue) - 1
  BY <1>1
<1>3. Head(queue) \in Queued
  BY <1>1, <1>2 DEF Queued
<1>4. ASSUME NEW r \in Queued', r \notin Queued \ {Head(queue)}
      PROVE  FALSE
  <2>1. PICK i \in 1 .. Len(queue) - 1 : r = queue[i + 1]
    BY <1>2, <1>4 DEF Queued
  <2>2. r \in Queued
    BY <1>1, <1>2, <2>1 DEF Queued
  <2>3. r # Head(queue)
    BY <1>1, <1>2, <2>1 DEF QueuedOnce
  <2> QED
    BY <1>4, <2>2, <2>3
<1>5. ASSUME NEW r \in Queued, r # Head(queue)
      PROVE  r \in Queued'
  <2>1. PICK i \in 1 .. Len(queue) : r = queue[i]
    BY <1>2 DEF Queued
  <2>2. i # 1 /\ i - 1 \in 1 .. Len(queue) - 1
    BY <1>1, <1>2, <1>5, <2>1
  <2>3. queue'[i - 1] = r
    BY <1>1, <1>2, <2>1, <2>2
  <2>4. i - 1 \in DOMAIN queue'
    BY <1>2, <2>2
  <2> QED
    BY <2>3, <2>4, Zenon DEF Queued
<1>6. QueuedOnce'
  BY <1>1, <1>2 DEF QueuedOnce
<1> QED
  BY <1>3, <1>4, <1>5, <1>6

\* A step that touches neither the calls nor the runs keeps them where they are.
LEMMA SameRuns ==
    ASSUME Inv, UNCHANGED <<call, queue, job, executed>>
    PROVE  QueuedOnce' /\ AcceptedIsHeldOnce'
BY DEF Inv, QueuedOnce, AcceptedIsHeldOnce, Queued, Executing

LEMMA SubmitKeepsInv ==
    ASSUME WorkerAssumption, Inv, NEW r \in Run, SubmitRun(r)
    PROVE  Inv'
<1> USE DEF Inv
<1>1. UNCHANGED <<stop, mode, job, executed, heart>> /\ call[r] = "checked"
  BY DEF SubmitRun, poolVars
<1>2. early' \subseteq Run
  BY DEF SubmitRun, TypeOK
<1>3. CASE Len(queue) < QueueCap
  <2>1. call' = [call EXCEPT ![r] = "accepted"] /\ queue' = Append(queue, r)
    BY <1>3 DEF SubmitRun, EnqueueRun
  <2>2. r \notin Queued \cup Executing \cup executed
    BY <1>1 DEF AcceptedIsHeldOnce
  <2>3. Queued' = Queued \cup {r} /\ QueuedOnce'
    BY <2>1, <2>2, AppendQueued
  <2>4. TypeOK'
    <3>1. queue' \in Seq(Run) /\ Len(queue') = Len(queue) + 1
      BY <2>1 DEF TypeOK
    <3> QED
      BY <1>1, <1>2, <1>3, <2>1, <3>1 DEF TypeOK, WorkerAssumption
  <2>5. Executing' = Executing
    BY <1>1 DEF Executing
  <2>6. {q \in Run : call'[q] = "accepted"} = {q \in Run : call[q] = "accepted"} \cup {r}
    BY <2>1 DEF TypeOK
  <2>7. AcceptedIsHeldOnce'
    BY <1>1, <2>2, <2>3, <2>5, <2>6 DEF AcceptedIsHeldOnce
  <2> QED
    BY <1>1, <2>3, <2>4, <2>7 DEF ExitedIsFree, WaitedFor
<1>4. CASE ~(Len(queue) < QueueCap)
  <2>1. call' = [call EXCEPT ![r] = "declined"] /\ queue' = queue
    BY <1>4 DEF SubmitRun, EnqueueRun
  <2>2. TypeOK'
    BY <1>1, <1>2, <2>1 DEF TypeOK
  <2>3. {q \in Run : call'[q] = "accepted"} = {q \in Run : call[q] = "accepted"}
    BY <1>1, <2>1 DEF TypeOK
  <2>4. AcceptedIsHeldOnce' /\ QueuedOnce'
    BY <1>1, <2>1, <2>3 DEF AcceptedIsHeldOnce, QueuedOnce, Queued, Executing
  <2> QED
    BY <1>1, <2>2, <2>4 DEF ExitedIsFree, WaitedFor
<1> QED
  BY <1>3, <1>4

LEMMA CheckKeepsInv ==
    ASSUME Inv, NEW r \in Run, CheckDraining(r)
    PROVE  Inv'
<1> USE DEF Inv
<1>1. UNCHANGED <<stop, queue, mode, job, executed, heart, early>>
  BY DEF CheckDraining, poolVars
<1>2. call[r] = "none" /\ call' \in [Run -> {"none", "checked", "accepted", "declined"}]
  BY DEF CheckDraining, TypeOK
<1>3. {q \in Run : call'[q] = "accepted"} = {q \in Run : call[q] = "accepted"}
  BY DEF CheckDraining, TypeOK
<1>4. TypeOK'
  BY <1>1, <1>2 DEF TypeOK
<1>5. AcceptedIsHeldOnce' /\ QueuedOnce'
  BY <1>1, <1>3 DEF AcceptedIsHeldOnce, QueuedOnce, Queued, Executing
<1> QED
  BY <1>1, <1>4, <1>5 DEF ExitedIsFree, WaitedFor

LEMMA ReceiveKeepsInv ==
    ASSUME WorkerAssumption, Inv, NEW g \in Goroutine, ReceiveRun(g)
    PROVE  Inv'
<1> USE DEF Inv
<1> DEFINE r == Head(queue)
<1>1. /\ UNCHANGED <<stop, call, mode, heart, executed, early>>
      /\ mode[g] # "exited" /\ job[g] = None /\ queue # <<>>
      /\ job' = [job EXCEPT ![g] = r]
      /\ queue' = Tail(queue)
  BY DEF ReceiveRun
<1>2. r \in Queued /\ Queued' = Queued \ {r} /\ QueuedOnce'
  BY <1>1, TailQueued
<1>3. r \in Run /\ r # None
  BY <1>1 DEF TypeOK, WorkerAssumption
<1>4. TypeOK'
  <2>1. queue' \in Seq(Run) /\ Len(queue') <= Len(queue)
    BY <1>1 DEF TypeOK
  <2> QED
    BY <1>1, <1>3, <2>1 DEF TypeOK, WorkerAssumption
<1>5. \A h \in Goroutine : job'[h] = IF h = g THEN r ELSE job[h]
  BY <1>1 DEF TypeOK
<1>6. Executing' = Executing \cup {r}
  BY <1>1, <1>3, <1>5 DEF Executing
<1>7. r \notin Executing /\ r \notin executed
  BY <1>2 DEF AcceptedIsHeldOnce
<1>8. \A h \in Goroutine : job[h] # r
  BY <1>3, <1>7 DEF Executing
<1>9. AcceptedIsHeldOnce'
  <2>1. {q \in Run : call'[q] = "accepted"} = Queued' \cup Executing' \cup executed'
    BY <1>1, <1>2, <1>6 DEF AcceptedIsHeldOnce
  <2>2. Queued' \cap Executing' = {} /\ (Queued' \cup Executing') \cap executed' = {}
    BY <1>1, <1>2, <1>6, <1>7 DEF AcceptedIsHeldOnce
  <2>3. \A h, k \in Goroutine : job'[h] = job'[k] /\ job'[h] # None => h = k
    BY <1>5, <1>8 DEF AcceptedIsHeldOnce
  <2> QED
    BY <2>1, <2>2, <2>3 DEF AcceptedIsHeldOnce
<1> QED
  BY <1>1, <1>2, <1>4, <1>5, <1>9 DEF ExitedIsFree, WaitedFor

LEMMA FinishKeepsInv ==
    ASSUME WorkerAssumption, Inv, NEW g \in Goroutine, FinishRun(g)
    PROVE  Inv'
<1> USE DEF Inv
<1>1. /\ UNCHANGED <<stop, call, queue, mode, heart, early>>
      /\ job[g] # None
      /\ executed' = executed \cup {job[g]}
      /\ job' = [job EXCEPT ![g] = None]
  BY DEF FinishRun
<1>2. TypeOK'
  BY <1>1 DEF TypeOK
<1>3. \A h \in Goroutine : job'[h] = IF h = g THEN None ELSE job[h]
  BY <1>1 DEF TypeOK
<1>4. job[g] \in Executing /\ Executing' = Executing \ {job[g]}
  BY <1>1, <1>3 DEF Executing, AcceptedIsHeldOnce
<1>5. Queued' = Queued /\ QueuedOnce'
  BY <1>1 DEF Queued, QueuedOnce
<1>6. AcceptedIsHeldOnce'
  <2>1. {q \in Run : call'[q] = "accepted"} = Queued' \cup Executing' \cup executed'
    BY <1>1, <1>4, <1>5 DEF AcceptedIsHeldOnce
  <2>2. Queued' \cap Executing' = {} /\ (Queued' \cup Executing') \cap executed' = {}
    BY <1>1, <1>4, <1>5 DEF AcceptedIsHeldOnce
  <2>3. \A h, k \in Goroutine : job'[h] = job'[k] /\ job'[h] # None => h = k
    BY <1>3 DEF AcceptedIsHeldOnce
  <2> QED
    BY <2>1, <2>2, <2>3 DEF AcceptedIsHeldOnce
<1> QED
  BY <1>1, <1>2, <1>3, <1>5, <1>6 DEF ExitedIsFree, WaitedFor

\* The steps that move a goroutine, the heartbeat or Stop, and no run.
LEMMA ControlKeepsInv ==
    ASSUME Inv,
           \/ \E g \in Goroutine : ContextDone(g) \/ Exit(g)
           \/ SendHeartbeat \/ HeartStep \/ SetDraining \/ StopStep \/ UNCHANGED vars
    PROVE  Inv'
<1> USE DEF Inv
<1>1. ASSUME NEW g \in Goroutine, ContextDone(g) \/ Exit(g)
      PROVE  Inv'
  <2>1. /\ UNCHANGED <<stop, call, queue, job, heart, executed, early>>
        /\ job[g] = None
        /\ \E m \in {"drain", "exited"} : mode' = [mode EXCEPT ![g] = m]
        /\ mode[g] # "exited"
    BY <1>1 DEF ContextDone, Exit, SeeDone
  <2>2. TypeOK'
    BY <2>1 DEF TypeOK
  <2>3. \A h \in Goroutine : h # g => mode'[h] = mode[h]
    BY <2>1 DEF TypeOK
  <2>4. ExitedIsFree' /\ WaitedFor'
    BY <2>1, <2>3 DEF ExitedIsFree, WaitedFor
  <2> QED
    BY <2>1, <2>2, <2>4, SameRuns
<1>2. CASE SendHeartbeat \/ HeartStep
  <2>1. /\ UNCHANGED <<stop, call, queue, mode, job, executed, early>>
        /\ heart' \in {"waiting", "sending", "exited"}
    BY <1>2 DEF SendHeartbeat, HeartStep, HeartbeatReturns, HeartbeatDone, poolVars
  <2> QED
    BY <2>1, SameRuns DEF TypeOK, ExitedIsFree, WaitedFor
<1>3. CASE SetDraining \/ StopStep
  <2>1. /\ UNCHANGED <<call, queue, mode, job, executed, heart, early>>
        /\ stop' \in {"draining", "cancelled", "closing", "stopped"}
        /\ stop' \in {"closing", "stopped"} => \A g \in Goroutine : mode[g] = "exited"
    BY <1>3 DEF SetDraining, StopStep, Cancel, Wait, AllDone, Close, poolVars, WaitedFor
  <2> QED
    BY <2>1, SameRuns DEF TypeOK, ExitedIsFree, WaitedFor
<1>4. CASE UNCHANGED vars
  <2>1. UNCHANGED <<stop, call, queue, mode, job, executed, heart, early>>
    BY <1>4 DEF vars, poolVars
  <2> QED
    BY <2>1, SameRuns DEF TypeOK, ExitedIsFree, WaitedFor
<1> QED
  BY <1>1, <1>2, <1>3, <1>4

LEMMA InitInv ==
    ASSUME WorkerAssumption, Init
    PROVE  Inv
<1>1. TypeOK /\ queue = <<>> /\ Queued = {}
  BY DEF Init, TypeOK, WorkerAssumption, Queued
<1>2. Executing = {}
  BY DEF Init, Executing
<1>3. AcceptedIsHeldOnce
  BY <1>1, <1>2 DEF Init, AcceptedIsHeldOnce
<1> QED
  BY <1>1, <1>3 DEF Init, Inv, QueuedOnce, ExitedIsFree, WaitedFor

\* Every step keeps the inductive invariant.
LEMMA WorkerInvariant ==
    Spec => []Inv
<1>1. Init => Inv
  BY InitInv, WorkerAssumption
<1>2. Inv /\ [Next]_vars => Inv'
  <2> SUFFICES ASSUME Inv, [Next]_vars
               PROVE  Inv'
    OBVIOUS
  <2>1. ASSUME NEW r \in Run, CheckDraining(r) \/ SubmitRun(r)
        PROVE  Inv'
    BY <2>1, CheckKeepsInv, SubmitKeepsInv, WorkerAssumption
  <2>2. ASSUME NEW g \in Goroutine, ReceiveRun(g) \/ FinishRun(g)
        PROVE  Inv'
    BY <2>2, ReceiveKeepsInv, FinishKeepsInv, WorkerAssumption
  <2>3. ASSUME \/ \E g \in Goroutine : ContextDone(g) \/ Exit(g)
               \/ SendHeartbeat \/ HeartStep \/ SetDraining \/ StopStep \/ UNCHANGED vars
        PROVE  Inv'
    BY <2>3, ControlKeepsInv
  <2> QED
    BY <2>1, <2>2, <2>3 DEF Next, GoroutineStep, Terminated
<1> QED
  BY <1>1, <1>2, PTL DEF Spec

\* The queue never holds more than runQueueSize runs, and every variable keeps
\* its type: the send of SubmitRun does not block and does not overflow.
THEOREM WorkerTypeCorrect ==
    Spec => []TypeOK
BY WorkerInvariant, PTL DEF Inv

\* A run SubmitRun accepted is queued, with one goroutine, or done, and nothing
\* else is, for any number of runs, goroutines and places in the queue.
THEOREM WorkerAcceptedIsHeldOnce ==
    Spec => []AcceptedIsHeldOnce
BY WorkerInvariant, PTL DEF Inv

\* Stop closes the connection to the coordinator when nothing is executing.
THEOREM WorkerConnectionOutlivesRuns ==
    Spec => []ConnectionOutlivesRuns
<1>1. Inv => ConnectionOutlivesRuns
  BY DEF Inv, WaitedFor, ExitedIsFree, ConnectionOutlivesRuns, Executing
<1> QED
  BY <1>1, WorkerInvariant, PTL

=============================================================================
