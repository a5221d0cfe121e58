------------------------------- MODULE Worker -------------------------------
(***************************************************************************)
(* One worker process from its start to the end of Stop: the SubmitRun     *)
(* handlers, the bounded queue, the goroutines that execute runs, the      *)
(* heartbeat goroutine, and the steps of a graceful shutdown.  A handler   *)
(* looks at the draining flag and then enqueues, in two steps.             *)
(***************************************************************************)
EXTENDS Naturals, Sequences, FiniteSets

CONSTANTS
    Run,        \* runs offered to this worker, each in a call of its own
    Goroutine,  \* the workerPoolSize goroutines
    QueueCap,   \* runQueueSize
    None        \* no run

ASSUME WorkerAssumption ==
    /\ QueueCap \in Nat
    /\ None \notin Run

VARIABLES
    stop,     \* how far Stop is; the draining flag is set unless "serving"
    call,     \* the SubmitRun call of a run
    queue,    \* runQueue
    mode,     \* a goroutine is in its loop, in the draining loop, or has exited
    job,      \* the run a goroutine executes, or None
    heart,    \* the heartbeat goroutine
    \* history, for the properties only
    executed, \* runs whose executeRun has returned
    early     \* runs enqueued before the draining flag was set

poolVars == <<mode, job, executed>>
vars == <<stop, call, queue, poolVars, heart, early>>

Init ==
    /\ stop = "serving"
    /\ call = [r \in Run |-> "none"]
    /\ queue = <<>>
    /\ mode = [g \in Goroutine |-> "loop"]
    /\ job = [g \in Goroutine |-> None]
    /\ heart = "waiting"
    /\ executed = {}
    /\ early = {}

Draining == stop # "serving"
Cancelled == stop \notin {"serving", "draining"}

-----------------------------------------------------------------------------
(* SubmitRun *)

\* The call arrives and reads the flag.  The gRPC server takes calls until
\* GracefulStop.
CheckDraining(r) ==
    /\ call[r] = "none"
    /\ stop \notin {"closing", "stopped"}
    /\ call' = [call EXCEPT ![r] = IF Draining THEN "declined" ELSE "checked"]
    /\ UNCHANGED <<stop, queue, poolVars, heart, early>>

\* Mutant: the answer is "accepted" although the queue had no room.
EnqueueRun_AlwaysAccepts(r) ==
    /\ call' = [call EXCEPT ![r] = "accepted"]
    /\ queue' = IF Len(queue) < QueueCap THEN Append(queue, r) ELSE queue

\* The non-blocking send: accepted if the queue has room, else at capacity.
EnqueueRun(r) ==
    IF Len(queue) < QueueCap
      THEN call' = [call EXCEPT ![r] = "accepted"] /\ queue' = Append(queue, r)
      ELSE call' = [call EXCEPT ![r] = "declined"] /\ UNCHANGED queue

SubmitRun(r) ==
    /\ call[r] = "checked"
    /\ EnqueueRun(r)
    /\ early' = IF queue' # queue /\ ~Draining THEN early \cup {r} ELSE early
    /\ UNCHANGED <<stop, poolVars, heart>>

-----------------------------------------------------------------------------
(* The goroutines *)

\* A free goroutine receives a run, in the loop or in the draining loop.  The
\* select of the loop may do so although the context is done.
ReceiveRun(g) ==
    /\ mode[g] # "exited"
    /\ job[g] = None
    /\ queue # <<>>
    /\ job' = [job EXCEPT ![g] = Head(queue)]
    /\ queue' = Tail(queue)
    /\ UNCHANGED <<stop, call, mode, heart, executed, early>>

\* executeRun returns, whatever the outcome; its own context outlives Stop.
FinishRun(g) ==
    /\ job[g] # None
    /\ executed' = executed \cup {job[g]}
    /\ job' = [job EXCEPT ![g] = None]
    /\ UNCHANGED <<stop, call, queue, mode, heart, early>>

\* Mutant: the goroutine does not drain the queue.
SeeDone_Exit == "exited"

\* Where the loop goes when it sees that the context is done.
SeeDone == "drain"

ContextDone(g) ==
    /\ mode[g] = "loop"
    /\ job[g] = None
    /\ Cancelled
    /\ mode' = [mode EXCEPT ![g] = SeeDone]
    /\ UNCHANGED <<stop, call, queue, job, heart, executed, early>>

Exit(g) ==
    /\ mode[g] = "drain"
    /\ job[g] = None
    /\ queue = <<>>
    /\ mode' = [mode EXCEPT ![g] = "exited"]
    /\ UNCHANGED <<stop, call, queue, job, heart, executed, early>>

-----------------------------------------------------------------------------
(* periodicHeartbeat: the first heartbeat that fails ends the goroutine.   *)

SendHeartbeat ==
    /\ heart = "waiting"
    /\ heart' = "sending"
    /\ UNCHANGED <<stop, call, queue, poolVars, early>>

HeartbeatReturns ==
    /\ heart = "sending"
    /\ heart' \in {"waiting", "exited"}
    /\ UNCHANGED <<stop, call, queue, poolVars, early>>

\* Mutant: the goroutine does not watch the context.
HeartSeesDone_Never == FALSE

HeartSeesDone == heart = "waiting" /\ Cancelled

HeartbeatDone ==
    /\ HeartSeesDone
    /\ heart' = "exited"
    /\ UNCHANGED <<stop, call, queue, poolVars, early>>

-----------------------------------------------------------------------------
(* Stop *)

SetDraining ==
    /\ stop = "serving"
    /\ stop' = "draining"
    /\ UNCHANGED <<call, queue, poolVars, heart, early>>

\* healthServer.Stop, then cancel.
Cancel ==
    /\ stop = "draining"
    /\ stop' = "cancelled"
    /\ UNCHANGED <<call, queue, poolVars, heart, early>>

\* Mutant: only the heartbeat goroutine is waited for.
AllDone_HeartOnly == heart = "exited"

\* wg.Wait: the executing goroutines and the heartbeat have returned.
AllDone == heart = "exited" /\ \A g \in Goroutine : mode[g] = "exited"

Wait ==
    /\ stop = "cancelled"
    /\ AllDone
    /\ stop' = "closing"
    /\ UNCHANGED <<call, queue, poolVars, heart, early>>

\* closeGRPCConnection: GracefulStop waits for the calls in progress, then the
\* connection to the coordinator is closed.
Close ==
    /\ stop = "closing"
    /\ \A r \in Run : call[r] # "checked"
    /\ stop' = "stopped"
    /\ UNCHANGED <<call, queue, poolVars, heart, early>>

-----------------------------------------------------------------------------
GoroutineStep(g) == ReceiveRun(g) \/ FinishRun(g) \/ ContextDone(g) \/ Exit(g)
HeartStep == HeartbeatReturns \/ HeartbeatDone
StopStep == Cancel \/ Wait \/ Close

\* A stopped process takes no step.
Terminated == stop = "stopped" /\ UNCHANGED vars

Next ==
    \/ \E r \in Run : CheckDraining(r) \/ SubmitRun(r)
    \/ \E g \in Goroutine : GoroutineStep(g)
    \/ SendHeartbeat
    \/ HeartStep
    \/ SetDraining
    \/ StopStep
    \/ Terminated

Spec == Init /\ [][Next]_vars

\* Goroutines, calls in progress and Stop are scheduled, executions end (by
\* their budget at the latest) and a heartbeat returns.  A heartbeat loop that
\* keeps finding its ticker ready still sees the context in the end.
Fairness ==
    /\ \A r \in Run : WF_vars(SubmitRun(r))
    /\ \A g \in Goroutine : WF_vars(GoroutineStep(g))
    /\ WF_vars(HeartStep)
    /\ SF_vars(HeartbeatDone)
    /\ WF_vars(StopStep)

FairSpec == Spec /\ Fairness

-----------------------------------------------------------------------------
(* Properties *)

Executing == {job[g] : g \in Goroutine} \ {None}
Queued == {queue[i] : i \in DOMAIN queue}

\* Every variable has its type, and the queue stays within its capacity.
TypeOK ==
    /\ stop \in {"serving", "draining", "cancelled", "closing", "stopped"}
    /\ call \in [Run -> {"none", "checked", "accepted", "declined"}]
    /\ queue \in Seq(Run) /\ Len(queue) <= QueueCap
    /\ mode \in [Goroutine -> {"loop", "drain", "exited"}]
    /\ job \in [Goroutine -> Run \cup {None}]
    /\ heart \in {"waiting", "sending", "exited"}
    /\ executed \subseteq Run
    /\ early \subseteq Run

\* A run the worker accepted is in exactly one place: in the queue, with one
\* goroutine, or done.  A run it declined is in none of them.
AcceptedIsHeldOnce ==
    /\ {r \in Run : call[r] = "accepted"} = Queued \cup Executing \cup executed
    /\ Queued \cap Executing = {}
    /\ (Queued \cup Executing) \cap executed = {}
    /\ \A g, h \in Goroutine : job[g] = job[h] /\ job[g] # None => g = h

\* The connection to the coordinator outlives every execution, so that the
\* outcome of a run finished during a shutdown can still be reported.
ConnectionOutlivesRuns ==
    stop \in {"closing", "stopped"} => Executing = {}

\* Whatever was accepted before the shutdown began is executed.
AcceptedEarlyIsRun ==
    \A r \in Run : r \in early ~> r \in executed

\* A shutdown that has begun comes to its end.
StopCompletes ==
    stop = "draining" ~> stop = "stopped"

=============================================================================
