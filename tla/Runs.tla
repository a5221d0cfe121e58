-------------------------------- MODULE Runs --------------------------------
(***************************************************************************)
(* The life of a run: the coordinator's tick (dispatch inside one          *)
(* transaction, then the reaper), the workers' bounded queues, the         *)
(* executor goroutines, the lease and the status reports.  Postgres is the *)
(* system of record: status, lease, steps and failures are its committed   *)
(* columns, and claimed[t] is the set of rows that the dispatch            *)
(* transaction of tick t has locked.                                       *)
(*                                                                         *)
(* Time is abstract: a live lease may expire at any moment, because the    *)
(* renewals that would keep it live may be late, lost or not yet started.  *)
(* Crashes, lost messages and failed transactions are faults; MaxFaults    *)
(* bounds how many of them a behaviour contains.                           *)
(***************************************************************************)
EXTENDS Naturals, Sequences, FiniteSets

CONSTANTS
    Run,        \* ids of rows of the runs table
    Agent,      \* ids of rows of the agents table
    AgentOf,    \* runs.agent_id
    Worker,     \* workers in the coordinator's pool
    PoolSize,   \* goroutines that execute runs, per worker
    QueueCap,   \* capacity of a worker's runQueue
    Tick,       \* ticks of the coordinator that may overlap
    BatchSize,  \* how many pending runs one dispatch locks
    MaxIndex,   \* bound: steps of one execution
    MaxFaults,  \* bound: faults in a behaviour
    None        \* no run

ASSUME RunsAssumption ==
    /\ AgentOf \in [Run -> Agent]
    /\ PoolSize \in Nat \ {0}
    /\ QueueCap \in Nat
    /\ BatchSize \in Nat \ {0}
    /\ MaxIndex \in Nat \ {0}
    /\ MaxFaults \in Nat
    /\ None \notin Run

\* A goroutine of a worker's pool: the worker and its number.
Executor == Worker \X (1 .. PoolSize)

\* The statuses a run ends in, as far as a worker or the reaper writes them.
Ended == {"succeeded", "failed", "budget_exceeded"}
Status == {"absent", "pending", "running"} \cup Ended

VARIABLES
    \* committed rows
    status,     \* runs.status; "absent" before the row is inserted
    lease,      \* runs.lease_expires_at: "none" is NULL
    steps,      \* run_steps: the step_index values stored for a run
    failures,   \* agents.consecutive_failures
    \* the ticks of the coordinator
    phase,      \* where a tick is
    claimed,    \* rows its open transaction has locked
    todo,       \* runs of its batch still to be offered
    offered,    \* the run being offered, or None
    attempt,    \* workers asked for that run so far
    taken,      \* runs its open transaction has marked running
    doomed,     \* ticks whose transaction has failed
    \* the workers
    queue,      \* runQueue
    pc,         \* where an executor goroutine is
    job,        \* the run it executes, or None
    index,      \* stepIndex of its Execute
    outcome,    \* the end status it is to report
    faults,     \* faults so far
    \* history, for the properties only
    deliveries, \* times a run was put into a queue
    excuses,    \* deliveries that no committed dispatch knows of
    acted,      \* executions in progress that have run a tool
    actors,     \* executions of a run that have run a tool
    acts,       \* tool calls run for a run
    reaped      \* runs the reaper has failed

rowVars == <<status, lease, steps, failures>>
tickVars == <<phase, claimed, todo, offered, attempt, taken, doomed>>
execVars == <<pc, job, index, outcome>>
deliveryVars == <<deliveries, excuses>>
actVars == <<acted, actors, acts>>
vars == <<rowVars, tickVars, queue, execVars, faults, deliveryVars, actVars, reaped>>

Init ==
    /\ status = [r \in Run |-> "absent"]
    /\ lease = [r \in Run |-> "none"]
    /\ steps = [r \in Run |-> {}]
    /\ failures = [a \in Agent |-> 0]
    /\ phase = [t \in Tick |-> "idle"]
    /\ claimed = [t \in Tick |-> {}]
    /\ todo = [t \in Tick |-> {}]
    /\ offered = [t \in Tick |-> None]
    /\ attempt = [t \in Tick |-> 0]
    /\ taken = [t \in Tick |-> {}]
    /\ doomed = {}
    /\ queue = [w \in Worker |-> <<>>]
    /\ pc = [e \in Executor |-> "free"]
    /\ job = [e \in Executor |-> None]
    /\ index = [e \in Executor |-> 0]
    /\ outcome = [e \in Executor |-> "failed"]
    /\ faults = 0
    /\ deliveries = [r \in Run |-> 0]
    /\ excuses = [r \in Run |-> 0]
    /\ acted = {}
    /\ actors = [r \in Run |-> 0]
    /\ acts = [r \in Run |-> 0]
    /\ reaped = {}

\* A dispatch transaction holds the row lock of every run it selected, so a
\* statement that writes the row, or a run_steps row that refers to it, waits.
Locked(r) == \E t \in Tick : r \in claimed[t]

Fault == faults < MaxFaults /\ faults' = faults + 1

-----------------------------------------------------------------------------
(* Runs are created pending and due, by the materializer or by "run now".  *)

CreateRun(r) ==
    /\ status[r] = "absent"
    /\ status' = [status EXCEPT ![r] = "pending"]
    /\ UNCHANGED <<lease, steps, failures, tickVars, queue, execVars, faults,
                   deliveryVars, actVars, reaped>>

-----------------------------------------------------------------------------
(* dispatchPendingRuns *)

\* Mutant: the SELECT does not skip what another tick has locked.
Selectable_NoSkipLocked == {r \in Run : status[r] = "pending"}

\* Mutant: it asks for a lease that has expired, which NULL never is.
Selectable_LeaseExpired ==
    {r \in Run : status[r] = "pending" /\ lease[r] = "expired" /\ ~Locked(r)}

\* Begin, and SELECT ... FOR UPDATE SKIP LOCKED LIMIT: rows another tick has
\* locked are passed over.  The order of scheduled_for is left open.
Selectable == {r \in Run : status[r] = "pending" /\ ~Locked(r)}

BeginDispatch(t) ==
    /\ phase[t] = "idle"
    /\ \E batch \in SUBSET Selectable :
         /\ \/ Cardinality(batch) = BatchSize
            \/ batch = Selectable /\ Cardinality(batch) <= BatchSize
         /\ claimed' = [claimed EXCEPT ![t] = batch]
         /\ todo' = [todo EXCEPT ![t] = batch]
    /\ phase' = [phase EXCEPT ![t] = "dispatch"]
    /\ UNCHANGED <<rowVars, offered, attempt, taken, doomed, queue, execVars, faults,
                   deliveryVars, actVars, reaped>>

\* offerRunToWorker asks as many workers as there are; r is the run being
\* offered, or any that is left of the batch.  Which worker is next is left
\* open, because every tick advances the same roundRobinIndex (see WorkerPool).
Offering(t, r, w) ==
    /\ phase[t] = "dispatch"
    /\ r \in todo[t]
    /\ offered[t] \in {None, r}
    /\ attempt[t] < Cardinality(Worker)

\* SubmitRun: the run goes into the queue if there is room.
SubmitRun(w, r) ==
    /\ Len(queue[w]) < QueueCap
    /\ queue' = [queue EXCEPT ![w] = Append(@, r)]
    /\ deliveries' = [deliveries EXCEPT ![r] = @ + 1]

\* Mutant: an accepted run is not marked.
Mark_Forgotten(t, r) == UNCHANGED <<taken, excuses>>

\* An accepted run is marked running inside the transaction.  A tick whose
\* transaction has failed goes on offering; the mark is void.
Mark(t, r) ==
    IF t \in doomed
      THEN excuses' = [excuses EXCEPT ![r] = @ + 1] /\ UNCHANGED taken
      ELSE taken' = [taken EXCEPT ![t] = @ \cup {r}] /\ UNCHANGED excuses

OfferAccepted(t, r, w) ==
    /\ Offering(t, r, w)
    /\ SubmitRun(w, r)
    /\ todo' = [todo EXCEPT ![t] = @ \ {r}]
    /\ offered' = [offered EXCEPT ![t] = None]
    /\ attempt' = [attempt EXCEPT ![t] = 0]
    /\ Mark(t, r)
    /\ UNCHANGED <<rowVars, phase, claimed, doomed, execVars, faults, actVars, reaped>>

\* Its queue is full: it declines, and the next worker is tried.
OfferDeclined(t, r, w) ==
    /\ Offering(t, r, w)
    /\ Len(queue[w]) >= QueueCap
    /\ offered' = [offered EXCEPT ![t] = r]
    /\ attempt' = [attempt EXCEPT ![t] = @ + 1]
    /\ UNCHANGED <<rowVars, phase, claimed, todo, taken, doomed, queue, execVars, faults,
                   deliveryVars, actVars, reaped>>

\* SubmitRun returns an error: the worker was not reached, or it accepted and
\* the reply was lost.  Either way the next worker is tried.
OfferError(t, r, w) ==
    /\ Offering(t, r, w)
    /\ Fault
    /\ offered' = [offered EXCEPT ![t] = r]
    /\ attempt' = [attempt EXCEPT ![t] = @ + 1]
    /\ \/ UNCHANGED <<queue, deliveryVars>>
       \/ /\ SubmitRun(w, r)
          /\ excuses' = [excuses EXCEPT ![r] = @ + 1]
    /\ UNCHANGED <<rowVars, phase, claimed, todo, taken, doomed, execVars, actVars, reaped>>

\* No worker took the run, or there is none: the rest of the batch waits for a
\* later scan.
StopOffering(t) ==
    /\ phase[t] = "dispatch"
    /\ todo[t] # {}
    /\ attempt[t] = Cardinality(Worker)
    /\ todo' = [todo EXCEPT ![t] = {}]
    /\ offered' = [offered EXCEPT ![t] = None]
    /\ attempt' = [attempt EXCEPT ![t] = 0]
    /\ UNCHANGED <<rowVars, phase, claimed, taken, doomed, queue, execVars, faults,
                   deliveryVars, actVars, reaped>>

\* The deliveries of the runs rs turn out to be unknown to the database.
Excuse(rs) == excuses' = [r \in Run |-> IF r \in rs THEN excuses[r] + 1 ELSE excuses[r]]

\* The transaction fails: a statement errors, the 30 s context ends, the
\* connection drops.  Postgres releases its locks at once and its marks are
\* void, but the loop goes on with the runs it has already read.
DispatchTxFails(t) ==
    /\ phase[t] = "dispatch"
    /\ t \notin doomed
    /\ Fault
    /\ Excuse(taken[t])
    /\ claimed' = [claimed EXCEPT ![t] = {}]
    /\ taken' = [taken EXCEPT ![t] = {}]
    /\ doomed' = doomed \cup {t}
    /\ UNCHANGED <<rowVars, phase, todo, offered, attempt, queue, execVars, deliveries,
                   actVars, reaped>>

\* Mutant: the mark does not set lease_expires_at.
Commit_NoLease(rs) ==
    /\ status' = [r \in Run |-> IF r \in rs THEN "running" ELSE status[r]]
    /\ UNCHANGED lease

\* Commit: the marked runs become running with a fresh lease.
Commit(rs) ==
    /\ status' = [r \in Run |-> IF r \in rs THEN "running" ELSE status[r]]
    /\ lease' = [r \in Run |-> IF r \in rs THEN "live" ELSE lease[r]]

\* The transaction is over, and its locks go.
Unlock(t) ==
    /\ claimed' = [claimed EXCEPT ![t] = {}]
    /\ taken' = [taken EXCEPT ![t] = {}]

EndDispatch(t) ==
    /\ phase[t] = "dispatch"
    /\ todo[t] = {}
    /\ Commit(taken[t])
    /\ Unlock(t)
    /\ doomed' = doomed \ {t}
    /\ phase' = [phase EXCEPT ![t] = "reap"]
    /\ UNCHANGED <<steps, failures, todo, offered, attempt, queue, execVars, faults,
                   deliveryVars, actVars, reaped>>

\* A statement of the tick fails before anything is selected, or the reaper's
\* does: it is logged, and the tick goes on with what comes next.
TickFails(t) ==
    /\ phase[t] \in {"idle", "reap"}
    /\ Fault
    /\ phase' = [phase EXCEPT ![t] = IF @ = "idle" THEN "reap" ELSE "idle"]
    /\ UNCHANGED <<rowVars, claimed, todo, offered, attempt, taken, doomed, queue, execVars,
                   deliveryVars, actVars, reaped>>

-----------------------------------------------------------------------------
(* Reaper.RunOnce: one statement fails every running run whose lease has   *)
(* expired, and counts one failure for each agent that lost a run.  The    *)
(* lease column is left as it is.                                          *)

\* Mutant: the reaper looks for pending runs.
Expired_Pending(r) == status[r] = "pending" /\ lease[r] = "expired"

Expired(r) == status[r] = "running" /\ lease[r] = "expired"

\* Mutant: a run whose worker went away is tried again.
ReapedStatus_Retry == "pending"

ReapedStatus == "failed"

Reap(t) ==
    /\ phase[t] = "reap"
    /\ status' = [r \in Run |-> IF Expired(r) THEN ReapedStatus ELSE status[r]]
    /\ failures' = [a \in Agent |-> IF \E r \in Run : Expired(r) /\ AgentOf[r] = a
                                    THEN failures[a] + 1 ELSE failures[a]]
    /\ reaped' = reaped \cup {r \in Run : Expired(r)}
    /\ phase' = [phase EXCEPT ![t] = "idle"]
    /\ UNCHANGED <<lease, steps, claimed, todo, offered, attempt, taken, doomed, queue,
                   execVars, faults, deliveryVars, actVars>>

\* Time passes beyond lease_expires_at.
LeaseExpires(r) ==
    /\ status[r] = "running"
    /\ lease[r] = "live"
    /\ lease' = [lease EXCEPT ![r] = "expired"]
    /\ UNCHANGED <<status, steps, failures, tickVars, queue, execVars, faults,
                   deliveryVars, actVars, reaped>>

-----------------------------------------------------------------------------
(* The worker: a goroutine takes a run from the queue and executes it.     *)

\* Goroutines es are back at their loop, with nothing to do.
Release(es) ==
    /\ pc' = [e \in Executor |-> IF e \in es THEN "free" ELSE pc[e]]
    /\ job' = [e \in Executor |-> IF e \in es THEN None ELSE job[e]]
    /\ index' = [e \in Executor |-> IF e \in es THEN 0 ELSE index[e]]
    /\ outcome' = [e \in Executor |-> IF e \in es THEN "failed" ELSE outcome[e]]
    /\ acted' = acted \ es

\* Mutants: the run stays in the queue; the run is not handed on.
Dequeue_Peek(e) ==
    /\ queue[e[1]] # <<>>
    /\ job' = [job EXCEPT ![e] = Head(queue[e[1]])]
    /\ UNCHANGED queue

Dequeue_Dropped(e) ==
    /\ queue[e[1]] # <<>>
    /\ queue' = [queue EXCEPT ![e[1]] = Tail(@)]
    /\ UNCHANGED job

Dequeue(e) ==
    /\ queue[e[1]] # <<>>
    /\ job' = [job EXCEPT ![e] = Head(queue[e[1]])]
    /\ queue' = [queue EXCEPT ![e[1]] = Tail(@)]

TakeRun(e) ==
    /\ pc[e] = "free"
    /\ Dequeue(e)
    /\ pc' = [pc EXCEPT ![e] = "announce"]
    /\ UNCHANGED <<rowVars, tickVars, index, outcome, faults, deliveryVars, actVars, reaped>>

\* UpdateRunStatus(RUNNING): the row is written whatever its status is.
ReportRunning(e) ==
    /\ pc[e] = "announce"
    /\ ~Locked(job[e])
    /\ status' = [status EXCEPT ![job[e]] = "running"]
    /\ pc' = [pc EXCEPT ![e] = "prepare"]
    /\ UNCHANGED <<lease, steps, failures, tickVars, queue, job, index, outcome, faults,
                   deliveryVars, actVars, reaped>>

\* A report that fails, or does not reach the coordinator within its 30 s, is
\* only logged: the worker goes on.  That of an outcome may fail between its
\* two statements.
RunningLost(e) ==
    /\ pc[e] = "announce"
    /\ Fault
    /\ pc' = [pc EXCEPT ![e] = "prepare"]
    /\ UNCHANGED <<rowVars, tickVars, queue, job, index, outcome, deliveryVars, actVars, reaped>>

OutcomeLost(e) ==
    /\ pc[e] \in {"report", "outcome"}
    /\ Fault
    /\ Release({e})
    /\ UNCHANGED <<rowVars, tickVars, queue, deliveryVars, actors, acts, reaped>>

\* Execute returns, and its result is still to be reported.
Return(e, result) ==
    /\ pc' = [pc EXCEPT ![e] = "report"]
    /\ outcome' = [outcome EXCEPT ![e] = result]

\* SetRenderedPrompt writes the runs row, so it waits for the lock.
SetRenderedPrompt(e) ==
    /\ ~Locked(job[e])
    /\ pc' = [pc EXCEPT ![e] = "model"]
    /\ UNCHANGED outcome

\* The agent is gone, or credentialFor finds no credential.
CannotStart(e) == Return(e, "failed")

\* Execute up to its loop.
Prepare(e) ==
    /\ pc[e] = "prepare"
    /\ SetRenderedPrompt(e) \/ CannotStart(e)
    /\ UNCHANGED <<rowVars, tickVars, queue, job, index, faults, deliveryVars, actVars, reaped>>

\* Mutants: there is no unique index; the index is advanced too early.
Record_NoUniqueIndex(e) ==
    /\ ~Locked(job[e])
    /\ steps' = [steps EXCEPT ![job[e]] = @ \cup {index[e]}]
    /\ index' = [index EXCEPT ![e] = @ + 1]

Record_AdvancedFirst(e) ==
    /\ ~Locked(job[e])
    /\ index[e] + 1 \notin steps[job[e]]
    /\ steps' = [steps EXCEPT ![job[e]] = @ \cup {index[e] + 1}]
    /\ index' = [index EXCEPT ![e] = @ + 1]

\* StepStore.Record: the unique index on (run_id, step_index) refuses a second
\* row, and the foreign key to runs waits for the row lock.
Record(e) ==
    /\ ~Locked(job[e])
    /\ index[e] \notin steps[job[e]]
    /\ steps' = [steps EXCEPT ![job[e]] = @ \cup {index[e]}]
    /\ index' = [index EXCEPT ![e] = @ + 1]

\* The insert is refused or does not reach the database, or the model call
\* before it failed: Execute returns the error.
StepFails(e) ==
    /\ Return(e, "failed")
    /\ UNCHANGED <<steps, index>>

\* Before an iteration, the step, time or token limit stops the loop.
StoppedByBudget(e) ==
    /\ pc[e] = "model"
    /\ Return(e, "budget_exceeded")
    /\ UNCHANGED <<rowVars, tickVars, queue, job, index, faults, deliveryVars, actVars, reaped>>

\* One model call, and its step is recorded.  The response is the answer, or
\* asks for tools.
ModelCall(e) ==
    /\ pc[e] = "model"
    /\ index[e] < MaxIndex
    /\ \/ StepFails(e)
       \/ Record(e) /\ Return(e, "succeeded")
       \/ Record(e) /\ pc' = [pc EXCEPT ![e] = "tool"] /\ UNCHANGED outcome
    /\ UNCHANGED <<status, lease, failures, tickVars, queue, job, faults, deliveryVars,
                   actVars, reaped>>

\* A tool takes effect in the world, before its step is recorded.
RunTool(e) ==
    /\ pc[e] = "tool"
    /\ pc' = [pc EXCEPT ![e] = "record"]
    /\ acted' = acted \cup {e}
    /\ actors' = [actors EXCEPT ![job[e]] = IF e \in acted THEN @ ELSE @ + 1]
    /\ acts' = [acts EXCEPT ![job[e]] = @ + 1]
    /\ UNCHANGED <<rowVars, tickVars, queue, job, index, outcome, faults, deliveryVars, reaped>>

\* Its step is recorded; the next call of the response follows, or the next
\* iteration.
RecordTool(e) ==
    /\ pc[e] = "record"
    /\ \/ StepFails(e)
       \/ /\ Record(e)
          /\ \/ pc' = [pc EXCEPT ![e] = "model"]
             \/ index[e] + 1 < MaxIndex /\ pc' = [pc EXCEPT ![e] = "tool"]
          /\ UNCHANGED outcome
    /\ UNCHANGED <<status, lease, failures, tickVars, queue, job, faults, deliveryVars,
                   actVars, reaped>>

\* UpdateRunStatus with an end status, first statement: written whatever the
\* status is, and the lease is cleared.
ReportOutcome(e) ==
    /\ pc[e] = "report"
    /\ ~Locked(job[e])
    /\ status' = [status EXCEPT ![job[e]] = outcome[e]]
    /\ lease' = [lease EXCEPT ![job[e]] = "none"]
    /\ pc' = [pc EXCEPT ![e] = "outcome"]
    /\ UNCHANGED <<steps, failures, tickVars, queue, job, index, outcome, faults,
                   deliveryVars, actVars, reaped>>

\* Its second statement, recordAgentOutcome: a success clears the agent's
\* failure count and anything else adds to it.
RecordAgentOutcome(e) ==
    /\ pc[e] = "outcome"
    /\ failures' = [failures EXCEPT ![AgentOf[job[e]]] =
                      IF outcome[e] = "succeeded" THEN 0 ELSE @ + 1]
    /\ Release({e})
    /\ UNCHANGED <<status, lease, steps, tickVars, queue, faults, deliveryVars, actors,
                   acts, reaped>>

\* renewLeasePeriodically: every 15 s from the start of Execute until executeRun
\* returns.
Renewing(e) == pc[e] \notin {"free", "announce"}

\* RenewLease, which touches no run that is not running.
RenewLease(e) ==
    /\ Renewing(e)
    /\ status[job[e]] = "running"
    /\ ~Locked(job[e])
    /\ lease' = [lease EXCEPT ![job[e]] = "live"]
    /\ UNCHANGED <<status, steps, failures, tickVars, queue, execVars, faults,
                   deliveryVars, actVars, reaped>>

-----------------------------------------------------------------------------
(* Crashes.  A worker that dies loses its queue and what it executes; it   *)
(* comes back empty.  A coordinator that dies loses its ticks, and with    *)
(* them their transactions, and the second statement of reports it serves. *)

WorkerCrash(w) ==
    /\ Fault
    /\ queue' = [queue EXCEPT ![w] = <<>>]
    /\ Release({e \in Executor : e[1] = w})
    /\ UNCHANGED <<rowVars, tickVars, deliveryVars, actors, acts, reaped>>

CoordinatorCrash ==
    /\ Fault
    /\ Excuse(UNION {taken[t] : t \in Tick})
    /\ phase' = [t \in Tick |-> "idle"]
    /\ claimed' = [t \in Tick |-> {}]
    /\ todo' = [t \in Tick |-> {}]
    /\ offered' = [t \in Tick |-> None]
    /\ attempt' = [t \in Tick |-> 0]
    /\ taken' = [t \in Tick |-> {}]
    /\ doomed' = {}
    /\ Release({e \in Executor : pc[e] = "outcome"})
    /\ UNCHANGED <<rowVars, queue, deliveries, actors, acts, reaped>>

-----------------------------------------------------------------------------
TickStep(t) ==
    \/ BeginDispatch(t)
    \/ \E r \in Run, w \in Worker : OfferAccepted(t, r, w) \/ OfferDeclined(t, r, w)
    \/ StopOffering(t)
    \/ EndDispatch(t)
    \/ Reap(t)

ExecStep(e) ==
    \/ TakeRun(e)
    \/ ReportRunning(e)
    \/ Prepare(e)
    \/ StoppedByBudget(e)
    \/ ModelCall(e)
    \/ RunTool(e)
    \/ RecordTool(e)
    \/ ReportOutcome(e)
    \/ RecordAgentOutcome(e)

FaultStep ==
    \/ \E t \in Tick, r \in Run, w \in Worker : OfferError(t, r, w)
    \/ \E t \in Tick : DispatchTxFails(t) \/ TickFails(t)
    \/ \E e \in Executor : RunningLost(e) \/ OutcomeLost(e)
    \/ \E w \in Worker : WorkerCrash(w)
    \/ CoordinatorCrash

Next ==
    \/ \E r \in Run : CreateRun(r) \/ LeaseExpires(r)
    \/ \E t \in Tick : TickStep(t)
    \/ \E e \in Executor : ExecStep(e) \/ RenewLease(e)
    \/ FaultStep

Spec == Init /\ [][Next]_vars

\* The ticker keeps starting ticks and a started tick goes on; goroutines of
\* the workers are scheduled, and a statement that waits for a row lock gets
\* its turn although ticks keep taking the lock (Postgres queues the waiters);
\* time passes.  Renewals and faults are not fair.
Fairness ==
    /\ \A t \in Tick : WF_vars(TickStep(t))
    /\ \A e \in Executor : SF_vars(ExecStep(e))
    /\ \A r \in Run : WF_vars(LeaseExpires(r))

FairSpec == Spec /\ Fairness

-----------------------------------------------------------------------------
(* Properties *)

\* Every variable has its type, and only a free goroutine has no run.
TypeOK ==
    /\ status \in [Run -> Status]
    /\ lease \in [Run -> {"none", "live", "expired"}]
    /\ steps \in [Run -> SUBSET Nat]
    /\ failures \in [Agent -> Nat]
    /\ phase \in [Tick -> {"idle", "dispatch", "reap"}]
    /\ claimed \in [Tick -> SUBSET Run]
    /\ todo \in [Tick -> SUBSET Run]
    /\ offered \in [Tick -> Run \cup {None}]
    /\ attempt \in [Tick -> Nat]
    /\ taken \in [Tick -> SUBSET Run]
    /\ doomed \subseteq Tick
    /\ queue \in [Worker -> Seq(Run)]
    /\ pc \in [Executor -> {"free", "announce", "prepare", "model", "tool", "record",
                            "report", "outcome"}]
    /\ job \in [Executor -> Run \cup {None}]
    /\ \A e \in Executor : pc[e] # "free" => job[e] \in Run
    /\ index \in [Executor -> Nat]
    /\ outcome \in [Executor -> Ended]
    /\ faults \in Nat
    /\ deliveries \in [Run -> Nat]
    /\ excuses \in [Run -> Nat]
    /\ acted \subseteq Executor
    /\ actors \in [Run -> Nat]
    /\ acts \in [Run -> Nat]
    /\ reaped \subseteq Run

\* However often a run is delivered (lost replies, failed transactions), at
\* most one execution of it ever runs a tool: the first insert into run_steps
\* is won by one execution, and Record comes before the first tool.
OneActor == \A r \in Run : actors[r] <= 1

\* The same promise as a refinement: the period in which tools run for a run
\* starts with the first recorded step and ends when that execution returns or
\* its worker dies; it never starts a second time.
Acting(r) == \E e \in Executor : job[e] = r /\ index[e] > 0

ActPhase == [r \in Run |-> IF 0 \notin steps[r] THEN "unclaimed"
                           ELSE IF Acting(r) THEN "acting" ELSE "over"]

Acts == INSTANCE AgentActs WITH phase <- ActPhase

RefinesAgentActs == Acts!Spec

\* Executions of the same run never mix their traces: the stored step indices
\* are a prefix of the naturals, and an execution past its first step has
\* written every one of them itself.
TraceIsOneExecution ==
    /\ \A r \in Run : \A i \in steps[r] : \A j \in 0 .. i : j \in steps[r]
    /\ \A e \in Executor : index[e] > 0 => steps[job[e]] = 0 .. (index[e] - 1)

\* A dispatch owns what it selected: no other tick holds the same run, and the
\* run is pending until the transaction ends, because SKIP LOCKED passes over
\* it and every report, renewal and step of it waits for the row lock.
ClaimIsExclusive ==
    \A t \in Tick : \A r \in claimed[t] :
        /\ status[r] = "pending"
        /\ \A u \in Tick \ {t} : r \notin claimed[u]

\* A run is put into a worker's queue once, plus once for each delivery whose
\* reply was lost or whose dispatch transaction did not commit.  Nothing else
\* (a crash of a worker, a reaped lease, a failed run) makes it run again.
DeliveredOncePerExcuse ==
    \A r \in Run : deliveries[r] <= excuses[r] + 1

\* The reaper finds every running run: lease_expires_at is set, unless the run
\* was delivered by a dispatch that lost a reply or did not commit.
RunningHasLease ==
    \A r \in Run : status[r] = "running" /\ lease[r] = "none" => excuses[r] > 0

\* A run that has left pending never becomes pending again: there is no
\* automatic retry.
NeverPendingAgain ==
    [][\A r \in Run : status'[r] = "pending" => status[r] \in {"absent", "pending"}]_vars

\* The status of an ended run changes only if the run was reaped, or was
\* delivered more than once.
EndedChangesOnlyIfContested ==
    [][\A r \in Run : status[r] \in Ended /\ status'[r] # status[r] =>
           r \in reaped \/ deliveries[r] > 1]_vars

\* A running run that has a lease ends, even if every worker that had it died.
LeasedRunEnds ==
    \A r \in Run : status[r] = "running" /\ lease[r] # "none" ~> status[r] \in Ended

\* A pending run does not wait for ever: some tick gets it accepted by a
\* worker and commits, or a report of an execution moves it on.
PendingRunIsDispatched ==
    \A r \in Run : status[r] = "pending" ~> status[r] # "pending"

\* What model/run.go says of the statuses ("A run ends in exactly one of
\* these"): the status of an ended run is final.
EndsOnce ==
    [][\A r \in Run : status[r] \in Ended => status'[r] = status[r]]_vars

\* What the reaper is for ("sits in running forever" is ruled out): every
\* running run ends.
RunningRunEnds ==
    \A r \in Run : status[r] = "running" ~> status[r] \in Ended

=============================================================================
