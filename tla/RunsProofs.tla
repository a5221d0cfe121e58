----------------------------- MODULE RunsProofs -----------------------------
(***************************************************************************)
(* Theorems about Runs, for every set of runs, workers and ticks and every *)
(* bound, from one inductive invariant for each question:                  *)
(*                                                                         *)
(*  - ActInv: who acts on a run, and what an execution in progress knows   *)
(*    of the stored trace;                                                 *)
(*  - ClaimInv: what a dispatch in progress knows of the rows it locked;   *)
(*  - CopyInv: what a delivered copy of a run, in a queue or with a        *)
(*    goroutine, says of the run's row.                                    *)
(*                                                                         *)
(* The last part shows that Runs implements AgentActs.                     *)
(***************************************************************************)
EXTENDS Runs, TLAPS

-----------------------------------------------------------------------------
(* Type correctness *)

\* The steps of the system, one disjunct for each action.
LEMMA NextCases ==
    ASSUME Next
    PROVE  \/ \E r \in Run : CreateRun(r)
           \/ \E r \in Run : LeaseExpires(r)
           \/ \E t \in Tick : BeginDispatch(t)
           \/ \E t \in Tick, r \in Run, w \in Worker : OfferAccepted(t, r, w)
           \/ \E t \in Tick, r \in Run, w \in Worker : OfferDeclined(t, r, w)
           \/ \E t \in Tick, r \in Run, w \in Worker : OfferError(t, r, w)
           \/ \E t \in Tick : StopOffering(t)
           \/ \E t \in Tick : DispatchTxFails(t)
           \/ \E t \in Tick : EndDispatch(t)
           \/ \E t \in Tick : Reap(t)
           \/ \E t \in Tick : TickFails(t)
           \/ \E e \in Executor : TakeRun(e)
           \/ \E e \in Executor : ReportRunning(e)
           \/ \E e \in Executor : RunningLost(e)
           \/ \E e \in Executor : OutcomeLost(e)
           \/ \E e \in Executor : Prepare(e)
           \/ \E e \in Executor : StoppedByBudget(e)
           \/ \E e \in Executor : ModelCall(e)
           \/ \E e \in Executor : RunTool(e)
           \/ \E e \in Executor : RecordTool(e)
           \/ \E e \in Executor : ReportOutcome(e)
           \/ \E e \in Executor : RecordAgentOutcome(e)
           \/ \E e \in Executor : RenewLease(e)
           \/ \E w \in Worker : WorkerCrash(w)
           \/ CoordinatorCrash
BY Zenon DEF Next, TickStep, ExecStep, FaultStep

\* The first state is well typed.
LEMMA InitType ==
    ASSUME Init
    PROVE  TypeOK
BY RunsAssumption DEF Init, TypeOK, Ended, Status

\* What SubmitRun and Record leave in the variables they write.
LEMMA SubmitType ==
    ASSUME TypeOK, NEW w \in Worker, NEW r \in Run, SubmitRun(w, r)
    PROVE  queue' \in [Worker -> Seq(Run)] /\ deliveries' \in [Run -> Nat]
<1>1. Append(queue[w], r) \in Seq(Run)
  BY DEF TypeOK
<1> QED
  BY <1>1 DEF SubmitRun, TypeOK

\* What Record leaves in steps and index.
LEMMA RecordType ==
    ASSUME TypeOK, NEW e \in Executor, pc[e] # "free", Record(e)
    PROVE  steps' \in [Run -> SUBSET Nat] /\ index' \in [Executor -> Nat]
<1>1. job[e] \in Run /\ index[e] \in Nat /\ steps[job[e]] \in SUBSET Nat
  BY Zenon DEF TypeOK
<1>2. steps[job[e]] \cup {index[e]} \in SUBSET Nat
  BY <1>1, Zenon
<1> QED
  BY <1>1, <1>2 DEF Record, TypeOK

\* Every step keeps the types.
LEMMA NextType ==
    ASSUME TypeOK, [Next]_vars
    PROVE  TypeOK'
<1> USE RunsAssumption DEF TypeOK, Status, Ended, rowVars, tickVars, execVars,
        deliveryVars, actVars, Mark, Commit, Unlock, Dequeue, ReapedStatus
<1>1. ASSUME NEW r \in Run, CreateRun(r) PROVE TypeOK'
  BY <1>1, Zenon DEF CreateRun
<1>2. ASSUME NEW r \in Run, LeaseExpires(r) PROVE TypeOK'
  BY Zenon, <1>2 DEF LeaseExpires
<1>3. ASSUME NEW t \in Tick, BeginDispatch(t) PROVE TypeOK'
  BY <1>3 DEF BeginDispatch, Selectable
<1>4. ASSUME NEW t \in Tick, NEW r \in Run, NEW w \in Worker, OfferAccepted(t, r, w)
      PROVE  TypeOK'
  <2>1. queue' \in [Worker -> Seq(Run)] /\ deliveries' \in [Run -> Nat]
    BY Zenon, <1>4, SubmitType DEF OfferAccepted
  <2>2. /\ todo' \in [Tick -> SUBSET Run]
        /\ offered' \in [Tick -> Run \cup {None}]
        /\ attempt' \in [Tick -> Nat]
    BY <1>4, Zenon DEF OfferAccepted
  <2>3. taken' \in [Tick -> SUBSET Run] /\ excuses' \in [Run -> Nat]
    <3>1. CASE t \in doomed
      <4>1. /\ excuses' = [excuses EXCEPT ![r] = @ + 1]
            /\ taken' = taken
        BY <1>4, <3>1, Zenon DEF OfferAccepted
      <4> QED
        BY <4>1
    <3>2. CASE t \notin doomed
      <4>1. /\ taken' = [taken EXCEPT ![t] = @ \cup {r}]
            /\ excuses' = excuses
        BY <1>4, <3>2, Zenon DEF OfferAccepted
      <4> QED
        BY <4>1
    <3> QED
      BY <3>1, <3>2, Zenon
  <2>4. UNCHANGED <<status, lease, steps, failures, phase, claimed, doomed, pc, job,
                    index, outcome, faults, acted, actors, acts, reaped>>
    BY <1>4, Zenon DEF OfferAccepted
  <2> QED
    BY ZenonT(60), <2>1, <2>2, <2>3, <2>4
<1>5. ASSUME NEW t \in Tick, NEW r \in Run, NEW w \in Worker, OfferDeclined(t, r, w)
      PROVE  TypeOK'
  BY SMTT(60), <1>5 DEF OfferDeclined, Offering
<1>6. ASSUME NEW t \in Tick, NEW r \in Run, NEW w \in Worker, OfferError(t, r, w)
      PROVE  TypeOK'
  <2>1. queue' \in [Worker -> Seq(Run)] /\ deliveries' \in [Run -> Nat]
    BY ZenonT(60), <1>6, SubmitType DEF OfferError
  <2>2. /\ offered' \in [Tick -> Run \cup {None}]
        /\ attempt' \in [Tick -> Nat]
        /\ faults' \in Nat
    BY <1>6 DEF OfferError, Fault
  <2>3. excuses' \in [Run -> Nat]
    <3>1. CASE excuses' = excuses
      BY <3>1, Zenon
    <3>2. CASE excuses' = [excuses EXCEPT ![r] = @ + 1]
      BY <3>2
    <3> QED
      BY <1>6, <3>1, <3>2, Zenon DEF OfferError
  <2>4. UNCHANGED <<status, lease, steps, failures, phase, claimed, todo, taken, doomed,
                    pc, job, index, outcome, acted, actors, acts, reaped>>
    BY <1>6, Zenon DEF OfferError
  <2> QED
    BY ZenonT(60), <2>1, <2>2, <2>3, <2>4
<1>7. ASSUME NEW t \in Tick, StopOffering(t) PROVE TypeOK'
  BY <1>7, Zenon DEF StopOffering
<1>8. ASSUME NEW t \in Tick, DispatchTxFails(t) PROVE TypeOK'
  BY <1>8 DEF DispatchTxFails, Fault, Excuse
<1>9. ASSUME NEW t \in Tick, EndDispatch(t) PROVE TypeOK'
  BY <1>9, Zenon DEF EndDispatch
<1>10. ASSUME NEW t \in Tick, Reap(t) PROVE TypeOK'
  BY <1>10 DEF Reap, Expired
<1>11. ASSUME NEW e \in Executor, TakeRun(e) PROVE TypeOK'
  <2>1. e[1] \in Worker
    BY Zenon DEF Executor
  <2>2. Head(queue[e[1]]) \in Run /\ Tail(queue[e[1]]) \in Seq(Run)
    BY <1>11, <2>1 DEF TakeRun
  <2> QED
    BY ZenonT(60), <1>11, <2>1, <2>2 DEF TakeRun
<1>12. ASSUME NEW e \in Executor, ReportRunning(e) PROVE TypeOK'
  BY <1>12, Zenon DEF ReportRunning
<1>13. ASSUME NEW e \in Executor, RunningLost(e) PROVE TypeOK'
  BY <1>13 DEF RunningLost, Fault
<1>14. ASSUME NEW e \in Executor, OutcomeLost(e) PROVE TypeOK'
  BY <1>14 DEF OutcomeLost, Release, Fault
<1>15. ASSUME NEW e \in Executor, Prepare(e) PROVE TypeOK'
  BY ZenonT(60), <1>15 DEF Prepare, SetRenderedPrompt, CannotStart, Return
<1>16. ASSUME NEW e \in Executor, StoppedByBudget(e) PROVE TypeOK'
  BY <1>16, Zenon DEF StoppedByBudget, Return
<1>17. ASSUME NEW e \in Executor, ModelCall(e) PROVE TypeOK'
  <2>1. steps' \in [Run -> SUBSET Nat] /\ index' \in [Executor -> Nat]
    BY <1>17, RecordType, Zenon DEF ModelCall, StepFails
  <2> QED
    BY ZenonT(60), <1>17, <2>1 DEF ModelCall, StepFails, Return
<1>18. ASSUME NEW e \in Executor, RunTool(e) PROVE TypeOK'
  BY SMTT(60), <1>18 DEF RunTool
<1>19. ASSUME NEW e \in Executor, RecordTool(e) PROVE TypeOK'
  <2>1. steps' \in [Run -> SUBSET Nat] /\ index' \in [Executor -> Nat]
    BY ZenonT(60), <1>19, RecordType DEF RecordTool, StepFails
  <2>2. /\ pc' \in [Executor -> {"free", "announce", "prepare", "model", "tool", "record",
                                 "report", "outcome"}]
        /\ outcome' \in [Executor -> Ended]
        /\ \A f \in Executor : pc'[f] # "free" => job'[f] \in Run
    BY ZenonT(60), <1>19 DEF RecordTool, StepFails, Return
  <2>3. UNCHANGED <<status, lease, failures, phase, claimed, todo, offered, attempt, taken,
                    doomed, queue, job, faults, deliveries, excuses, acted, actors, acts,
                    reaped>>
    BY <1>19, Zenon DEF RecordTool
  <2> QED
    BY <2>1, <2>2, <2>3, Zenon
<1>20. ASSUME NEW e \in Executor, ReportOutcome(e) PROVE TypeOK'
  BY Zenon, <1>20 DEF ReportOutcome
<1>21. ASSUME NEW e \in Executor, RecordAgentOutcome(e) PROVE TypeOK'
  <2>1. AgentOf[job[e]] \in Agent
    BY <1>21, Zenon DEF RecordAgentOutcome
  <2>2. failures' \in [Agent -> Nat]
    <3>1. failures' = [failures EXCEPT ![AgentOf[job[e]]] =
                         IF outcome[e] = "succeeded" THEN 0 ELSE @ + 1]
      BY <1>21, Zenon DEF RecordAgentOutcome
    <3> QED
      BY <2>1, <3>1
  <2>3. /\ pc' \in [Executor -> {"free", "announce", "prepare", "model", "tool", "record",
                                 "report", "outcome"}]
        /\ job' \in [Executor -> Run \cup {None}]
        /\ \A f \in Executor : pc'[f] # "free" => job'[f] \in Run
        /\ index' \in [Executor -> Nat]
        /\ outcome' \in [Executor -> Ended]
        /\ acted' \subseteq Executor
    BY <1>21, Zenon DEF RecordAgentOutcome, Release
  <2>4. UNCHANGED <<status, lease, steps, phase, claimed, todo, offered, attempt, taken,
                    doomed, queue, faults, deliveries, excuses, actors, acts, reaped>>
    BY <1>21, Zenon DEF RecordAgentOutcome
  <2> QED
    BY <2>2, <2>3, <2>4, Zenon
<1>22. ASSUME NEW e \in Executor, RenewLease(e) PROVE TypeOK'
  BY Zenon, <1>22 DEF RenewLease, Renewing
<1>23. ASSUME NEW w \in Worker, WorkerCrash(w) PROVE TypeOK'
  BY <1>23 DEF WorkerCrash, Fault, Release
<1>24. ASSUME CoordinatorCrash PROVE TypeOK'
  BY SMTT(60), <1>24 DEF CoordinatorCrash, Fault, Excuse, Release
<1>25. ASSUME NEW t \in Tick, TickFails(t) PROVE TypeOK'
  BY <1>25 DEF TickFails, Fault
<1>26. CASE UNCHANGED vars
  BY <1>26, Zenon DEF vars
<1> QED
  BY <1>1, <1>2, <1>3, <1>4, <1>5, <1>6, <1>7, <1>8, <1>9, <1>10, <1>11, <1>12, <1>13,
     <1>14, <1>15, <1>16, <1>17, <1>18, <1>19, <1>20, <1>21, <1>22, <1>23, <1>24, <1>25,
     <1>26, NextCases, ZenonT(60)

\* Every reachable state of the run lifecycle is well typed.
THEOREM RunsTypeCorrect == Spec => []TypeOK
<1>1. Init => TypeOK
  BY InitType, Zenon
<1>2. TypeOK /\ [Next]_vars => TypeOK'
  BY NextType, Zenon
<1> QED
  BY <1>1, <1>2, PTL DEF Spec

-----------------------------------------------------------------------------
(* One execution acts *)

\* The inductive form of OneActor and TraceIsOneExecution.  A free goroutine is
\* at its start, and tools are run only after a step; the execution past its
\* first step is alone in that, has written the whole trace, and the run's
\* tools have been run by it or by nobody.
ExecInv ==
    \A e \in Executor :
        /\ pc[e] = "free" => index[e] = 0
        /\ pc[e] \in {"tool", "record"} => index[e] > 0
        /\ e \in acted => index[e] > 0

TraceInv ==
    /\ \A r \in Run : \A i \in steps[r] : \A j \in Nat : j <= i => j \in steps[r]
    /\ \A e \in Executor : index[e] > 0 =>
         \A i \in Nat : i \in steps[job[e]] <=> i < index[e]

AloneInv ==
    \A e, f \in Executor : index[e] > 0 /\ index[f] > 0 /\ job[e] = job[f] => e = f

ActorInv ==
    /\ \A r \in Run : actors[r] <= 1
    /\ \A r \in Run : actors[r] > 0 => 0 \in steps[r]
    /\ \A e \in Executor : index[e] > 0 /\ e \notin acted => actors[job[e]] = 0

ActInv == ExecInv /\ TraceInv /\ AloneInv /\ ActorInv

\* Goroutines that return or die take nothing with them that matters.
LEMMA ReleaseAct ==
    ASSUME TypeOK, ActInv, NEW es \in SUBSET Executor, Release(es), UNCHANGED <<steps, actors>>
    PROVE  ActInv'
<1> USE DEF TypeOK, ActInv, Release
<1>1. ExecInv'
  BY Zenon DEF ExecInv
<1>2. TraceInv'
  BY DEF TraceInv, ExecInv
<1>3. AloneInv'
  BY DEF AloneInv
<1>4. ActorInv'
  BY DEF ActorInv
<1> QED
  BY <1>1, <1>2, <1>3, <1>4, Zenon

\* Recording a step: the first step of a run is won by one execution, because
\* nobody else can be past it, and the later ones extend the trace by one.
LEMMA RecordAct ==
    ASSUME TypeOK, ActInv, NEW e \in Executor, pc[e] # "free", Record(e),
           UNCHANGED <<job, acted, actors>>,
           NEW p \in {"model", "tool", "report"}, pc' = [pc EXCEPT ![e] = p]
    PROVE  ActInv'
<1> DEFINE r == job[e]
<1>1. /\ r \in Run /\ index[e] \in Nat /\ steps[r] \in SUBSET Nat
      /\ steps' = [steps EXCEPT ![r] = @ \cup {index[e]}]
      /\ index' = [index EXCEPT ![e] = @ + 1]
      /\ index[e] \notin steps[r]
  BY Zenon DEF Record, TypeOK
<1>2. \A f \in Executor : f # e /\ job[f] = r => index[f] = 0
  <2>1. CASE index[e] = 0
    <3>1. \A f \in Executor : index[f] > 0 => 0 \in steps[job[f]]
      BY Zenon DEF ActInv, TraceInv
    <3> QED
      BY <1>1, <2>1, <3>1 DEF TypeOK
  <2>2. CASE index[e] > 0
    BY <2>2 DEF ActInv, AloneInv, TypeOK
  <2> QED
    BY <1>1, <2>1, <2>2
<1>3. \A i \in Nat : i \in steps[r] <=> i < index[e]
  <2>1. CASE index[e] = 0
    <3>1. \A i \in steps[r] : 0 \in steps[r]
      BY <1>1 DEF ActInv, TraceInv, TypeOK
    <3> QED
      BY <1>1, <2>1, <3>1
  <2>2. CASE index[e] > 0
    BY <2>2, Zenon DEF ActInv, TraceInv
  <2> QED
    BY <1>1, <2>1, <2>2
<1>4. ExecInv'
  BY <1>1 DEF ActInv, ExecInv, TypeOK
<1>5. \A i \in Nat : i \in steps'[r] <=> i < index'[e]
  BY <1>1, <1>3 DEF TypeOK
<1>6. TraceInv'
  BY SMTT(60), <1>1, <1>2, <1>5 DEF ActInv, TraceInv, TypeOK
<1>7. AloneInv'
  <2> SUFFICES ASSUME NEW f \in Executor, NEW g \in Executor,
                      index'[f] > 0, index'[g] > 0, job[f] = job[g]
               PROVE  f = g
    BY Zenon DEF AloneInv
  <2>1. \A h \in Executor : h # e => index'[h] = index[h]
    BY <1>1, Zenon DEF TypeOK
  <2> QED
    BY <1>2, <2>1 DEF ActInv, AloneInv
<1>8. ActorInv'
  BY SMTT(60), <1>1, <1>3 DEF ActInv, ActorInv, TypeOK
<1> QED
  BY <1>4, <1>6, <1>7, <1>8, Zenon DEF ActInv

\* Every step keeps what executions know of the trace.
LEMMA NextAct ==
    ASSUME TypeOK, ActInv, [Next]_vars
    PROVE  ActInv'
<1> USE DEF rowVars, tickVars, execVars, deliveryVars, actVars, Mark, Commit, Unlock, Dequeue,
           ReapedStatus
<1>1. CASE UNCHANGED <<steps, pc, job, index, acted, actors>>
  BY <1>1, Zenon DEF ActInv, ExecInv, TraceInv, AloneInv, ActorInv
<1>2. ASSUME NEW e \in Executor, TakeRun(e) PROVE ActInv'
  <2>1. /\ index[e] = 0
        /\ UNCHANGED <<steps, index, acted, actors>>
        /\ \A f \in Executor : f # e => job'[f] = job[f] /\ pc'[f] = pc[f]
        /\ pc'[e] = "announce"
    BY <1>2, Zenon DEF TakeRun, TypeOK, ActInv, ExecInv
  <2>2. ExecInv'
    BY <2>1, Zenon DEF ActInv, ExecInv
  <2>3. TraceInv'
    BY <2>1 DEF ActInv, TraceInv
  <2>4. AloneInv'
    BY <2>1 DEF ActInv, AloneInv
  <2>5. ActorInv'
    BY <2>1 DEF ActInv, ActorInv
  <2> QED
    BY <2>2, <2>3, <2>4, <2>5, Zenon DEF ActInv
<1>3. ASSUME NEW e \in Executor, NEW p \in {"prepare", "model", "report", "outcome"},
             pc[e] # "free", pc' = [pc EXCEPT ![e] = p],
             UNCHANGED <<steps, job, index, acted, actors>>
      PROVE  ActInv'
  BY SMTT(60), <1>3 DEF ActInv, ExecInv, TraceInv, AloneInv, ActorInv, TypeOK
<1>4. ASSUME NEW e \in Executor,
             ReportRunning(e) \/ RunningLost(e) \/ Prepare(e) \/ StoppedByBudget(e)
             \/ ReportOutcome(e)
      PROVE  ActInv'
  BY Zenon, <1>3, <1>4 DEF ReportRunning, RunningLost, Prepare, SetRenderedPrompt, CannotStart, StoppedByBudget, ReportOutcome, Return
<1>5. ASSUME NEW e \in Executor, ModelCall(e) PROVE ActInv'
  BY ZenonT(60), <1>3, <1>5, RecordAct DEF ModelCall, StepFails, Return
<1>6. ASSUME NEW e \in Executor, RecordTool(e) PROVE ActInv'
  BY ZenonT(60), <1>3, <1>6, RecordAct DEF RecordTool, StepFails, Return
<1>7. ASSUME NEW e \in Executor, RunTool(e) PROVE ActInv'
  <2>1. /\ job[e] \in Run /\ index[e] > 0
        /\ UNCHANGED <<steps, job, index>>
        /\ pc' = [pc EXCEPT ![e] = "record"]
        /\ acted' = acted \cup {e}
        /\ actors' = [actors EXCEPT ![job[e]] = IF e \in acted THEN @ ELSE @ + 1]
    BY <1>7, Zenon DEF RunTool, TypeOK, ActInv, ExecInv
  <2>2. ExecInv' /\ TraceInv' /\ AloneInv'
    BY <2>1, Zenon DEF ActInv, ExecInv, TraceInv, AloneInv, TypeOK
  <2>3. \A r \in Run : actors'[r] <= 1
    BY <2>1 DEF ActInv, ActorInv, TypeOK
  <2>4. \A r \in Run : actors'[r] > 0 => 0 \in steps'[r]
    BY <2>1, Zenon DEF ActInv, ActorInv, TraceInv, TypeOK
  <2>5. \A f \in Executor : index'[f] > 0 /\ f \notin acted' => actors'[job'[f]] = 0
    BY SMTT(60), <2>1 DEF ActInv, ActorInv, AloneInv, TypeOK
  <2> QED
    BY ZenonT(60), <2>2, <2>3, <2>4, <2>5 DEF ActInv, ActorInv
<1>8. ASSUME NEW e \in Executor, OutcomeLost(e) \/ RecordAgentOutcome(e) PROVE ActInv'
  BY <1>8, ReleaseAct, Zenon DEF OutcomeLost, RecordAgentOutcome
<1>9. ASSUME NEW w \in Worker, WorkerCrash(w) PROVE ActInv'
  BY <1>9, ReleaseAct, Zenon DEF WorkerCrash
<1>10. ASSUME CoordinatorCrash PROVE ActInv'
  BY Zenon, <1>10, ReleaseAct DEF CoordinatorCrash
<1>11. ASSUME NEW t \in Tick,
              \/ BeginDispatch(t) \/ StopOffering(t) \/ DispatchTxFails(t) \/ TickFails(t)
              \/ EndDispatch(t) \/ Reap(t)
       PROVE  ActInv'
  BY <1>1, <1>11, Zenon DEF BeginDispatch, StopOffering, DispatchTxFails, TickFails, EndDispatch, Reap
<1>12. ASSUME NEW t \in Tick, NEW r \in Run, NEW w \in Worker,
              OfferAccepted(t, r, w) \/ OfferDeclined(t, r, w) \/ OfferError(t, r, w)
       PROVE  ActInv'
  BY <1>1, <1>12, Zenon DEF OfferAccepted, OfferDeclined, OfferError
<1>13. ASSUME NEW r \in Run, CreateRun(r) \/ LeaseExpires(r) PROVE ActInv'
  BY <1>1, <1>13, Zenon DEF CreateRun, LeaseExpires
<1>14. ASSUME NEW e \in Executor, RenewLease(e) PROVE ActInv'
  BY <1>1, <1>14, Zenon DEF RenewLease
<1>15. CASE UNCHANGED vars
  BY <1>1, <1>15, Zenon DEF vars
<1> QED
  BY <1>2, <1>4, <1>5, <1>6, <1>7, <1>8, <1>9, <1>10, <1>11, <1>12, <1>13, <1>14, <1>15,
     NextCases, ZenonT(60)

\* The inductive invariant about executions holds throughout.
LEMMA RunsActInv == Spec => [](TypeOK /\ ActInv)
<1>1. Init => ActInv
  BY DEF Init, ActInv, ExecInv, TraceInv, AloneInv, ActorInv
<1>2. TypeOK /\ ActInv /\ [Next]_vars => ActInv'
  BY NextAct, Zenon
<1> QED
  BY <1>1, <1>2, RunsTypeCorrect, PTL DEF Spec

\* At most one execution of a run ever runs a tool, for any number of workers,
\* overlapping ticks, lost replies, failed transactions and crashes.
THEOREM RunsOneActor == Spec => []OneActor
<1>1. ActInv => OneActor
  BY Zenon DEF ActInv, ActorInv, OneActor
<1> QED
  BY <1>1, RunsActInv, PTL

\* The stored trace of a run is that of one execution, without gaps.
THEOREM RunsTraceIsOneExecution == Spec => []TraceIsOneExecution
<1>1. TypeOK /\ ActInv => TraceIsOneExecution
  <2> SUFFICES ASSUME TypeOK, ActInv PROVE TraceIsOneExecution
    BY Zenon
  <2>1. \A r \in Run : \A i \in steps[r] : \A j \in 0 .. i : j \in steps[r]
    BY DEF ActInv, TraceInv, TypeOK
  <2>2. ASSUME NEW e \in Executor, index[e] > 0
        PROVE  steps[job[e]] = 0 .. (index[e] - 1)
    <3>1. job[e] \in Run /\ index[e] \in Nat
      BY <2>2 DEF ActInv, ExecInv, TypeOK
    <3>2. steps[job[e]] \in SUBSET Nat
      BY <3>1, Zenon DEF TypeOK
    <3>3. \A i \in Nat : i \in steps[job[e]] <=> i < index[e]
      BY <2>2, Zenon DEF ActInv, TraceInv
    <3>4. \A i : i \in 0 .. (index[e] - 1) <=> i \in Nat /\ i < index[e]
      BY <3>1
    <3>5. \A i : i \in steps[job[e]] <=> i \in Nat /\ i < index[e]
      BY <3>2, <3>3, Zenon
    <3> QED
      BY ZenonT(60), <3>4, <3>5
  <2> QED
    BY <2>1, <2>2, Zenon DEF TraceIsOneExecution
<1> QED
  BY <1>1, RunsActInv, PTL

-----------------------------------------------------------------------------
(* A dispatch owns what it selected *)

\* The inductive form of ClaimIsExclusive and DeliveredOncePerExcuse.  A
\* transaction marks only what it holds and offers nothing twice; outside the
\* dispatch, and once it has failed, it holds nothing.
TickInv ==
    \A t \in Tick :
        /\ taken[t] \subseteq claimed[t]
        /\ taken[t] \cap todo[t] = {}
        /\ t \in doomed \/ phase[t] # "dispatch" => claimed[t] = {}
        /\ t \in doomed => phase[t] = "dispatch"
        /\ t \notin doomed => todo[t] \subseteq claimed[t]

Marked(r) == \E t \in Tick : r \in taken[t]

DeliveryInv ==
    \A r \in Run :
        /\ deliveries[r] <= excuses[r] + 1
        /\ status[r] \in {"absent", "pending"} /\ ~Marked(r) => deliveries[r] <= excuses[r]

ClaimInv == TickInv /\ ClaimIsExclusive /\ DeliveryInv

\* A step that leaves the ticks and the counts alone, and takes no run that a
\* dispatch holds, nor any run back to pending, keeps the invariant.
LEMMA RowStepClaim ==
    ASSUME TypeOK, ClaimInv, UNCHANGED <<phase, claimed, todo, taken, doomed, deliveries, excuses>>,
           \A r \in Run : Locked(r) => status'[r] = status[r],
           \A r \in Run : status'[r] \in {"absent", "pending"} =>
                             status[r] \in {"absent", "pending"}
    PROVE  ClaimInv'
<1>1. TickInv'
  BY Zenon DEF ClaimInv, TickInv
<1>2. ClaimIsExclusive'
  BY Zenon DEF ClaimInv, ClaimIsExclusive, Locked, TypeOK
<1>3. DeliveryInv'
  BY Zenon DEF ClaimInv, DeliveryInv, Marked
<1> QED
  BY <1>1, <1>2, <1>3, Zenon DEF ClaimInv

\* Every step keeps what dispatches know of the rows they locked.
LEMMA NextClaim ==
    ASSUME TypeOK, ClaimInv, [Next]_vars
    PROVE  ClaimInv'
<1> USE DEF rowVars, tickVars, execVars, deliveryVars, actVars, Mark, Commit, Unlock, Dequeue,
           ReapedStatus
<1>1. ASSUME NEW t \in Tick, BeginDispatch(t) PROVE ClaimInv'
  <2>1. PICK batch \in SUBSET Selectable :
            claimed' = [claimed EXCEPT ![t] = batch] /\ todo' = [todo EXCEPT ![t] = batch]
    BY ZenonT(60), <1>1 DEF BeginDispatch
  <2>2. /\ phase[t] = "idle" /\ phase' = [phase EXCEPT ![t] = "dispatch"]
        /\ UNCHANGED <<status, taken, doomed, deliveries, excuses>>
    BY <1>1, Zenon DEF BeginDispatch
  <2>3. claimed[t] = {} /\ taken[t] = {} /\ t \notin doomed
    BY <2>2, Zenon DEF ClaimInv, TickInv
  <2>4. TickInv'
    BY <2>1, <2>2, <2>3, Zenon DEF ClaimInv, TickInv, TypeOK
  <2>5. ClaimIsExclusive'
    BY <2>1, <2>2 DEF ClaimInv, ClaimIsExclusive, Selectable, Locked, TypeOK
  <2>6. DeliveryInv'
    BY <2>2, Zenon DEF ClaimInv, DeliveryInv, Marked
  <2> QED
    BY <2>4, <2>5, <2>6, Zenon DEF ClaimInv
<1>2. ASSUME NEW t \in Tick, NEW r \in Run, NEW w \in Worker, OfferAccepted(t, r, w)
      PROVE  ClaimInv'
  <2>1. /\ phase[t] = "dispatch" /\ r \in todo[t]
        /\ UNCHANGED <<status, phase, claimed, doomed>>
        /\ todo' = [todo EXCEPT ![t] = @ \ {r}]
        /\ deliveries' = [deliveries EXCEPT ![r] = @ + 1]
    BY Zenon, <1>2 DEF OfferAccepted, Offering, SubmitRun
  <2>2. ClaimIsExclusive'
    BY <2>1, Zenon DEF ClaimInv, ClaimIsExclusive
  <2>3. CASE t \in doomed
    <3>1. taken' = taken /\ excuses' = [excuses EXCEPT ![r] = @ + 1]
      BY Zenon, <1>2, <2>3 DEF OfferAccepted
    <3>2. TickInv'
      BY Zenon, <2>1, <2>3, <3>1 DEF ClaimInv, TickInv, TypeOK
    <3>3. DeliveryInv'
      BY SMTT(60), <2>1, <3>1 DEF ClaimInv, DeliveryInv, Marked, TypeOK
    <3> QED
      BY <2>2, <3>2, <3>3, Zenon DEF ClaimInv
  <2>4. CASE t \notin doomed
    <3>1. taken' = [taken EXCEPT ![t] = @ \cup {r}] /\ excuses' = excuses
      BY <1>2, <2>4, Zenon DEF OfferAccepted
    <3>2. r \in claimed[t] /\ r \notin taken[t] /\ status[r] = "pending"
      BY ZenonT(60), <2>1, <2>4 DEF ClaimInv, TickInv, ClaimIsExclusive
    <3>3. ~Marked(r)
      BY ZenonT(60), <3>2 DEF ClaimInv, TickInv, ClaimIsExclusive, Marked
    <3>4. TickInv'
      BY <2>1, <2>4, <3>1, <3>2 DEF ClaimInv, TickInv, TypeOK
    <3>5. deliveries[r] <= excuses[r]
      BY <3>2, <3>3, Zenon DEF ClaimInv, DeliveryInv
    <3>6. \A q \in Run : Marked(q) => Marked(q)'
      BY <3>1, Zenon DEF Marked, TypeOK
    <3>7. Marked(r)'
      BY <3>1, Zenon DEF Marked, TypeOK
    <3>8. DeliveryInv'
      BY <2>1, <3>1, <3>5, <3>6, <3>7 DEF ClaimInv, DeliveryInv, TypeOK
    <3> QED
      BY <2>2, <3>4, <3>8, Zenon DEF ClaimInv
  <2> QED
    BY <2>3, <2>4, Zenon
<1>3. ASSUME NEW t \in Tick, NEW r \in Run, NEW w \in Worker, OfferError(t, r, w)
      PROVE  ClaimInv'
  <2>1. UNCHANGED <<status, phase, claimed, todo, taken, doomed>>
    BY Zenon, <1>3 DEF OfferError
  <2>2. TickInv' /\ ClaimIsExclusive'
    BY ZenonT(60), <2>1 DEF ClaimInv, TickInv, ClaimIsExclusive
  <2>3. CASE UNCHANGED <<deliveries, excuses>>
    BY <2>1, <2>2, <2>3, Zenon DEF ClaimInv, DeliveryInv, Marked
  <2>4. CASE /\ deliveries' = [deliveries EXCEPT ![r] = @ + 1]
             /\ excuses' = [excuses EXCEPT ![r] = @ + 1]
    BY SMTT(60), <2>1, <2>2, <2>4 DEF ClaimInv, DeliveryInv, Marked, TypeOK
  <2> QED
    BY <1>3, <2>3, <2>4, Zenon DEF OfferError, SubmitRun
<1>4. ASSUME NEW t \in Tick, StopOffering(t) PROVE ClaimInv'
  <2>1. /\ UNCHANGED <<status, phase, claimed, taken, doomed, deliveries, excuses>>
        /\ todo' = [todo EXCEPT ![t] = {}]
    BY <1>4, Zenon DEF StopOffering
  <2> QED
    BY <2>1 DEF ClaimInv, TickInv, ClaimIsExclusive, DeliveryInv, Marked, TypeOK
<1>5. ASSUME NEW t \in Tick, DispatchTxFails(t) PROVE ClaimInv'
  <2>1. /\ phase[t] = "dispatch"
        /\ UNCHANGED <<status, phase, todo, deliveries>>
        /\ claimed' = [claimed EXCEPT ![t] = {}]
        /\ taken' = [taken EXCEPT ![t] = {}]
        /\ doomed' = doomed \cup {t}
    BY <1>5, Zenon DEF DispatchTxFails
  <2>2. \A r \in Run : excuses'[r] = IF r \in taken[t] THEN excuses[r] + 1 ELSE excuses[r]
    BY <1>5, Zenon DEF DispatchTxFails, Excuse
  <2>3. TickInv' /\ ClaimIsExclusive'
    BY <2>1 DEF ClaimInv, TickInv, ClaimIsExclusive, TypeOK
  <2>4. \A r \in Run : ~Marked(r)' => r \in taken[t] \/ ~Marked(r)
    BY Zenon, <2>1 DEF Marked, TypeOK
  <2>5. DeliveryInv'
    <3> SUFFICES ASSUME NEW r \in Run
                 PROVE  /\ deliveries[r] <= excuses'[r] + 1
                        /\ status[r] \in {"absent", "pending"} /\ ~Marked(r)' =>
                             deliveries[r] <= excuses'[r]
      BY <2>1, Zenon DEF DeliveryInv
    <3>1. deliveries[r] \in Nat /\ excuses[r] \in Nat
      BY Zenon DEF TypeOK
    <3> QED
      BY SMTT(60), <2>2, <2>4, <3>1 DEF ClaimInv, DeliveryInv
  <2> QED
    BY <2>3, <2>5, Zenon DEF ClaimInv
<1>6. ASSUME NEW t \in Tick, EndDispatch(t) PROVE ClaimInv'
  <2>1. /\ phase[t] = "dispatch" /\ todo[t] = {}
        /\ UNCHANGED <<todo, deliveries, excuses>>
        /\ claimed' = [claimed EXCEPT ![t] = {}]
        /\ taken' = [taken EXCEPT ![t] = {}]
        /\ doomed' = doomed \ {t}
        /\ phase' = [phase EXCEPT ![t] = "reap"]
    BY Zenon, <1>6 DEF EndDispatch
  <2>2. \A r \in Run : status'[r] = IF r \in taken[t] THEN "running" ELSE status[r]
    BY Zenon, <1>6 DEF EndDispatch
  <2>3. TickInv'
    BY SMTT(60), <2>1 DEF ClaimInv, TickInv, TypeOK
  <2>4. ClaimIsExclusive'
    BY SMTT(60), <2>1, <2>2 DEF ClaimInv, TickInv, ClaimIsExclusive, TypeOK
  <2>5. \A r \in Run : ~Marked(r)' => r \in taken[t] \/ ~Marked(r)
    BY Zenon, <2>1 DEF Marked, TypeOK
  <2>6. DeliveryInv'
    BY ZenonT(60), <2>1, <2>2, <2>5 DEF ClaimInv, DeliveryInv
  <2> QED
    BY Zenon, <2>3, <2>4, <2>6 DEF ClaimInv
<1>7. ASSUME NEW t \in Tick, Reap(t) PROVE ClaimInv'
  <2>1. /\ phase[t] = "reap" /\ phase' = [phase EXCEPT ![t] = "idle"]
        /\ UNCHANGED <<claimed, todo, taken, doomed, deliveries, excuses>>
    BY Zenon, <1>7 DEF Reap
  <2>2. \A r \in Run : status'[r] = IF Expired(r) THEN "failed" ELSE status[r]
    BY Zenon, <1>7 DEF Reap
  <2>3. TickInv'
    BY Zenon, <2>1 DEF ClaimInv, TickInv, TypeOK
  <2>4. ClaimIsExclusive'
    BY Zenon, <2>1, <2>2 DEF ClaimInv, ClaimIsExclusive, Expired, TypeOK
  <2>5. DeliveryInv'
    BY <2>1, <2>2, Zenon DEF ClaimInv, DeliveryInv, Marked
  <2> QED
    BY <2>3, <2>4, <2>5, Zenon DEF ClaimInv
<1>8. ASSUME CoordinatorCrash PROVE ClaimInv'
  <2>1. /\ UNCHANGED <<status, deliveries>>
        /\ \A t \in Tick : claimed'[t] = {} /\ todo'[t] = {} /\ taken'[t] = {}
        /\ doomed' = {}
    BY Zenon, <1>8 DEF CoordinatorCrash
  <2>2. \A r \in Run : excuses'[r] = IF Marked(r) THEN excuses[r] + 1 ELSE excuses[r]
    BY <1>8, Zenon DEF CoordinatorCrash, Excuse, Marked
  <2>3. TickInv' /\ ClaimIsExclusive'
    BY <2>1, Zenon DEF TickInv, ClaimIsExclusive
  <2>4. DeliveryInv'
    <3> SUFFICES ASSUME NEW r \in Run
                 PROVE  /\ deliveries[r] <= excuses'[r] + 1
                        /\ status[r] \in {"absent", "pending"} => deliveries[r] <= excuses'[r]
      BY <2>1, Zenon DEF DeliveryInv
    <3>1. deliveries[r] \in Nat /\ excuses[r] \in Nat
      BY Zenon DEF TypeOK
    <3> QED
      BY <2>2, <3>1 DEF ClaimInv, DeliveryInv
  <2> QED
    BY Zenon, <2>3, <2>4 DEF ClaimInv
<1>9. ASSUME NEW r \in Run, CreateRun(r) \/ LeaseExpires(r) PROVE ClaimInv'
  <2>1. CASE LeaseExpires(r)
    BY Zenon, <2>1, RowStepClaim DEF LeaseExpires
  <2>2. CASE CreateRun(r)
    <3>1. ~Locked(r)
      BY ZenonT(60), <2>2 DEF CreateRun, ClaimInv, ClaimIsExclusive, Locked
    <3> QED
      BY Zenon, <2>2, <3>1, RowStepClaim DEF CreateRun, TypeOK
  <2> QED
    BY <1>9, <2>1, <2>2, Zenon
<1>10. ASSUME NEW e \in Executor, ReportRunning(e) PROVE ClaimInv'
  BY Zenon, <1>10, RowStepClaim DEF ReportRunning, TypeOK
<1>11. ASSUME NEW e \in Executor, ReportOutcome(e) PROVE ClaimInv'
  <2>1. outcome[e] \notin {"absent", "pending"}
    BY ZenonT(60) DEF TypeOK, Ended
  <2> QED
    BY <1>11, <2>1, RowStepClaim, Zenon DEF ReportOutcome, TypeOK
<1>12. ASSUME UNCHANGED <<status, phase, claimed, todo, taken, doomed, deliveries, excuses>>
       PROVE  ClaimInv'
  BY <1>12, RowStepClaim, Zenon
<1>13. ASSUME NEW e \in Executor,
              \/ TakeRun(e) \/ RunningLost(e) \/ OutcomeLost(e) \/ Prepare(e)
              \/ StoppedByBudget(e) \/ ModelCall(e) \/ RunTool(e) \/ RecordTool(e)
              \/ RecordAgentOutcome(e) \/ RenewLease(e)
       PROVE  ClaimInv'
  BY ZenonT(60), <1>12, <1>13 DEF TakeRun, RunningLost, OutcomeLost, Prepare, SetRenderedPrompt, CannotStart, StoppedByBudget, ModelCall,
                      RunTool, RecordTool, RecordAgentOutcome, RenewLease
<1>14. ASSUME NEW t \in Tick, NEW r \in Run, NEW w \in Worker, OfferDeclined(t, r, w)
       PROVE  ClaimInv'
  BY <1>12, <1>14, Zenon DEF OfferDeclined
<1>15. ASSUME NEW w \in Worker, WorkerCrash(w) PROVE ClaimInv'
  BY Zenon, <1>12, <1>15 DEF WorkerCrash
<1>16. ASSUME NEW t \in Tick, TickFails(t) PROVE ClaimInv'
  <2>1. /\ phase[t] # "dispatch" /\ \A u \in Tick \ {t} : phase'[u] = phase[u]
        /\ phase'[t] # "dispatch"
        /\ UNCHANGED <<status, claimed, todo, taken, doomed, deliveries, excuses>>
    BY <1>16, Zenon DEF TickFails, TypeOK
  <2> QED
    BY ZenonT(60), <2>1 DEF ClaimInv, TickInv, ClaimIsExclusive, DeliveryInv, Marked
<1>17. CASE UNCHANGED vars
  BY <1>12, <1>17, Zenon DEF vars
<1> QED
  BY <1>1, <1>2, <1>3, <1>4, <1>5, <1>6, <1>7, <1>8, <1>9, <1>10, <1>11, <1>13, <1>14,
     <1>15, <1>16, <1>17, NextCases, ZenonT(60)

\* The inductive invariant about dispatches holds throughout.
LEMMA RunsClaimInv == Spec => []ClaimInv
<1>1. Init => ClaimInv
  BY DEF Init, ClaimInv, TickInv, ClaimIsExclusive, DeliveryInv
<1>2. TypeOK /\ ClaimInv /\ [Next]_vars => ClaimInv'
  BY NextClaim, Zenon
<1> QED
  BY <1>1, <1>2, RunsTypeCorrect, PTL DEF Spec

\* No two ticks hold the same run, and a run a dispatch holds stays pending
\* until its transaction ends.
THEOREM RunsClaimIsExclusive == Spec => []ClaimIsExclusive
<1>1. ClaimInv => ClaimIsExclusive
  BY Zenon DEF ClaimInv
<1> QED
  BY <1>1, RunsClaimInv, PTL

\* A run is queued once, plus once for each delivery that a lost reply or a
\* failed transaction hides from the database.
THEOREM RunsDeliveredOncePerExcuse == Spec => []DeliveredOncePerExcuse
<1>1. ClaimInv => DeliveredOncePerExcuse
  BY Zenon DEF ClaimInv, DeliveryInv, DeliveredOncePerExcuse
<1> QED
  BY <1>1, RunsClaimInv, PTL

\* A run that has left pending never becomes pending again.
THEOREM RunsNeverPendingAgain == Spec => NeverPendingAgain
<1> DEFINE Kept == \A r \in Run : status'[r] = "pending" => status[r] \in {"absent", "pending"}
<1>1. ASSUME TypeOK, [Next]_vars PROVE Kept
  <2> USE DEF rowVars, tickVars, execVars, deliveryVars, actVars, Mark, Commit, Unlock, Dequeue,
           ReapedStatus, Kept
  <2>1. CASE UNCHANGED status
    BY Zenon, <2>1
  <2>2. ASSUME NEW r \in Run, CreateRun(r) \/ LeaseExpires(r) PROVE Kept
    BY Zenon, <1>1, <2>1, <2>2 DEF CreateRun, LeaseExpires, TypeOK
  <2>3. ASSUME NEW t \in Tick, EndDispatch(t) \/ Reap(t) PROVE Kept
    BY ZenonT(60), <2>3 DEF EndDispatch, Reap
  <2>4. ASSUME NEW t \in Tick, BeginDispatch(t) \/ StopOffering(t) \/ DispatchTxFails(t)
                             \/ TickFails(t)
        PROVE  Kept
    BY Zenon, <2>1, <2>4 DEF BeginDispatch, StopOffering, DispatchTxFails, TickFails
  <2>5. ASSUME NEW t \in Tick, NEW r \in Run, NEW w \in Worker,
               OfferAccepted(t, r, w) \/ OfferDeclined(t, r, w) \/ OfferError(t, r, w)
        PROVE  Kept
    BY Zenon, <2>1, <2>5 DEF OfferAccepted, OfferDeclined, OfferError
  <2>6. ASSUME NEW e \in Executor, ReportRunning(e) \/ ReportOutcome(e) PROVE Kept
    BY ZenonT(60), <1>1, <2>6 DEF ReportRunning, ReportOutcome, TypeOK, Ended
  <2>7. ASSUME NEW e \in Executor,
               \/ TakeRun(e) \/ RunningLost(e) \/ OutcomeLost(e) \/ Prepare(e)
               \/ StoppedByBudget(e) \/ ModelCall(e) \/ RunTool(e) \/ RecordTool(e)
               \/ RecordAgentOutcome(e) \/ RenewLease(e)
        PROVE  Kept
    BY ZenonT(60), <2>1, <2>7 DEF TakeRun, RunningLost, OutcomeLost, Prepare, SetRenderedPrompt, CannotStart, StoppedByBudget, ModelCall,
                      RunTool, RecordTool, RecordAgentOutcome, RenewLease
  <2>8. ASSUME NEW w \in Worker, WorkerCrash(w) PROVE Kept
    BY <2>1, <2>8, Zenon DEF WorkerCrash
  <2>9. ASSUME CoordinatorCrash PROVE Kept
    BY ZenonT(60), <2>1, <2>9 DEF CoordinatorCrash
  <2>10. CASE UNCHANGED vars
    BY <2>1, <2>10, Zenon DEF vars
  <2> HIDE DEF Kept
  <2> QED
    BY <1>1, <2>2, <2>3, <2>4, <2>5, <2>6, <2>7, <2>8, <2>9, <2>10, NextCases, ZenonT(60)
<1>2. TypeOK /\ [Next]_vars => [Kept]_vars
  BY Zenon, <1>1
<1> QED
  BY <1>2, RunsTypeCorrect, PTL DEF Spec, NeverPendingAgain

-----------------------------------------------------------------------------
(* What the reaper and the history rely on: a running run has a lease      *)
(* unless some delivery of it is unknown to the database, and an ended run *)
(* changes only if it was reaped or delivered more than once.              *)
(*                                                                         *)
(* Both are about copies of a run, in a queue or with a goroutine.  Every  *)
(* delivery makes one copy, so a run delivered once has one (HoldInv).     *)
(* As long as that copy has not reported its outcome the run is marked or  *)
(* has a lease (LeaseInv), and has not ended unless the reaper ended it    *)
(* (EndInv); and whoever reports is that copy.                             *)

InQueue(w, r) == \E i \in 1 .. Len(queue[w]) : queue[w][i] = r

OnceInQueue(w, r) ==
    \A i, j \in 1 .. Len(queue[w]) : queue[w][i] = r /\ queue[w][j] = r => i = j

\* There is at most one copy of the run.
HeldOnce(r) ==
    /\ \A w \in Worker : OnceInQueue(w, r)
    /\ \A w, v \in Worker : InQueue(w, r) /\ InQueue(v, r) => w = v
    /\ \A e \in Executor : job[e] = r => \A w \in Worker : ~InQueue(w, r)
    /\ \A e, f \in Executor : job[e] = r /\ job[f] = r => e = f

Held(r) ==
    \/ \E w \in Worker : InQueue(w, r)
    \/ \E e \in Executor : job[e] = r

\* There is a copy whose outcome is still to be reported.
Active(r) ==
    \/ \E w \in Worker : InQueue(w, r)
    \/ \E e \in Executor : job[e] = r /\ pc[e] # "outcome"

HoldInv ==
    \A r \in Run :
        /\ deliveries[r] = 0 => ~Held(r)
        /\ deliveries[r] <= 1 => HeldOnce(r)

LeaseInv ==
    \A r \in Run : excuses[r] = 0 =>
        /\ status[r] = "running" => lease[r] # "none"
        /\ Active(r) => Marked(r) \/ lease[r] # "none"

EndInv ==
    \A r \in Run :
        /\ Marked(r) => deliveries[r] > 0
        /\ deliveries[r] = 0 => status[r] \in {"absent", "pending"}
        /\ deliveries[r] <= 1 /\ Active(r) => status[r] \notin Ended \/ r \in reaped

CopyInv == HoldInv /\ LeaseInv /\ EndInv

-----------------------------------------------------------------------------
(* Copies *)

\* A step that only drops queues and jobs makes no copy.
Drops ==
    /\ \A w \in Worker : queue'[w] = queue[w] \/ queue'[w] = <<>>
    /\ \A e \in Executor : job'[e] = job[e] \/ job'[e] = None

LEMMA DropsHold ==
    ASSUME RunsAssumption, HoldInv, Drops, UNCHANGED deliveries
    PROVE  HoldInv'
<1>1. \A w \in Worker, r \in Run : InQueue(w, r)' => InQueue(w, r)
  BY DEF Drops, InQueue
<1>2. \A w \in Worker, r \in Run : OnceInQueue(w, r) => OnceInQueue(w, r)'
  BY DEF Drops, OnceInQueue
<1>3. \A e \in Executor, r \in Run : job'[e] = r => job[e] = r
  BY Zenon DEF Drops, RunsAssumption
<1>4. \A r \in Run : (HeldOnce(r) => HeldOnce(r)') /\ (Held(r)' => Held(r))
  BY <1>1, <1>2, <1>3, Zenon DEF HeldOnce, Held
<1> QED
  BY <1>4, Zenon DEF HoldInv

\* No copy that has reported becomes active again by it.
LEMMA DropsActive ==
    ASSUME RunsAssumption, Drops,
           \A e \in Executor : job'[e] # None /\ pc'[e] # "outcome" => pc[e] # "outcome"
    PROVE  \A r \in Run : Active(r)' => Active(r)
<1>1. \A w \in Worker, r \in Run : InQueue(w, r)' => InQueue(w, r)
  BY DEF Drops, InQueue
<1>2. \A e \in Executor, r \in Run : job'[e] = r => job[e] = r /\ job'[e] # None
  BY Zenon DEF Drops, RunsAssumption
<1> QED
  BY <1>1, <1>2, Zenon DEF Active

\* SubmitRun makes one copy, of the run that is delivered.
LEMMA SubmitCopies ==
    ASSUME TypeOK, NEW w \in Worker, NEW r \in Run, SubmitRun(w, r)
    PROVE  /\ \A v \in Worker, q \in Run : InQueue(v, q)' <=> InQueue(v, q) \/ (v = w /\ q = r)
           /\ \A v \in Worker, q \in Run :
                 OnceInQueue(v, q) /\ (q = r => ~InQueue(v, q)) => OnceInQueue(v, q)'
<1>1. /\ queue[w] \in Seq(Run) /\ Len(queue[w]) \in Nat
      /\ queue'[w] = Append(queue[w], r)
      /\ \A v \in Worker : v # w => queue'[v] = queue[v]
  BY DEF TypeOK, SubmitRun
<1>2. /\ Len(queue'[w]) = Len(queue[w]) + 1
      /\ \A i \in 1 .. Len(queue[w]) : queue'[w][i] = queue[w][i]
      /\ queue'[w][Len(queue[w]) + 1] = r
  BY <1>1
<1>3. \A q \in Run : InQueue(w, q)' <=> InQueue(w, q) \/ q = r
  BY <1>1, <1>2 DEF InQueue
<1>4. \A q \in Run : OnceInQueue(w, q) /\ (q = r => ~InQueue(w, q)) => OnceInQueue(w, q)'
  BY <1>1, <1>2 DEF InQueue, OnceInQueue
<1>5. ASSUME NEW v \in Worker, NEW q \in Run, v # w
      PROVE  (InQueue(v, q)' <=> InQueue(v, q)) /\ (OnceInQueue(v, q)' <=> OnceInQueue(v, q))
  BY <1>1, <1>5, Zenon DEF InQueue, OnceInQueue
<1> QED
  BY <1>3, <1>4, <1>5, Zenon

LEMMA SubmitHold ==
    ASSUME TypeOK, HoldInv, NEW w \in Worker, NEW r \in Run, SubmitRun(w, r), UNCHANGED job
    PROVE  HoldInv'
<1>1. /\ deliveries'[r] = deliveries[r] + 1 /\ deliveries[r] \in Nat
      /\ \A q \in Run : q # r => deliveries'[q] = deliveries[q]
  BY Zenon DEF SubmitRun, TypeOK
<1>2. ASSUME NEW q \in Run, q # r
      PROVE  /\ deliveries'[q] = 0 => ~Held(q)'
             /\ deliveries'[q] <= 1 => HeldOnce(q)'
  <2>1. /\ \A v \in Worker : InQueue(v, q)' <=> InQueue(v, q)
        /\ \A v \in Worker : OnceInQueue(v, q) => OnceInQueue(v, q)'
    BY <1>2, SubmitCopies, Zenon
  <2>2. (HeldOnce(q) => HeldOnce(q)') /\ (Held(q)' => Held(q))
    BY <2>1, Zenon DEF HeldOnce, Held
  <2> QED
    BY <1>1, <1>2, <2>2, Zenon DEF HoldInv
<1>3. deliveries'[r] # 0
  BY <1>1
<1>4. ASSUME deliveries'[r] <= 1 PROVE HeldOnce(r)'
  <2>1. ~Held(r) /\ HeldOnce(r)
    BY <1>1, <1>4 DEF HoldInv
  <2>2. /\ \A v \in Worker : InQueue(v, r)' <=> v = w
        /\ \A v \in Worker : OnceInQueue(v, r)'
    BY <2>1, SubmitCopies, Zenon DEF Held, HeldOnce
  <2>3. \A e \in Executor : job'[e] # r
    BY <2>1, Zenon DEF Held
  <2> QED
    BY <2>2, <2>3, Zenon DEF HeldOnce
<1> QED
  BY <1>2, <1>3, <1>4, Zenon DEF HoldInv

\* A goroutine that takes a run from the queue moves the copy.
LEMMA TakeCopies ==
    ASSUME TypeOK, NEW w \in Worker, queue[w] # <<>>, NEW r, r = Head(queue[w]),
           queue' = [queue EXCEPT ![w] = Tail(@)]
    PROVE  /\ r \in Run /\ InQueue(w, r)
           /\ \A v \in Worker, q \in Run : InQueue(v, q)' => InQueue(v, q)
           /\ \A v \in Worker, q \in Run : OnceInQueue(v, q) => OnceInQueue(v, q)'
           /\ OnceInQueue(w, r) => ~InQueue(w, r)'
<1>1. /\ queue[w] \in Seq(Run) /\ Len(queue[w]) \in Nat \ {0}
      /\ queue'[w] = Tail(queue[w])
      /\ \A v \in Worker : v # w => queue'[v] = queue[v]
  BY DEF TypeOK
<1>2. /\ Len(queue'[w]) = Len(queue[w]) - 1
      /\ \A i \in 1 .. Len(queue[w]) - 1 : queue'[w][i] = queue[w][i + 1]
      /\ r = queue[w][1] /\ r \in Run
  <2>1. ASSUME NEW s \in Seq(Run), s # <<>>
        PROVE  /\ Len(Tail(s)) = Len(s) - 1
               /\ \A i \in 1 .. Len(s) - 1 : Tail(s)[i] = s[i + 1]
               /\ Head(s) = s[1] /\ s[1] \in Run
    BY <2>1
  <2> QED
    BY <1>1, <2>1, Zenon
<1>3. InQueue(w, r)
  BY <1>1, <1>2 DEF InQueue
<1>4. \A q \in Run : InQueue(w, q)' => InQueue(w, q)
  BY <1>1, <1>2 DEF InQueue
<1>5. \A q \in Run : OnceInQueue(w, q) => OnceInQueue(w, q)'
  BY <1>1, <1>2 DEF OnceInQueue
<1>6. OnceInQueue(w, r) => ~InQueue(w, r)'
  BY <1>1, <1>2 DEF InQueue, OnceInQueue
<1>7. ASSUME NEW v \in Worker, NEW q \in Run, v # w
      PROVE  (InQueue(v, q)' <=> InQueue(v, q)) /\ (OnceInQueue(v, q)' <=> OnceInQueue(v, q))
  BY <1>1, <1>7 DEF InQueue, OnceInQueue
<1> QED
  BY <1>2, <1>3, <1>4, <1>5, <1>6, <1>7, Zenon

LEMMA TakeHold ==
    ASSUME TypeOK, HoldInv, NEW e \in Executor, TakeRun(e)
    PROVE  HoldInv' /\ \A q \in Run : Active(q)' => Active(q)
<1> DEFINE w == e[1]
<1>1. w \in Worker
  BY Zenon DEF Executor
<1>2. PICK r \in Run :
        /\ r = Head(queue[w]) /\ InQueue(w, r)
        /\ \A v \in Worker, q \in Run : InQueue(v, q)' => InQueue(v, q)
        /\ \A v \in Worker, q \in Run : OnceInQueue(v, q) => OnceInQueue(v, q)'
        /\ OnceInQueue(w, r) => ~InQueue(w, r)'
  BY <1>1, TakeCopies, Zenon DEF TakeRun, Dequeue
<1>3. job'[e] = r /\ \A f \in Executor : f # e => job'[f] = job[f] /\ pc'[f] = pc[f]
  BY <1>2, Zenon DEF TakeRun, Dequeue, TypeOK
<1>4. deliveries' = deliveries
  BY Zenon DEF TakeRun, deliveryVars
<1> HIDE DEF w
<1>5. \A q \in Run : Active(q)' => Active(q)
  BY <1>1, <1>2, <1>3, Zenon DEF Active
<1>6. \A q \in Run : Held(q)' => Held(q)
  BY <1>1, <1>2, <1>3, Zenon DEF Held
<1>7. ASSUME NEW q \in Run, HeldOnce(q) PROVE HeldOnce(q)'
  <2>1. \A v \in Worker : OnceInQueue(v, q)'
    BY <1>2, <1>7, Zenon DEF HeldOnce
  <2>2. \A v, u \in Worker : InQueue(v, q)' /\ InQueue(u, q)' => v = u
    BY <1>2, <1>7, Zenon DEF HeldOnce
  <2>3. CASE q = r
    <3>1. \A v \in Worker : ~InQueue(v, q)'
      BY <1>1, <1>2, <1>7, <2>3, Zenon DEF HeldOnce
    <3>2. \A f \in Executor : job[f] # q
      BY <1>1, <1>2, <1>7, <2>3, Zenon DEF HeldOnce
    <3> QED
      BY <1>3, <2>1, <3>1, <3>2, Zenon DEF HeldOnce
  <2>4. CASE q # r
    BY <1>2, <1>3, <1>7, <2>1, <2>2, <2>4, Zenon DEF HeldOnce
  <2> QED
    BY <2>3, <2>4, Zenon
<1> QED
  BY <1>4, <1>5, <1>6, <1>7, Zenon DEF HoldInv

-----------------------------------------------------------------------------
(* Steps *)

\* A step keeps the invariant that makes no copy, takes no lease away, starts
\* no run and ends only what it reaps.
LEMMA RowStepCopy ==
    ASSUME TypeOK, CopyInv, Drops, UNCHANGED <<taken, deliveries, excuses>>,
           \A e \in Executor : job'[e] # None /\ pc'[e] # "outcome" => pc[e] # "outcome",
           reaped \subseteq reaped',
           \A r \in Run :
               /\ lease[r] # "none" => lease'[r] # "none"
               /\ status'[r] = "running" => status[r] = "running"
               /\ status[r] \in {"absent", "pending"} => status'[r] \in {"absent", "pending"}
               /\ status'[r] \in Ended => status[r] \in Ended \/ r \in reaped'
    PROVE  CopyInv'
<1>1. HoldInv'
  BY RunsAssumption, DropsHold, Zenon DEF CopyInv
<1>2. \A r \in Run : Active(r)' => Active(r)
  BY RunsAssumption, DropsActive, Zenon
<1>3. \A r \in Run : Marked(r)' <=> Marked(r)
  BY Zenon DEF Marked
<1>4. LeaseInv'
  BY <1>2, <1>3, Zenon DEF CopyInv, LeaseInv
<1>5. EndInv'
  BY <1>2, <1>3, Zenon DEF CopyInv, EndInv
<1> QED
  BY <1>1, <1>4, <1>5, Zenon DEF CopyInv

\* A delivery is marked, or raises excuses; the first finds the run pending.
LEMMA SubmitCopy ==
    ASSUME TypeOK, CopyInv, NEW w \in Worker, NEW r \in Run, SubmitRun(w, r),
           UNCHANGED <<status, lease, job, pc, reaped>>,
           \A q \in Run : Marked(q)' <=> Marked(q) \/ (q = r /\ Marked(r)'),
           \A q \in Run : excuses[q] <= excuses'[q],
           Marked(r)' \/ excuses'[r] > 0, excuses' \in [Run -> Nat]
    PROVE  CopyInv'
<1>1. HoldInv'
  BY SubmitHold, Zenon DEF CopyInv
<1>2. \A q \in Run : q # r => (Active(q)' => Active(q)) /\ (Marked(q)' <=> Marked(q))
  BY SubmitCopies, Zenon DEF Active
<1>3. \A q \in Run : excuses'[q] = 0 => excuses[q] = 0
  BY DEF TypeOK
<1>4. LeaseInv'
  BY <1>2, <1>3 DEF CopyInv, LeaseInv
<1>5. /\ deliveries[r] \in Nat /\ deliveries'[r] = deliveries[r] + 1
      /\ \A q \in Run : q # r => deliveries'[q] = deliveries[q]
  BY Zenon DEF SubmitRun, TypeOK
<1>6. EndInv'
  <2>1. deliveries'[r] <= 1 => status[r] \notin Ended
    BY <1>5 DEF CopyInv, EndInv, Ended
  <2> QED
    BY <1>2, <1>5, <2>1 DEF CopyInv, EndInv
<1> QED
  BY <1>1, <1>4, <1>6, Zenon DEF CopyInv

\* A worker's report is about a run it has an active copy of, which was
\* delivered and which no open transaction has marked.
LEMMA ReporterHolds ==
    ASSUME TypeOK, ClaimInv, CopyInv, NEW e \in Executor, pc[e] \in {"announce", "report"},
           ~Locked(job[e])
    PROVE  /\ job[e] \in Run /\ Active(job[e]) /\ ~Marked(job[e])
           /\ deliveries[job[e]] \in Nat \ {0}
<1>1. job[e] \in Run
  BY Zenon DEF TypeOK
<1>2. Active(job[e]) /\ Held(job[e])
  BY Zenon DEF Active, Held
<1>3. ~Marked(job[e])
  BY Zenon DEF ClaimInv, TickInv, Marked, Locked
<1>4. deliveries[job[e]] \in Nat \ {0}
  BY <1>1, <1>2, Zenon DEF CopyInv, HoldInv, TypeOK
<1> QED
  BY <1>1, <1>2, <1>3, <1>4, Zenon

\* Every step keeps what is known of the copies.
LEMMA NextCopy ==
    ASSUME TypeOK, ClaimInv, CopyInv, [Next]_vars
    PROVE  CopyInv'
<1> USE DEF rowVars, tickVars, execVars, deliveryVars, actVars
<1>1. ASSUME NEW t \in Tick, NEW r \in Run, NEW w \in Worker, OfferAccepted(t, r, w)
      PROVE  CopyInv'
  <2>1. SubmitRun(w, r) /\ UNCHANGED <<status, lease, job, pc, reaped>> /\ Mark(t, r)
    BY <1>1, Zenon DEF OfferAccepted
  <2>2. CASE t \in doomed
    <3>1. taken' = taken /\ excuses' = [excuses EXCEPT ![r] = @ + 1]
      BY <2>1, <2>2, Zenon DEF Mark
    <3>2. \A q \in Run : Marked(q)' <=> Marked(q)
      BY <3>1, Zenon DEF Marked
    <3>3. /\ \A q \in Run : excuses[q] <= excuses'[q]
          /\ excuses'[r] > 0 /\ excuses' \in [Run -> Nat]
      BY <3>1 DEF TypeOK
    <3> QED
      BY <2>1, <3>2, <3>3, SubmitCopy, Zenon
  <2>3. CASE t \notin doomed
    <3>1. taken' = [taken EXCEPT ![t] = @ \cup {r}] /\ excuses' = excuses
      BY <2>1, <2>3, Zenon DEF Mark
    <3>2. Marked(r)' /\ \A q \in Run : Marked(q)' <=> Marked(q) \/ q = r
      BY <3>1, Zenon DEF Marked, TypeOK
    <3>3. (\A q \in Run : excuses[q] <= excuses'[q]) /\ excuses' \in [Run -> Nat]
      BY <3>1 DEF TypeOK
    <3> QED
      BY <2>1, <3>2, <3>3, SubmitCopy, Zenon
  <2> QED
    BY <2>2, <2>3, Zenon
<1>2. ASSUME NEW e \in Executor, TakeRun(e) PROVE CopyInv'
  <2>1. UNCHANGED <<status, lease, taken, deliveries, excuses, reaped>>
    BY <1>2, Zenon DEF TakeRun
  <2>2. HoldInv' /\ \A q \in Run : Active(q)' => Active(q)
    BY <1>2, TakeHold, Zenon DEF CopyInv
  <2> QED
    BY <2>1, <2>2, Zenon DEF CopyInv, LeaseInv, EndInv, Marked
<1>3. ASSUME NEW t \in Tick, DispatchTxFails(t) PROVE CopyInv'
  <2>1. /\ UNCHANGED <<status, lease, queue, job, pc, deliveries, reaped>>
        /\ taken' = [taken EXCEPT ![t] = {}]
        /\ \A r \in Run : excuses'[r] = IF r \in taken[t] THEN excuses[r] + 1 ELSE excuses[r]
    BY <1>3, Zenon DEF DispatchTxFails, Excuse
  <2>2. HoldInv' /\ \A r \in Run : Active(r)' <=> Active(r)
    BY <2>1 DEF CopyInv, HoldInv, Held, HeldOnce, Active, InQueue, OnceInQueue
  <2>3. \A r \in Run : (Marked(r)' => Marked(r)) /\ (Marked(r) => Marked(r)' \/ r \in taken[t])
    BY <2>1, Zenon DEF Marked, TypeOK
  <2>4. \A r \in Run : excuses'[r] = 0 => excuses[r] = 0 /\ r \notin taken[t]
    BY <2>1 DEF TypeOK
  <2>5. LeaseInv'
    BY <2>1, <2>2, <2>3, <2>4, Zenon DEF CopyInv, LeaseInv
  <2>6. EndInv'
    BY <2>1, <2>2, <2>3, Zenon DEF CopyInv, EndInv
  <2> QED
    BY <2>2, <2>5, <2>6, Zenon DEF CopyInv
<1>4. ASSUME NEW t \in Tick, EndDispatch(t) PROVE CopyInv'
  <2>1. /\ UNCHANGED <<queue, job, pc, deliveries, excuses, reaped>>
        /\ taken' = [taken EXCEPT ![t] = {}]
        /\ \A r \in Run : status'[r] = IF r \in taken[t] THEN "running" ELSE status[r]
        /\ \A r \in Run : lease'[r] = IF r \in taken[t] THEN "live" ELSE lease[r]
    BY <1>4, Zenon DEF EndDispatch, Commit, Unlock
  <2>2. HoldInv' /\ \A r \in Run : Active(r)' <=> Active(r)
    BY <2>1 DEF CopyInv, HoldInv, Held, HeldOnce, Active, InQueue, OnceInQueue
  <2>3. \A r \in Run : (Marked(r)' => Marked(r)) /\ (Marked(r) => Marked(r)' \/ r \in taken[t])
    BY <2>1, Zenon DEF Marked, TypeOK
  <2>4. LeaseInv'
    BY <2>1, <2>2, <2>3, Zenon DEF CopyInv, LeaseInv
  <2>5. \A r \in taken[t] : r \in Run => deliveries[r] > 0
    BY Zenon DEF CopyInv, EndInv, Marked
  <2>6. EndInv'
    BY <2>1, <2>2, <2>3, <2>5 DEF CopyInv, EndInv, Ended
  <2> QED
    BY <2>2, <2>4, <2>6, Zenon DEF CopyInv
<1>5. ASSUME CoordinatorCrash PROVE CopyInv'
  <2>1. /\ UNCHANGED <<status, lease, queue, deliveries, reaped>>
        /\ \A t \in Tick : taken'[t] = {}
        /\ \A e \in Executor : job'[e] = IF pc[e] = "outcome" THEN None ELSE job[e]
        /\ \A e \in Executor : pc'[e] = IF pc[e] = "outcome" THEN "free" ELSE pc[e]
    BY <1>5, Zenon DEF CoordinatorCrash, Release
  <2>2. \A r \in Run : excuses'[r] = IF Marked(r) THEN excuses[r] + 1 ELSE excuses[r]
    BY <1>5, Zenon DEF CoordinatorCrash, Excuse, Marked
  <2>3. Drops
    BY <2>1, Zenon DEF Drops
  <2>4. HoldInv'
    BY <2>1, <2>3, RunsAssumption, DropsHold, Zenon DEF CopyInv
  <2>5. \A r \in Run : Active(r)' => Active(r)
    BY <2>1, <2>3, RunsAssumption, DropsActive, Zenon
  <2>6. \A r \in Run : ~Marked(r)'
    BY <2>1, Zenon DEF Marked
  <2>7. \A r \in Run : excuses'[r] = 0 => excuses[r] = 0 /\ ~Marked(r)
    BY <2>2 DEF TypeOK
  <2>8. LeaseInv' /\ EndInv'
    BY <2>1, <2>5, <2>6, <2>7, Zenon DEF CopyInv, LeaseInv, EndInv
  <2> QED
    BY <2>4, <2>8, Zenon DEF CopyInv
<1>6. ASSUME NEW e \in Executor, ReportRunning(e) PROVE CopyInv'
  <2> DEFINE r == job[e]
  <2>1. /\ pc[e] = "announce" /\ ~Locked(r)
        /\ status' = [status EXCEPT ![r] = "running"]
        /\ pc' = [pc EXCEPT ![e] = "prepare"]
        /\ UNCHANGED <<lease, queue, job, taken, deliveries, excuses, reaped>>
    BY <1>6, Zenon DEF ReportRunning
  <2>2. r \in Run /\ Active(r) /\ ~Marked(r) /\ deliveries[r] \in Nat \ {0}
    BY <2>1, ReporterHolds, Zenon
  <2>3. Drops /\ \A f \in Executor : pc'[f] # "outcome" => pc[f] # "outcome"
    BY <2>1, Zenon DEF Drops, TypeOK
  <2>4. HoldInv' /\ (\A q \in Run : Active(q)' => Active(q)) /\ \A q \in Run : Marked(q)' <=> Marked(q)
    BY <2>1, <2>3, RunsAssumption, DropsHold, DropsActive, Zenon DEF CopyInv, Marked
  <2>5. status'[r] = "running" /\ \A q \in Run : q # r => status'[q] = status[q]
    BY <2>1, <2>2, Zenon DEF TypeOK
  <2> HIDE DEF r
  <2>6. LeaseInv'
    BY <2>1, <2>2, <2>4, <2>5, Zenon DEF CopyInv, LeaseInv
  <2>7. EndInv'
    BY <2>1, <2>2, <2>4, <2>5, Zenon DEF CopyInv, EndInv, Ended
  <2> QED
    BY <2>4, <2>6, <2>7, Zenon DEF CopyInv
<1>7. ASSUME NEW e \in Executor, ReportOutcome(e) PROVE CopyInv'
  <2>1. PICK r \in Run : r = job[e] /\ Active(r) /\ ~Marked(r) /\ deliveries[r] \in Nat \ {0}
    BY <1>7, ReporterHolds, Zenon DEF ReportOutcome
  <2>2. /\ status' = [status EXCEPT ![r] = outcome[e]]
        /\ lease' = [lease EXCEPT ![r] = "none"]
        /\ pc[e] = "report" /\ pc' = [pc EXCEPT ![e] = "outcome"]
        /\ UNCHANGED <<queue, job, taken, deliveries, excuses, reaped>>
    BY <1>7, <2>1, Zenon DEF ReportOutcome
  <2>3. Drops /\ \A f \in Executor : pc'[f] # "outcome" => pc[f] # "outcome"
    BY <2>2, Zenon DEF Drops, TypeOK
  <2>4. HoldInv' /\ (\A q \in Run : Active(q)' => Active(q)) /\ \A q \in Run : Marked(q)' <=> Marked(q)
    BY <2>2, <2>3, RunsAssumption, DropsHold, DropsActive, Zenon DEF CopyInv, Marked
  <2>5. deliveries[r] <= 1 => ~Active(r)'
    <3>1. pc'[e] = "outcome" /\ job' = job /\ queue' = queue
      BY <2>2, Zenon DEF TypeOK
    <3>2. HeldOnce(r) => ~Active(r)'
      BY <2>1, <3>1, Zenon DEF HeldOnce, Active, InQueue
    <3> QED
      BY <3>2, Zenon DEF CopyInv, HoldInv
  <2>6. excuses[r] = 0 => deliveries[r] <= 1
    BY DEF ClaimInv, DeliveryInv, TypeOK
  <2>7. /\ status'[r] \in Ended /\ status'[r] # "running"
        /\ \A q \in Run : q # r => status'[q] = status[q] /\ lease'[q] = lease[q]
    BY <2>2, Zenon DEF TypeOK, Ended
  <2>8. LeaseInv'
    BY <2>2, <2>4, <2>5, <2>6, <2>7, Zenon DEF CopyInv, LeaseInv
  <2>9. EndInv'
    BY <2>1, <2>2, <2>4, <2>5, <2>7, Zenon DEF CopyInv, EndInv
  <2> QED
    BY <2>4, <2>8, <2>9, Zenon DEF CopyInv
<1>8. ASSUME NEW r \in Run, CreateRun(r) \/ LeaseExpires(r) PROVE CopyInv'
  BY SMTT(60), <1>8, RowStepCopy DEF CreateRun, LeaseExpires, Drops, Ended, TypeOK
<1>9. ASSUME NEW t \in Tick, Reap(t) PROVE CopyInv'
  BY <1>9, RowStepCopy, Zenon DEF Reap, ReapedStatus, Expired, Drops, Ended, TypeOK
<1>10. ASSUME NEW e \in Executor, RenewLease(e) PROVE CopyInv'
  BY <1>10, RowStepCopy, Zenon DEF RenewLease, Drops, TypeOK
<1>11. ASSUME Drops, UNCHANGED <<status, lease, taken, deliveries, excuses, reaped>>,
              \A e \in Executor : job'[e] # None /\ pc'[e] # "outcome" => pc[e] # "outcome"
       PROVE  CopyInv'
  BY <1>11, RowStepCopy, Zenon
<1>12. ASSUME UNCHANGED <<status, lease, taken, queue, job, pc, deliveries, excuses, reaped>>
       PROVE  CopyInv'
  BY <1>11, <1>12, Zenon DEF Drops
<1>13. ASSUME NEW t \in Tick, BeginDispatch(t) \/ StopOffering(t) \/ TickFails(t) PROVE CopyInv'
  BY <1>12, <1>13, Zenon DEF BeginDispatch, StopOffering, TickFails
<1>14. ASSUME NEW t \in Tick, NEW r \in Run, NEW w \in Worker, OfferDeclined(t, r, w)
       PROVE  CopyInv'
  BY <1>12, <1>14, Zenon DEF OfferDeclined
<1>15. ASSUME NEW t \in Tick, NEW r \in Run, NEW w \in Worker, OfferError(t, r, w)
       PROVE  CopyInv'
  <2>1. UNCHANGED <<status, lease, taken, job, pc, reaped>>
    BY <1>15, Zenon DEF OfferError
  <2>2. CASE UNCHANGED <<queue, deliveryVars>>
    BY <1>12, <2>1, <2>2, Zenon
  <2>3. CASE SubmitRun(w, r) /\ excuses' = [excuses EXCEPT ![r] = @ + 1]
    <3>1. \A q \in Run : Marked(q)' <=> Marked(q)
      BY <2>1, Zenon DEF Marked
    <3>2. /\ \A q \in Run : excuses[q] <= excuses'[q]
          /\ excuses'[r] > 0 /\ excuses' \in [Run -> Nat]
      BY <2>3 DEF TypeOK
    <3> QED
      BY <2>1, <2>3, <3>1, <3>2, SubmitCopy, Zenon
  <2> QED
    BY <1>15, <2>2, <2>3, Zenon DEF OfferError
<1>16. ASSUME NEW e \in Executor,
              \/ RunningLost(e) \/ Prepare(e) \/ StoppedByBudget(e) \/ ModelCall(e)
              \/ RunTool(e) \/ RecordTool(e)
       PROVE  CopyInv'
  <2>1. UNCHANGED <<status, lease, taken, queue, job, deliveries, excuses, reaped>>
    BY <1>16, Zenon DEF RunningLost, Prepare, StoppedByBudget, ModelCall, RunTool, RecordTool
  <2>2. pc[e] # "outcome" /\ \A f \in Executor : f # e => pc'[f] = pc[f]
    BY Zenon, <1>16 DEF RunningLost, Prepare, SetRenderedPrompt, CannotStart, StoppedByBudget,
                 ModelCall, RunTool, RecordTool, StepFails, Return, TypeOK
  <2> QED
    BY <1>11, <2>1, <2>2, Zenon DEF Drops
<1>17. ASSUME NEW es, Release(es), queue' = queue \/ \E w \in Worker : queue' = [queue EXCEPT ![w] = <<>>],
              UNCHANGED <<status, lease, taken, deliveries, excuses, reaped>>
       PROVE  CopyInv'
  <2>1. \A e \in Executor : \/ job'[e] = None
                            \/ job'[e] = job[e] /\ pc'[e] = pc[e]
    BY <1>17, Zenon DEF Release
  <2>2. Drops
    BY <1>17, <2>1, Zenon DEF Drops, TypeOK
  <2> QED
    BY <1>11, <1>17, <2>1, <2>2, Zenon
<1>18. ASSUME NEW e \in Executor, OutcomeLost(e) \/ RecordAgentOutcome(e) PROVE CopyInv'
  BY <1>17, <1>18, Zenon DEF OutcomeLost, RecordAgentOutcome
<1>19. ASSUME NEW w \in Worker, WorkerCrash(w) PROVE CopyInv'
  BY <1>17, <1>19, Zenon DEF WorkerCrash
<1>20. CASE UNCHANGED vars
  BY <1>12, <1>20, Zenon DEF vars
<1> QED
  BY <1>1, <1>2, <1>3, <1>4, <1>5, <1>6, <1>7, <1>8, <1>9, <1>10, <1>13, <1>14, <1>15,
     <1>16, <1>18, <1>19, <1>20, NextCases, ZenonT(60)

\* The inductive invariant about copies holds throughout.
LEMMA RunsCopyInv == Spec => [](TypeOK /\ ClaimInv /\ CopyInv)
<1>1. Init => CopyInv
  <2> SUFFICES ASSUME Init PROVE CopyInv
    BY Zenon
  <2>1. \A w \in Worker : Len(queue[w]) = 0
    BY Zenon DEF Init
  <2>2. \A r \in Run : ~Held(r) /\ ~Active(r) /\ HeldOnce(r) /\ ~Marked(r)
    BY <2>1, RunsAssumption DEF Init, Held, Active, HeldOnce, InQueue, OnceInQueue, Marked
  <2> QED
    BY <2>2, Zenon DEF Init, CopyInv, HoldInv, LeaseInv, EndInv
<1>2. TypeOK /\ ClaimInv /\ CopyInv /\ [Next]_vars => CopyInv'
  BY NextCopy, Zenon
<1> QED
  BY <1>1, <1>2, RunsTypeCorrect, RunsClaimInv, PTL DEF Spec

-----------------------------------------------------------------------------
(* Results *)

\* The reaper finds every running run, unless a delivery of it is unknown to
\* the database: lease_expires_at is set.
THEOREM RunsRunningHasLease == Spec => []RunningHasLease
<1>1. TypeOK /\ ClaimInv /\ CopyInv => RunningHasLease
  BY DEF TypeOK, CopyInv, LeaseInv, RunningHasLease
<1> QED
  BY <1>1, RunsCopyInv, PTL

\* UpdateRunStatus writes an ended run only for one that was reaped, or that
\* was delivered more than once; nothing else changes an ended status.
THEOREM RunsEndedChangesOnlyIfContested == Spec => EndedChangesOnlyIfContested
<1> DEFINE Contested == \A r \in Run : status[r] \in Ended /\ status'[r] # status[r] =>
                                          r \in reaped \/ deliveries[r] > 1
<1>1. ASSUME TypeOK, ClaimInv, CopyInv, [Next]_vars PROVE Contested
  <2> USE DEF rowVars, tickVars, execVars, deliveryVars, actVars
  <2>1. CASE UNCHANGED status
    BY <2>1, Zenon
  <2>2. ASSUME NEW e \in Executor, pc[e] \in {"announce", "report"}, ~Locked(job[e]),
               \A r \in Run : r # job[e] => status'[r] = status[r]
        PROVE  Contested
    <3>1. job[e] \in Run /\ Active(job[e]) /\ deliveries[job[e]] \in Nat
      BY <1>1, <2>2, ReporterHolds, Zenon
    <3>2. status[job[e]] \in Ended => job[e] \in reaped \/ deliveries[job[e]] > 1
      BY <1>1, <3>1 DEF CopyInv, EndInv
    <3> QED
      BY <2>2, <3>2, Zenon
  <2>3. ASSUME NEW e \in Executor, ReportRunning(e) \/ ReportOutcome(e) PROVE Contested
    <3>1. /\ pc[e] \in {"announce", "report"} /\ ~Locked(job[e])
          /\ \A r \in Run : r # job[e] => status'[r] = status[r]
      BY <1>1, <2>3, Zenon DEF ReportRunning, ReportOutcome, TypeOK
    <3> QED
      BY <2>2, <3>1, Zenon
  <2>4. ASSUME NEW r \in Run, CreateRun(r) \/ LeaseExpires(r) PROVE Contested
    BY <1>1, <2>4, Zenon DEF CreateRun, LeaseExpires, TypeOK, Ended
  <2>5. ASSUME NEW t \in Tick, EndDispatch(t) PROVE Contested
    <3>1. \A r \in taken[t] : status[r] = "pending"
      BY <1>1, Zenon DEF ClaimInv, TickInv, ClaimIsExclusive
    <3> QED
      BY <2>5, <3>1, Zenon DEF EndDispatch, Commit, Ended
  <2>6. ASSUME NEW t \in Tick, Reap(t) PROVE Contested
    BY <2>6, Zenon DEF Reap, Expired, Ended
  <2>7. ASSUME NEW t \in Tick, BeginDispatch(t) \/ StopOffering(t) \/ DispatchTxFails(t)
                             \/ TickFails(t)
        PROVE  Contested
    BY <2>1, <2>7, Zenon DEF BeginDispatch, StopOffering, DispatchTxFails, TickFails
  <2>8. ASSUME NEW t \in Tick, NEW r \in Run, NEW w \in Worker,
               OfferAccepted(t, r, w) \/ OfferDeclined(t, r, w) \/ OfferError(t, r, w)
        PROVE  Contested
    BY <2>1, <2>8, Zenon DEF OfferAccepted, OfferDeclined, OfferError
  <2>9. ASSUME NEW e \in Executor,
               \/ TakeRun(e) \/ RunningLost(e) \/ OutcomeLost(e) \/ Prepare(e)
               \/ StoppedByBudget(e) \/ ModelCall(e) \/ RunTool(e) \/ RecordTool(e)
               \/ RecordAgentOutcome(e) \/ RenewLease(e)
        PROVE  Contested
    BY <2>1, <2>9, ZenonT(60) DEF TakeRun, RunningLost, OutcomeLost, Prepare, StoppedByBudget,
         ModelCall, RunTool, RecordTool, RecordAgentOutcome, RenewLease
  <2>10. ASSUME (\E w \in Worker : WorkerCrash(w)) \/ CoordinatorCrash PROVE Contested
    BY <2>1, <2>10, Zenon DEF WorkerCrash, CoordinatorCrash
  <2>11. CASE UNCHANGED vars
    BY <2>1, <2>11, Zenon DEF vars
  <2> HIDE DEF Contested
  <2> QED
    BY <1>1, <2>3, <2>4, <2>5, <2>6, <2>7, <2>8, <2>9, <2>10, <2>11, NextCases, ZenonT(60)
<1>2. TypeOK /\ ClaimInv /\ CopyInv /\ [Next]_vars => [Contested]_vars
  BY <1>1, Zenon
<1> QED
  BY <1>2, RunsCopyInv, PTL DEF Spec, EndedChangesOnlyIfContested

-----------------------------------------------------------------------------
(* Runs implements AgentActs: the effects of a run, seen through its       *)
(* stored steps and the executions in progress.                            *)

\* What the phase of a run is before and after a step.
LEMMA ActPhaseValue ==
    ASSUME NEW r \in Run
    PROVE  /\ ActPhase[r] = IF 0 \notin steps[r] THEN "unclaimed"
                            ELSE IF Acting(r) THEN "acting" ELSE "over"
           /\ ActPhase'[r] = IF 0 \notin steps'[r] THEN "unclaimed"
                             ELSE IF Acting(r)' THEN "acting" ELSE "over"
BY Zenon DEF ActPhase

\* The phase is a function of the runs.
LEMMA ActPhaseDomain ==
    /\ ActPhase = [r \in Run |-> ActPhase[r]]
    /\ ActPhase' = [r \in Run |-> ActPhase'[r]]
BY Zenon DEF ActPhase

\* No run starts, does or stops acting.
LEMMA StutterRefines ==
    ASSUME UNCHANGED acts, \A r \in Run : 0 \in steps'[r] <=> 0 \in steps[r],
           \A r \in Run : Acting(r)' <=> Acting(r)
    PROVE  UNCHANGED <<ActPhase, acts>>
BY Zenon DEF ActPhase

\* Executions that return or die end the acting of their runs.
LEMMA ReleaseRefines ==
    ASSUME TypeOK, ActInv, NEW es \in SUBSET Executor, Release(es), UNCHANGED <<steps, acts>>
    PROVE  Acts!Next
<1> DEFINE rs == {r \in Run : Acting(r) /\ ~Acting(r)'}
<1>1. \A r \in Run : Acting(r) => 0 \in steps[r]
  BY Zenon DEF Acting, ActInv, TraceInv
<1>2. \A r \in Run : Acting(r)' => Acting(r)
  BY DEF Acting, Release, TypeOK
<1>3. \A r \in rs : ActPhase[r] = "acting"
  BY <1>1, ActPhaseValue, Zenon
<1>4. \A r \in Run : ActPhase'[r] = IF r \in rs THEN "over" ELSE ActPhase[r]
  BY Zenon, <1>1, <1>2, ActPhaseValue
<1>5. ActPhase' = [r \in Run |-> IF r \in rs THEN "over" ELSE ActPhase[r]]
  BY <1>4, Zenon DEF ActPhase
<1>6. Acts!End(rs)
  BY <1>3, <1>5, Zenon DEF Acts!End
<1> QED
  BY Zenon, <1>6 DEF Acts!Next

\* Recording the first step of a run claims it; later steps change nothing.
LEMMA RecordRefines ==
    ASSUME TypeOK, ActInv, NEW e \in Executor, pc[e] # "free", Record(e), UNCHANGED <<job, acts>>
    PROVE  [Acts!Next]_<<ActPhase, acts>>
<1> DEFINE r == job[e]
<1>1. /\ r \in Run /\ index[e] \in Nat
      /\ steps' = [steps EXCEPT ![r] = @ \cup {index[e]}]
      /\ index' = [index EXCEPT ![e] = @ + 1]
      /\ index[e] \notin steps[r]
  BY Zenon DEF Record, TypeOK
<1>2. \A q \in Run \ {r} : steps'[q] = steps[q] /\ (Acting(q)' <=> Acting(q))
  BY Zenon, <1>1 DEF Acting, TypeOK
<1>3. Acting(r)'
  BY SMTT(60), <1>1 DEF Acting, TypeOK
<1>4. CASE index[e] = 0
  <2>1. ActPhase[r] = "unclaimed" /\ ActPhase'[r] = "acting"
    BY ZenonT(60), <1>1, <1>3, <1>4, ActPhaseValue DEF TypeOK
  <2>2. \A q \in Run \ {r} : ActPhase'[q] = ActPhase[q]
    BY ZenonT(60), <1>2, ActPhaseValue
  <2>3. ActPhase' = [ActPhase EXCEPT ![r] = "acting"]
    <3>1. \A q \in Run : ActPhase'[q] = IF q = r THEN "acting" ELSE ActPhase[q]
      BY <2>1, <2>2, Zenon
    <3> QED
      BY <3>1, ActPhaseDomain, Zenon
  <2>4. Acts!Claim(r)
    BY Zenon, <2>1, <2>3 DEF Acts!Claim
  <2> QED
    BY Zenon, <1>1, <2>4 DEF Acts!Next
<1>5. CASE index[e] > 0
  <2>1. Acting(r) /\ 0 \in steps[r]
    BY <1>5, Zenon DEF Acting, ActInv, TraceInv
  <2> QED
    BY SMTT(60), <1>1, <1>2, <1>3, <2>1, StutterRefines DEF TypeOK
<1> QED
  BY SMTT(60), <1>1, <1>4, <1>5

\* Every step of Runs is a step of AgentActs or leaves its variables alone.
LEMMA NextRefines ==
    ASSUME TypeOK, ActInv, [Next]_vars
    PROVE  [Acts!Next]_<<ActPhase, acts>>
<1> USE DEF rowVars, tickVars, execVars, deliveryVars, actVars, Mark, Commit, Unlock, Dequeue,
           ReapedStatus
<1>1. CASE UNCHANGED <<steps, job, index, acts>>
  <2>1. \A r \in Run : Acting(r)' <=> Acting(r)
    BY Zenon, <1>1 DEF Acting
  <2> QED
    BY <1>1, <2>1, StutterRefines, Zenon
<1>2. ASSUME NEW e \in Executor, TakeRun(e) PROVE UNCHANGED <<ActPhase, acts>>
  <2>1. /\ index[e] = 0 /\ UNCHANGED <<steps, index, acts>>
        /\ \A f \in Executor : f # e => job'[f] = job[f]
    BY <1>2, Zenon DEF TakeRun, TypeOK, ActInv, ExecInv
  <2>2. \A r \in Run : Acting(r)' <=> Acting(r)
    BY <2>1 DEF Acting
  <2> QED
    BY Zenon, <2>1, <2>2, StutterRefines
<1>3. ASSUME NEW e \in Executor, ModelCall(e) \/ RecordTool(e)
      PROVE  [Acts!Next]_<<ActPhase, acts>>
  <2>1. pc[e] # "free" /\ UNCHANGED <<job, acts>> /\ (Record(e) \/ UNCHANGED <<steps, index>>)
    BY <1>3, Zenon DEF ModelCall, RecordTool, StepFails
  <2> QED
    BY Zenon, <1>1, <2>1, RecordRefines
<1>4. ASSUME NEW e \in Executor, RunTool(e) PROVE Acts!Next
  <2>1. /\ job[e] \in Run /\ index[e] > 0 /\ UNCHANGED <<steps, job, index>>
        /\ acts' = [acts EXCEPT ![job[e]] = @ + 1]
    BY <1>4, Zenon DEF RunTool, TypeOK, ActInv, ExecInv
  <2>2. ActPhase' = ActPhase
    BY <2>1, Zenon DEF ActPhase, Acting
  <2>3. ActPhase[job[e]] = "acting"
    <3>1. Acting(job[e]) /\ 0 \in steps[job[e]]
      BY <2>1, Zenon DEF Acting, ActInv, TraceInv
    <3> QED
      BY Zenon, <2>1, <3>1, ActPhaseValue
  <2>4. Acts!Act(job[e])
    BY Zenon, <2>1, <2>2, <2>3 DEF Acts!Act
  <2> QED
    BY Zenon, <2>1, <2>4 DEF Acts!Next
<1>5. ASSUME NEW e \in Executor, OutcomeLost(e) \/ RecordAgentOutcome(e) PROVE Acts!Next
  BY ZenonT(60), <1>5, ReleaseRefines DEF OutcomeLost, RecordAgentOutcome
<1>6. ASSUME NEW w \in Worker, WorkerCrash(w) PROVE Acts!Next
  BY Zenon, <1>6, ReleaseRefines DEF WorkerCrash
<1>7. ASSUME CoordinatorCrash PROVE Acts!Next
  BY ZenonT(60), <1>7, ReleaseRefines DEF CoordinatorCrash
<1>8. ASSUME NEW e \in Executor,
             \/ ReportRunning(e) \/ RunningLost(e) \/ Prepare(e) \/ StoppedByBudget(e)
             \/ ReportOutcome(e) \/ RenewLease(e)
      PROVE  [Acts!Next]_<<ActPhase, acts>>
  BY ZenonT(60), <1>1, <1>8 DEF ReportRunning, RunningLost, Prepare, SetRenderedPrompt,
                    CannotStart, StoppedByBudget, ReportOutcome, RenewLease
<1>9. ASSUME NEW t \in Tick,
             \/ BeginDispatch(t) \/ StopOffering(t) \/ DispatchTxFails(t) \/ TickFails(t)
             \/ EndDispatch(t) \/ Reap(t)
      PROVE  [Acts!Next]_<<ActPhase, acts>>
  <2>1. CASE BeginDispatch(t) \/ StopOffering(t)
    BY Zenon, <1>1, <2>1 DEF BeginDispatch, StopOffering
  <2>2. CASE DispatchTxFails(t) \/ TickFails(t)
    BY Zenon, <1>1, <2>2 DEF DispatchTxFails, TickFails
  <2>3. CASE EndDispatch(t)
    BY Zenon, <1>1, <2>3 DEF EndDispatch
  <2>4. CASE Reap(t)
    BY Zenon, <1>1, <2>4 DEF Reap
  <2> QED
    BY Zenon, <1>9, <2>1, <2>2, <2>3, <2>4
<1>10. ASSUME NEW t \in Tick, NEW r \in Run, NEW w \in Worker,
              OfferAccepted(t, r, w) \/ OfferDeclined(t, r, w) \/ OfferError(t, r, w)
       PROVE  [Acts!Next]_<<ActPhase, acts>>
  BY <1>1, <1>10, Zenon DEF OfferAccepted, OfferDeclined, OfferError
<1>11. ASSUME NEW r \in Run, CreateRun(r) \/ LeaseExpires(r)
       PROVE  [Acts!Next]_<<ActPhase, acts>>
  BY <1>1, <1>11, Zenon DEF CreateRun, LeaseExpires
<1>12. CASE UNCHANGED vars
  BY <1>1, <1>12, Zenon DEF vars
<1> QED
  BY <1>2, <1>3, <1>4, <1>5, <1>6, <1>7, <1>8, <1>9, <1>10, <1>11, <1>12, NextCases, ZenonT(60)

\* The tools of a run are run during one period, which never starts again.
THEOREM RunsRefinesAgentActs == Spec => RefinesAgentActs
<1>1. Init => Acts!Init
  BY Zenon DEF Init, Acts!Init, ActPhase
<1>2. TypeOK /\ ActInv /\ [Next]_vars => [Acts!Next]_<<ActPhase, acts>>
  BY NextRefines, Zenon
<1> QED
  BY <1>1, <1>2, RunsActInv, PTL DEF Spec, RefinesAgentActs, Acts!Spec
=============================================================================
