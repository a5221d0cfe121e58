---------------------------- MODULE Materializer ----------------------------
(***************************************************************************)
(* Schedules and the runs made from them: the handlers that save and       *)
(* delete a schedule, and the materializer of ticks that may overlap, each *)
(* of which has one transaction for all the schedules it finds due.        *)
(* Instants are naturals.  The clock on the wall skips GapLen readings at  *)
(* instant Gap and repeats FoldLen readings at instant Fold, the two       *)
(* daylight-saving transitions.  A cron expression is a set of readings of *)
(* a day.                                                                  *)
(***************************************************************************)
EXTENDS Integers, FiniteSets, FiniteSetsExt

CONSTANTS
    Schedule,     \* the schedules, one per agent
    Tick,         \* ticks that may materialize at the same time
    Crons,        \* the expressions a user saves
    Day,          \* readings of a day
    Gap, GapLen, Fold, FoldLen,
    Reference,    \* the instant checkGranularity starts from
    MinInterval,  \* MinimumInterval
    Grace,        \* GraceWindow
    MaxCatchUp,   \* maxCatchUpIterations
    Horizon,      \* bound: the last instant of a behaviour
    MaxSaves,     \* bound: how often schedules are saved
    MaxFaults,    \* bound: failed transactions, expressions that stop parsing
    Null          \* the SQL NULL, the zero time, no row

ASSUME MaterializerAssumption ==
    /\ \A n \in {Gap, GapLen, Fold, FoldLen, Reference, MinInterval, Grace, Horizon,
                 MaxSaves, MaxFaults} : n \in Nat
    /\ Day \in Nat \ {0}
    /\ MaxCatchUp \in Nat \ {0}
    /\ \A c \in Crons : c \subseteq 0 .. Day - 1
    /\ Null \notin Nat /\ Null \notin Crons

-----------------------------------------------------------------------------
(* Fire times *)

\* Spec.WallClock.
WallClock(t) ==
    t + (IF t >= Gap THEN GapLen ELSE 0) - (IF t >= Fold THEN FoldLen ELSE 0)

Matches(c, t) == WallClock(t) % Day \in c

\* The cron library: the first instant after t whose reading matches.  Every
\* reading comes up within two days, gap and fold included.
CronNext(c, t) ==
    LET later == {u \in (t + 1) .. (t + 2 * Day + FoldLen) : Matches(c, u)}
    IN  IF later = {} THEN Null ELSE Min(later)

\* Mutant: readings are not compared.
NextFire_NoWallCheck(c, after, lastWall) == CronNext(c, after)

\* Spec.Next: a fire time that reads like the last one is skipped, once.
NextFire(c, after, lastWall) ==
    LET candidate == CronNext(c, after)
    IN  IF candidate # Null /\ lastWall # Null /\ WallClock(candidate) = lastWall
          THEN CronNext(c, candidate)
          ELSE candidate

\* checkGranularity: the first gap after the reference instant decides.
CheckGranularity(c) ==
    LET first  == CronNext(c, Reference)
        second == CronNext(c, first)
    IN  first # Null /\ (second = Null \/ second - first >= MinInterval)

\* Mutant: a fire time that is now has not passed.
Passed_Strictly(f, at) == f # Null /\ f < at

Passed(f, at) == f # Null /\ f <= at

\* The next fire time, as resolveFireTimes asks for it.
Following == [c \in Crons |-> [f \in 0 .. Horizon |-> NextFire(c, f, WallClock(f))]]

\* resolveFireTimes: from one fire time to the next while that has passed too.
\* If it has in every round, the schedule is left without a next one.
ResolveFireTimes(c, from, at) ==
    LET fireAt[n \in 0 .. MaxCatchUp] ==
            IF n = 0 THEN from
            ELSE LET f == fireAt[n - 1]
                     g == Following[c][f]
                 IN  IF Passed(g, at) THEN g ELSE f
        last == fireAt[MaxCatchUp]
    IN  [at     |-> last,
         next   |-> IF last # fireAt[MaxCatchUp - 1] THEN Null ELSE Following[c][last],
         missed |-> at - last > Grace]

-----------------------------------------------------------------------------
VARIABLES
    now,           \* the clock
    \* the schedules table, by schedule
    cron,          \* cron_expression; Null if there is no row
    enabled,       \* its enabled column and the agent's
    nextFireAt,    \* next_fire_at
    lastFiredAt,   \* last_fired_at
    lastFiredWall, \* last_fired_wall; Null is the empty string
    missed,        \* schedules whose last run was recorded as missed
    unreadable,    \* schedules whose expression or zone no longer parses
    \* the API
    save,          \* what a save has computed and not yet written
    saves,         \* saves so far
    savedSince,    \* history: saved or deleted since the last run was made
    \* the ticks
    locked,        \* rows the open transaction of a tick has selected and locked
    asOf,          \* the now of its RunOnce
    faults         \* faults so far

rowVars == <<cron, enabled, nextFireAt, lastFiredAt, lastFiredWall, missed>>
saveVars == <<save, saves, savedSince>>
tickVars == <<locked, asOf>>
vars == <<now, rowVars, unreadable, saveVars, tickVars, faults>>

Init ==
    /\ now = 0
    /\ cron = [s \in Schedule |-> Null]
    /\ enabled = {}
    /\ nextFireAt = [s \in Schedule |-> Null]
    /\ lastFiredAt = [s \in Schedule |-> Null]
    /\ lastFiredWall = [s \in Schedule |-> Null]
    /\ missed = {}
    /\ unreadable = {}
    /\ save = Null
    /\ saves = 0
    /\ savedSince = {}
    /\ locked = [t \in Tick |-> {}]
    /\ asOf = [t \in Tick |-> 0]
    /\ faults = 0

TimePasses ==
    /\ now < Horizon
    /\ now' = now + 1
    /\ UNCHANGED <<rowVars, unreadable, saveVars, tickVars, faults>>

Fault == faults < MaxFaults /\ faults' = faults + 1

\* The zone goes from the host's data, or a release parses more strictly.
StopsParsing(s) ==
    /\ cron[s] # Null
    /\ s \notin unreadable
    /\ Fault
    /\ unreadable' = unreadable \cup {s}
    /\ UNCHANGED <<now, rowVars, saveVars, tickVars>>

Locked(s) == \E t \in Tick : s \in locked[t]

-----------------------------------------------------------------------------
(* The API *)

\* handleSetSchedule validates the expression and computes the first fire.
PrepareSave(s, c) ==
    /\ save = Null
    /\ saves < MaxSaves
    /\ CheckGranularity(c)
    /\ NextFire(c, now, Null) # Null
    /\ save' = [schedule |-> s, cron |-> c, next |-> NextFire(c, now, Null)]
    /\ UNCHANGED <<now, rowVars, unreadable, saves, savedSince, tickVars, faults>>

\* ScheduleStore.Upsert, which waits for the row lock.
Upsert ==
    /\ save # Null
    /\ ~Locked(save.schedule)
    /\ cron' = [cron EXCEPT ![save.schedule] = save.cron]
    /\ enabled' \in {enabled \cup {save.schedule}, enabled \ {save.schedule}}
    /\ nextFireAt' = [nextFireAt EXCEPT ![save.schedule] = save.next]
    /\ lastFiredWall' = [lastFiredWall EXCEPT ![save.schedule] = Null]
    /\ unreadable' = unreadable \ {save.schedule}
    /\ save' = Null
    /\ saves' = saves + 1
    /\ savedSince' = savedSince \cup {save.schedule}
    /\ UNCHANGED <<now, lastFiredAt, missed, tickVars, faults>>

\* The row goes, its runs stay.
DeleteSchedule(s) ==
    /\ cron[s] # Null
    /\ ~Locked(s)
    /\ cron' = [cron EXCEPT ![s] = Null]
    /\ enabled' = enabled \ {s}
    /\ nextFireAt' = [nextFireAt EXCEPT ![s] = Null]
    /\ lastFiredAt' = [lastFiredAt EXCEPT ![s] = Null]
    /\ lastFiredWall' = [lastFiredWall EXCEPT ![s] = Null]
    /\ unreadable' = unreadable \ {s}
    /\ savedSince' = savedSince \ {s}
    /\ missed' = missed \ {s}
    /\ UNCHANGED <<now, save, saves, tickVars, faults>>

-----------------------------------------------------------------------------
(* Materializer.RunOnce *)

Due(s) == s \in enabled /\ nextFireAt[s] # Null /\ nextFireAt[s] <= now

\* The SELECT locks every row that is due and not locked.
SelectDue(t) ==
    /\ locked[t] = {}
    /\ \E s \in Schedule : Due(s) /\ ~Locked(s)
    /\ locked' = [locked EXCEPT ![t] = {s \in Schedule : Due(s) /\ ~Locked(s)}]
    /\ asOf' = [asOf EXCEPT ![t] = now]
    /\ UNCHANGED <<now, rowVars, unreadable, saveVars, faults>>

\* Its transaction is over, and its locks go.
Unlock(t) ==
    /\ locked' = [locked EXCEPT ![t] = {}]
    /\ asOf' = [asOf EXCEPT ![t] = 0]

\* Mutant: one schedule that does not parse ends the loop.
Readable_AllOrNone(t) == IF locked[t] \cap unreadable = {} THEN locked[t] ELSE {}

\* A schedule that does not parse is left as it is, and the loop goes on.
Readable(t) == locked[t] \ unreadable

Resolved(t, s) == ResolveFireTimes(cron[s], nextFireAt[s], asOf[t])

\* Mutant: next_fire_at stays as it was.
Advanced_Forgotten(t, s) == nextFireAt[s]

Advanced(t, s) == Resolved(t, s).next

\* The loop over the schedules and the commit: each gets a run, pending or
\* missed, and goes on to its next fire time.  What the loop reads is locked,
\* and what it writes is not seen before the commit.
Materialize(t) ==
    /\ locked[t] # {}
    /\ LET fired == Readable(t) IN
         /\ nextFireAt' = [s \in Schedule |-> IF s \in fired THEN Advanced(t, s) ELSE nextFireAt[s]]
         /\ lastFiredAt' = [s \in Schedule |-> IF s \in fired THEN Resolved(t, s).at
                                               ELSE lastFiredAt[s]]
         /\ lastFiredWall' = [s \in Schedule |-> IF s \in fired THEN WallClock(Resolved(t, s).at)
                                                 ELSE lastFiredWall[s]]
         /\ missed' = (missed \ fired) \cup {s \in fired : Resolved(t, s).missed}
         /\ savedSince' = savedSince \ fired
    /\ Unlock(t)
    /\ UNCHANGED <<now, cron, enabled, unreadable, save, saves, faults>>

\* A statement or the commit fails: nothing of it remains, for any of them.
MaterializeFails(t) ==
    /\ locked[t] # {}
    /\ Fault
    /\ Unlock(t)
    /\ UNCHANGED <<now, rowVars, unreadable, saveVars>>

-----------------------------------------------------------------------------
\* The clock has reached the bound and everything is done.
Finished == now = Horizon /\ UNCHANGED vars

Next ==
    \/ TimePasses
    \/ \E s \in Schedule : \/ \E c \in Crons : PrepareSave(s, c)
                           \/ DeleteSchedule(s)
                           \/ StopsParsing(s)
    \/ Upsert
    \/ \E t \in Tick : SelectDue(t) \/ Materialize(t) \/ MaterializeFails(t)
    \/ Finished

Spec == Init /\ [][Next]_vars

\* Ticks keep coming, and a transaction that is open goes on.
Fairness ==
    /\ WF_vars(\E t \in Tick : SelectDue(t))
    /\ \A t \in Tick : WF_vars(Materialize(t))

FairSpec == Spec /\ Fairness

-----------------------------------------------------------------------------
(* Properties *)

\* Tick t makes a run of schedule s.
Makes(t, s) == s \in Readable(t) /\ locked'[t] = {} /\ faults' = faults

\* The fire times of a schedule increase from run to run, however ticks overlap
\* and their transactions fail: no fire time gets two runs, unless the schedule
\* was saved in between.
FiresOnce ==
    [][\A t \in Tick, s \in Schedule :
           Makes(t, s) /\ lastFiredAt[s] # Null /\ s \notin savedSince =>
               lastFiredAt'[s] > lastFiredAt[s]]_vars

\* No run reads like the one before it: the reading repeated by the fold fires
\* once, unless the schedule was saved in between.
NoRepeatedReading ==
    [][\A t \in Tick, s \in Schedule :
           Makes(t, s) /\ lastFiredWall[s] # Null => lastFiredWall'[s] # lastFiredWall[s]]_vars

\* A run stands for the last fire time up to the tick's now, and the schedule
\* goes on with the first one after it: the only fire times passed over are
\* those an outage collapsed into this run, and a repeated reading.  Only an
\* outage of more than MaxCatchUp fire times leaves no next one.  A run is not
\* missed while one of the fire times it stands for is fresh, but for a
\* repeated reading.
CatchUpIsExact ==
    [][\A t \in Tick, s \in Schedule : Makes(t, s) =>
        LET passed == {u \in nextFireAt[s] .. asOf[t] : Matches(cron[s], u)}
            at     == lastFiredAt'[s]
            next   == nextFireAt'[s]
        IN  /\ at \in passed
            /\ IF next = Null
                 THEN Cardinality(passed) > MaxCatchUp
                 ELSE /\ next > asOf[t] /\ Matches(cron[s], next)
                      /\ \A u \in (at + 1) .. (next - 1) :
                             Matches(cron[s], u) => WallClock(u) = WallClock(at)
                      /\ s \in missed' =>
                             \A u \in passed : asOf[t] - u <= Grace => WallClock(u) = WallClock(at)
       ]_vars

\* A schedule that is due is materialized, deleted, disabled or put off, even if
\* it shares every transaction with one that does not parse; unless it does not
\* parse itself.
DueIsMaterialized ==
    \A s \in Schedule : Due(s) ~> ~Due(s) \/ s \in unreadable

=============================================================================
