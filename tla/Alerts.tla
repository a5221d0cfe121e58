------------------------------- MODULE Alerts -------------------------------
(***************************************************************************)
(* Failure alerts: the two columns of an agent that count its failures and *)
(* remember that the operator was told, the reports and the reaper that    *)
(* write them, and the notifiers of ticks that may overlap.  A notifier    *)
(* reads all failing agents, then sends and marks them one by one, each in *)
(* a statement of its own.                                                 *)
(***************************************************************************)
EXTENDS Naturals, FiniteSets

CONSTANTS
    Agent,
    Notifier,     \* ticks that may be in Notifier.RunOnce at the same time
    Threshold,    \* FailureThreshold
    MaxFailures,  \* bound: consecutive failures of an agent
    MaxFaults,    \* bound: failed sends and statements, crashes
    None          \* no agent

ASSUME AlertsAssumption ==
    /\ Threshold \in Nat \ {0}
    /\ MaxFailures \in Nat
    /\ MaxFaults \in Nat
    /\ None \notin Agent
    /\ IsFiniteSet(Notifier)

VARIABLES
    failures,    \* agents.consecutive_failures
    notified,    \* agents whose failure_notified_at is set
    enabled,     \* users.failure_alerts_enabled
    token,       \* whether a bot token is stored among the secrets
    chat,        \* whether users.telegram_chat_id is set
    failing,     \* agents a notifier has read and not yet dealt with
    telling,     \* the agent whose alert it has delivered and not yet marked
    busy,        \* notifiers inside RunOnce
    faults,      \* faults so far
    \* history, for the properties only
    alerts,      \* alerts delivered about an agent since its last success
    unmarked,    \* those of them that no mark followed
    overtaken    \* agents that succeeded between an alert and its mark

agentVars == <<failures, notified>>
userVars == <<enabled, token, chat>>
notifierVars == <<failing, telling, busy>>
historyVars == <<alerts, unmarked, overtaken>>
vars == <<agentVars, userVars, notifierVars, faults, historyVars>>

Init ==
    /\ failures = [a \in Agent |-> 0]
    /\ notified = {}
    /\ enabled = TRUE
    /\ token = FALSE
    /\ chat = FALSE
    /\ failing = [n \in Notifier |-> {}]
    /\ telling = [n \in Notifier |-> None]
    /\ busy = {}
    /\ faults = 0
    /\ alerts = [a \in Agent |-> 0]
    /\ unmarked = [a \in Agent |-> 0]
    /\ overtaken = {}

Fault == faults < MaxFaults /\ faults' = faults + 1

-----------------------------------------------------------------------------
(* Outcomes of runs *)

\* Mutant: a success leaves the mark.
Recover_Marked(a) == failures' = [failures EXCEPT ![a] = 0] /\ UNCHANGED notified

\* recordAgentOutcome after a success: the count and the report are cleared.
Recover(a) == failures' = [failures EXCEPT ![a] = 0] /\ notified' = notified \ {a}

RunSucceeds(a) ==
    /\ Recover(a)
    /\ alerts' = [alerts EXCEPT ![a] = 0]
    /\ unmarked' = [unmarked EXCEPT ![a] = 0]
    /\ overtaken' = IF \E n \in Notifier : telling[n] = a THEN overtaken \cup {a} ELSE overtaken \ {a}
    /\ UNCHANGED <<userVars, notifierVars, faults>>

\* recordAgentOutcome after any other end, and the reaper, which counts one
\* failure for each of the agents whose runs it failed.
RunsFail(as) ==
    /\ \A a \in as : failures[a] < MaxFailures
    /\ failures' = [a \in Agent |-> IF a \in as THEN failures[a] + 1 ELSE failures[a]]
    /\ UNCHANGED <<notified, userVars, notifierVars, faults, historyVars>>

-----------------------------------------------------------------------------
(* The user's settings *)

\* SettingsStore.Update: both columns are written.
Update(on, to) ==
    /\ enabled' = on
    /\ chat' = to
    /\ UNCHANGED <<agentVars, token, notifierVars, faults, historyVars>>

\* handleUpdateSettings: whatever is sent or was read is written.
UpdateSettings == \E on, to \in BOOLEAN : Update(on, to)

\* handleDetectChat, with the token of a bot that somebody has written to; the
\* other setting is written back as it was read.
DetectChat ==
    /\ token
    /\ \E on \in BOOLEAN : Update(on, TRUE)

\* SecretStore.Put replaces, Delete wants a row.
Put == token' = TRUE
Delete == token /\ token' = FALSE

\* handlePutSecret and handleDeleteSecret of the bot token.
PutToken ==
    /\ Put
    /\ UNCHANGED <<agentVars, enabled, chat, notifierVars, faults, historyVars>>

DeleteToken ==
    /\ Delete
    /\ UNCHANGED <<agentVars, enabled, chat, notifierVars, faults, historyVars>>

\* TelegramDelivery: both halves are there.
Configured == token /\ chat

-----------------------------------------------------------------------------
(* Notifier.RunOnce *)

\* Mutant: agents already reported are read again.
ToReport_Again == {a \in Agent : enabled /\ failures[a] >= Threshold}

ToReport == {a \in Agent : enabled /\ failures[a] >= Threshold /\ a \notin notified}

\* The SELECT.
ReadFailing(n) ==
    /\ n \notin busy
    /\ busy' = busy \cup {n}
    /\ failing' = [failing EXCEPT ![n] = ToReport]
    /\ UNCHANGED <<agentVars, userVars, telling, faults, historyVars>>

\* send delivers the alert about an agent that was read.
Sent(n, a) ==
    /\ a \in failing[n]
    /\ telling[n] = None
    /\ Configured
    /\ failing' = [failing EXCEPT ![n] = @ \ {a}]
    /\ telling' = [telling EXCEPT ![n] = a]
    /\ alerts' = [alerts EXCEPT ![a] = @ + 1]
    /\ UNCHANGED <<agentVars, userVars, busy, faults, unmarked, overtaken>>

\* It returns an error: nothing is configured, the request failed, or the
\* alert was delivered and the answer lost.  The agent is left unmarked.
SendFails(n, a) ==
    /\ a \in failing[n]
    /\ telling[n] = None
    /\ \/ ~Configured /\ UNCHANGED <<faults, historyVars>>
       \/ /\ Configured
          /\ Fault
          /\ \/ UNCHANGED historyVars
             \/ /\ alerts' = [alerts EXCEPT ![a] = @ + 1]
                /\ unmarked' = [unmarked EXCEPT ![a] = @ + 1]
                /\ UNCHANGED overtaken
    /\ failing' = [failing EXCEPT ![n] = @ \ {a}]
    /\ UNCHANGED <<agentVars, userVars, telling, busy>>

\* The UPDATE that marks the agent, whatever has happened to it meanwhile.
MarkNotified(n) ==
    /\ telling[n] # None
    /\ notified' = notified \cup {telling[n]}
    /\ telling' = [telling EXCEPT ![n] = None]
    /\ UNCHANGED <<failures, userVars, failing, busy, faults, historyVars>>

\* The alerts of the notifiers ns stay unmarked, and they are done.
Abandon(ns) ==
    /\ unmarked' = [a \in Agent |-> IF \E n \in ns : telling[n] = a
                                    THEN unmarked[a] + Cardinality({n \in ns : telling[n] = a})
                                    ELSE unmarked[a]]
    /\ failing' = [n \in Notifier |-> IF n \in ns THEN {} ELSE failing[n]]
    /\ telling' = [n \in Notifier |-> IF n \in ns THEN None ELSE telling[n]]
    /\ busy' = busy \ ns

\* It fails, and RunOnce returns: the other agents wait for the next tick.
MarkFails(n) ==
    /\ telling[n] # None
    /\ Fault
    /\ Abandon({n})
    /\ UNCHANGED <<agentVars, userVars, alerts, overtaken>>

CoordinatorCrash ==
    /\ busy # {}
    /\ Fault
    /\ Abandon(Notifier)
    /\ UNCHANGED <<agentVars, userVars, alerts, overtaken>>

RunOnceReturns(n) ==
    /\ n \in busy
    /\ failing[n] = {}
    /\ telling[n] = None
    /\ busy' = busy \ {n}
    /\ UNCHANGED <<agentVars, userVars, failing, telling, faults, historyVars>>

-----------------------------------------------------------------------------
NotifierStep(n) ==
    \/ ReadFailing(n)
    \/ \E a \in Agent : Sent(n, a) \/ SendFails(n, a)
    \/ MarkNotified(n)
    \/ RunOnceReturns(n)

Next ==
    \/ \E a \in Agent : RunSucceeds(a)
    \/ \E as \in SUBSET Agent \ {{}} : RunsFail(as)
    \/ UpdateSettings
    \/ DetectChat
    \/ PutToken
    \/ DeleteToken
    \/ \E n \in Notifier : NotifierStep(n) \/ MarkFails(n)
    \/ CoordinatorCrash

Spec == Init /\ [][Next]_vars

\* The ticker keeps starting ticks, and a tick goes on once started.
FairSpec == Spec /\ \A n \in Notifier : WF_vars(NotifierStep(n))

-----------------------------------------------------------------------------
(* Properties *)

\* Between two successes the operator is told about an agent at most once per
\* overlapping tick, plus once for each alert whose mark failed: whoever marks
\* the agent keeps every later tick from reading it.
AlertsBoundedByOverlap ==
    \A a \in Agent : alerts[a] <= Cardinality(Notifier) + unmarked[a]

\* An agent that has reached the threshold does not stay unreported: the
\* operator is told in this series of failures and not only in an earlier one,
\* or it recovers, or the user has no alerts or no channel.  The exception is an
\* agent whose mark was written after the success that should have cleared it.
BrokenAgentIsReported ==
    \A a \in Agent :
        failures[a] >= Threshold ~>
            \/ alerts[a] > 0
            \/ a \in overtaken
            \/ failures[a] < Threshold
            \/ ~enabled
            \/ ~Configured

=============================================================================
