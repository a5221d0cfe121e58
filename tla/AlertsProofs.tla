---------------------------- MODULE AlertsProofs ----------------------------
(***************************************************************************)
(* Theorems about Alerts, for any number of agents, overlapping notifiers, *)
(* failures and faults.                                                    *)
(*                                                                         *)
(* The bound on alerts is not inductive: it has to be kept by notifiers    *)
(* that read an agent before it was marked and have not told yet.  While   *)
(* an agent is not marked, every alert that still may be is with the       *)
(* notifier that sent it.  Once it is marked nobody reads it any more, so  *)
(* that what is still to come is what notifiers have read (AlertsInv).     *)
(***************************************************************************)
EXTENDS Alerts, FiniteSetTheorems, TLAPS

\* Notifiers that have read the agent, or told about it and not yet marked it.
HaveRead(a) == {n \in Notifier : a \in failing[n]}
HaveTold(a) == {n \in Notifier : telling[n] = a}

TypeInv ==
    /\ notified \subseteq Agent
    /\ failing \in [Notifier -> SUBSET Agent]
    /\ telling \in [Notifier -> Agent \cup {None}]
    /\ busy \subseteq Notifier
    /\ alerts \in [Agent -> Nat]
    /\ unmarked \in [Agent -> Nat]

\* A notifier tells of nothing it has still to deal with, and one that is not in
\* RunOnce has nothing to do.
NotifierInv ==
    \A n \in Notifier :
        /\ telling[n] \notin failing[n]
        /\ n \notin busy => failing[n] = {} /\ telling[n] = None

\* What can still be told about an agent, beyond the alerts whose mark failed.
Bounded(a) ==
    IF a \in notified
      THEN alerts[a] + Cardinality(HaveRead(a)) <= unmarked[a] + Cardinality(Notifier)
      ELSE alerts[a] <= unmarked[a] + Cardinality(HaveTold(a))

AlertsInv == \A a \in Agent : Bounded(a)

-----------------------------------------------------------------------------
(* Sets of notifiers *)

LEMMA SetOfNotifiers ==
    ASSUME AlertsAssumption, NEW S, S \subseteq Notifier
    PROVE  /\ IsFiniteSet(S) /\ Cardinality(S) \in Nat /\ Cardinality(Notifier) \in Nat
           /\ Cardinality(S) <= Cardinality(Notifier)
<1>1. IsFiniteSet(Notifier)
  BY DEF AlertsAssumption
<1>2. IsFiniteSet(S)
  BY <1>1, FS_Subset
<1>3. Cardinality(S) <= Cardinality(Notifier)
  BY <1>1, FS_Subset
<1>4. Cardinality(S) \in Nat /\ Cardinality(Notifier) \in Nat
  BY <1>1, <1>2, FS_CardinalityType
<1> QED
  BY <1>2, <1>3, <1>4

LEMMA HaveSizes ==
    ASSUME AlertsAssumption, NEW a
    PROVE  /\ Cardinality(HaveRead(a)) \in Nat /\ Cardinality(HaveTold(a)) \in Nat
           /\ Cardinality(HaveRead(a))' \in Nat /\ Cardinality(HaveTold(a))' \in Nat
           /\ IsFiniteSet(HaveRead(a)) /\ IsFiniteSet(HaveTold(a))
           /\ Cardinality(HaveTold(a)) <= Cardinality(Notifier) /\ Cardinality(Notifier) \in Nat
<1>1. HaveRead(a) \subseteq Notifier /\ HaveTold(a) \subseteq Notifier
  BY DEF HaveRead, HaveTold
<1>2. HaveRead(a)' \subseteq Notifier /\ HaveTold(a)' \subseteq Notifier
  BY DEF HaveRead, HaveTold
<1>3. /\ IsFiniteSet(HaveRead(a)) /\ Cardinality(HaveRead(a)) \in Nat
      /\ Cardinality(Notifier) \in Nat
  BY <1>1, SetOfNotifiers
<1>4. /\ IsFiniteSet(HaveTold(a)) /\ Cardinality(HaveTold(a)) \in Nat
      /\ Cardinality(HaveTold(a)) <= Cardinality(Notifier)
  BY <1>1, SetOfNotifiers
<1>5. Cardinality(HaveRead(a)') \in Nat
  BY <1>2, SetOfNotifiers
<1>6. Cardinality(HaveTold(a)') \in Nat
  BY <1>2, SetOfNotifiers
<1> QED
  BY <1>3, <1>4, <1>5, <1>6

\* Nobody who told about an agent has still to do so.
LEMMA ReadOrTold ==
    ASSUME AlertsAssumption, NotifierInv, NEW a
    PROVE  Cardinality(HaveTold(a)) + Cardinality(HaveRead(a)) <= Cardinality(Notifier)
<1> DEFINE R == HaveRead(a)
           T == HaveTold(a)
<1>1. R \cap T = {} /\ R \subseteq Notifier /\ T \subseteq Notifier
  BY DEF HaveRead, HaveTold, NotifierInv
<1>2. IsFiniteSet(R) /\ IsFiniteSet(T)
  BY HaveSizes
<1> HIDE DEF R, T
<1>3. Cardinality(T \cup R) = Cardinality(T) + Cardinality(R) - Cardinality(T \cap R)
  BY <1>2, FS_Union, Zenon
<1>4. Cardinality(T \cap R) = 0
  <2>1. T \cap R = {}
    BY <1>1
  <2> QED
    BY <2>1, FS_EmptySet
<1>5. Cardinality(T \cup R) <= Cardinality(Notifier)
  BY <1>1, SetOfNotifiers
<1>6. Cardinality(T) \in Nat /\ Cardinality(R) \in Nat /\ Cardinality(Notifier) \in Nat
  BY <1>1, SetOfNotifiers
<1>7. Cardinality(T) + Cardinality(R) <= Cardinality(Notifier)
  BY <1>3, <1>4, <1>5, <1>6
<1> QED
  BY <1>7 DEF R, T

-----------------------------------------------------------------------------
(* Steps *)

\* Nothing of an agent's alerts changes, and no notifier has read it meanwhile
\* unless it is unmarked.
LEMMA SameAlerts ==
    ASSUME AlertsAssumption, TypeInv, NEW a \in Agent, Bounded(a),
           alerts'[a] = alerts[a], unmarked'[a] = unmarked[a],
           a \in notified' <=> a \in notified,
           HaveTold(a)' = HaveTold(a),
           a \in notified => HaveRead(a)' = HaveRead(a)
    PROVE  Bounded(a)'
BY DEF Bounded

\* Types.
LEMMA TypeStep ==
    ASSUME AlertsAssumption, TypeInv, NotifierInv, [Next]_vars
    PROVE  TypeInv' /\ NotifierInv'
<1>1. ASSUME NEW a \in Agent, RunSucceeds(a) PROVE TypeInv' /\ NotifierInv'
  BY <1>1 DEF RunSucceeds, Recover, userVars, notifierVars, TypeInv, NotifierInv
<1>2. ASSUME NEW as, RunsFail(as) PROVE TypeInv' /\ NotifierInv'
  BY <1>2 DEF RunsFail, userVars, notifierVars, historyVars, TypeInv, NotifierInv
<1>3. CASE UpdateSettings \/ DetectChat \/ PutToken \/ DeleteToken
  BY <1>3 DEF UpdateSettings, DetectChat, PutToken, DeleteToken, Update, agentVars,
              notifierVars, historyVars, TypeInv, NotifierInv
<1>4. ASSUME NEW n \in Notifier, ReadFailing(n) PROVE TypeInv' /\ NotifierInv'
  <2>1. ToReport \subseteq Agent /\ None \notin ToReport
    BY DEF ToReport, AlertsAssumption
  <2> QED
    BY <1>4, <2>1 DEF ReadFailing, agentVars, historyVars, TypeInv, NotifierInv
<1>5. ASSUME NEW n \in Notifier, NEW a \in Agent, Sent(n, a) PROVE TypeInv' /\ NotifierInv'
  BY <1>5 DEF Sent, agentVars, TypeInv, NotifierInv
<1>6. ASSUME NEW n \in Notifier, NEW a \in Agent, SendFails(n, a) PROVE TypeInv' /\ NotifierInv'
  <2>1. alerts' \in [Agent -> Nat] /\ unmarked' \in [Agent -> Nat]
    BY <1>6 DEF SendFails, historyVars, TypeInv
  <2>2. /\ failing' = [failing EXCEPT ![n] = @ \ {a}]
        /\ UNCHANGED <<notified, telling, busy>>
    BY <1>6 DEF SendFails, agentVars
  <2> QED
    BY <2>1, <2>2 DEF TypeInv, NotifierInv
<1>7. ASSUME NEW n \in Notifier, MarkNotified(n) PROVE TypeInv' /\ NotifierInv'
  BY <1>7 DEF MarkNotified, historyVars, AlertsAssumption, TypeInv, NotifierInv
<1>8. ASSUME NEW ns \in SUBSET Notifier, Abandon(ns), UNCHANGED <<agentVars, alerts>>
      PROVE  TypeInv' /\ NotifierInv'
  <2>1. \A a \in Agent : Cardinality({n \in ns : telling[n] = a}) \in Nat
    <3> SUFFICES ASSUME NEW a \in Agent PROVE Cardinality({n \in ns : telling[n] = a}) \in Nat
      OBVIOUS
    <3>1. {n \in ns : telling[n] = a} \subseteq Notifier
      OBVIOUS
    <3> QED
      BY <3>1, SetOfNotifiers
  <2>2. unmarked' \in [Agent -> Nat]
    BY <1>8, <2>1 DEF Abandon, TypeInv
  <2> QED
    BY <1>8, <2>2 DEF Abandon, agentVars, TypeInv, NotifierInv
<1>9. ASSUME NEW n \in Notifier, MarkFails(n) PROVE TypeInv' /\ NotifierInv'
  BY <1>8, <1>9 DEF MarkFails
<1>10. CASE CoordinatorCrash
  BY <1>8, <1>10 DEF CoordinatorCrash
<1>11. ASSUME NEW n \in Notifier, RunOnceReturns(n) PROVE TypeInv' /\ NotifierInv'
  BY <1>11 DEF RunOnceReturns, agentVars, historyVars, TypeInv, NotifierInv
<1>12. CASE UNCHANGED vars
  BY <1>12 DEF vars, agentVars, notifierVars, historyVars, TypeInv, NotifierInv
<1> QED
  BY <1>1, <1>2, <1>3, <1>4, <1>5, <1>6, <1>7, <1>9, <1>10, <1>11, <1>12 DEF Next, NotifierStep

\* The alerts of every agent stay bounded.
LEMMA AlertsStep ==
    ASSUME AlertsAssumption, TypeInv, TypeInv', NotifierInv, AlertsInv, [Next]_vars
    PROVE  AlertsInv'
<1> SUFFICES ASSUME NEW b \in Agent PROVE Bounded(b)'
  BY DEF AlertsInv
<1>1. /\ Bounded(b) /\ alerts[b] \in Nat /\ unmarked[b] \in Nat
      /\ alerts'[b] \in Nat /\ unmarked'[b] \in Nat
  BY DEF AlertsInv, TypeInv
<1>2. /\ Cardinality(HaveRead(b)) \in Nat /\ Cardinality(HaveTold(b)) \in Nat
      /\ Cardinality(HaveRead(b)') \in Nat /\ Cardinality(HaveTold(b)') \in Nat
      /\ IsFiniteSet(HaveRead(b)) /\ IsFiniteSet(HaveTold(b))
      /\ Cardinality(Notifier) \in Nat
  BY HaveSizes
<1>3. ASSUME UNCHANGED <<notified, failing, telling, alerts, unmarked>> PROVE Bounded(b)'
  <2>1. HaveTold(b)' = HaveTold(b) /\ HaveRead(b)' = HaveRead(b)
    BY <1>3 DEF HaveTold, HaveRead
  <2> QED
    BY <1>1, <1>3, <2>1, SameAlerts
<1>4. ASSUME NEW a \in Agent, RunSucceeds(a) PROVE Bounded(b)'
  <2>1. /\ alerts' = [alerts EXCEPT ![a] = 0] /\ unmarked' = [unmarked EXCEPT ![a] = 0]
        /\ notified' = notified \ {a} /\ UNCHANGED <<failing, telling>>
    BY <1>4 DEF RunSucceeds, Recover, notifierVars
  <2>2. HaveTold(b)' = HaveTold(b) /\ HaveRead(b)' = HaveRead(b)
    BY <2>1 DEF HaveTold, HaveRead
  <2>3. CASE a = b
    <3>1. b \notin notified' /\ alerts'[b] = 0
      BY <2>1, <2>3 DEF TypeInv
    <3> QED
      BY <1>1, <1>2, <3>1 DEF Bounded
  <2>4. CASE a # b
    <3>1. /\ alerts'[b] = alerts[b] /\ unmarked'[b] = unmarked[b]
          /\ b \in notified' <=> b \in notified
      BY <2>1, <2>4 DEF TypeInv
    <3> QED
      BY <1>1, <2>2, <3>1, SameAlerts
  <2> QED
    BY <2>3, <2>4
<1>5. ASSUME NEW n \in Notifier, ReadFailing(n) PROVE Bounded(b)'
  <2>1. /\ failing' = [failing EXCEPT ![n] = ToReport] /\ n \notin busy
        /\ UNCHANGED <<notified, telling, alerts, unmarked>>
    BY <1>5 DEF ReadFailing, agentVars, historyVars
  <2>2. HaveTold(b)' = HaveTold(b)
    BY <2>1 DEF HaveTold
  <2>3. b \in notified => HaveRead(b)' = HaveRead(b)
    <3> SUFFICES ASSUME b \in notified PROVE HaveRead(b)' = HaveRead(b)
      OBVIOUS
    <3>1. b \notin ToReport /\ failing[n] = {}
      BY <2>1 DEF ToReport, NotifierInv
    <3>2. \A m \in Notifier : b \in failing'[m] <=> b \in failing[m]
      BY <2>1, <3>1 DEF TypeInv
    <3> QED
      BY <3>2 DEF HaveRead
  <2> QED
    BY <1>1, <2>1, <2>2, <2>3, SameAlerts
<1>6. ASSUME NEW n \in Notifier, NEW a \in Agent, a \in failing[n],
             failing' = [failing EXCEPT ![n] = @ \ {a}]
      PROVE  IF a = b THEN HaveRead(b)' = HaveRead(b) \ {n} /\ n \in HaveRead(b)
                      ELSE HaveRead(b)' = HaveRead(b)
  <2>1. \A m \in Notifier : b \in failing'[m] <=> b \in failing[m] /\ ~(m = n /\ a = b)
    BY <1>6 DEF TypeInv
  <2> QED
    BY <1>6, <2>1 DEF HaveRead
<1>7. ASSUME NEW n, n \in HaveRead(b), HaveRead(b)' = HaveRead(b) \ {n}
      PROVE  Cardinality(HaveRead(b)') = Cardinality(HaveRead(b)) - 1
  <2> DEFINE R == HaveRead(b)
  <2>1. IsFiniteSet(R) /\ n \in R
    BY <1>2, <1>7
  <2> HIDE DEF R
  <2>2. Cardinality(R \ {n}) = Cardinality(R) - 1
    BY <2>1, FS_RemoveElement
  <2> QED
    BY <1>7, <2>2 DEF R
<1>8. ASSUME NEW n \in Notifier, NEW a \in Agent, Sent(n, a) PROVE Bounded(b)'
  <2>1. /\ a \in failing[n] /\ telling[n] = None
        /\ failing' = [failing EXCEPT ![n] = @ \ {a}]
        /\ telling' = [telling EXCEPT ![n] = a]
        /\ alerts' = [alerts EXCEPT ![a] = @ + 1]
        /\ UNCHANGED <<notified, unmarked>>
    BY <1>8 DEF Sent, agentVars
  <2>2. b # None
    BY DEF AlertsAssumption
  <2>3. CASE a = b
    <3>1. alerts'[b] = alerts[b] + 1 /\ unmarked'[b] = unmarked[b]
      BY <2>1, <2>3 DEF TypeInv
    <3>2. Cardinality(HaveRead(b)') = Cardinality(HaveRead(b)) - 1
      BY <1>6, <1>7, <2>1, <2>3
    <3>3. HaveTold(b)' = HaveTold(b) \cup {n} /\ n \notin HaveTold(b)
      BY <2>1, <2>2, <2>3 DEF HaveTold, TypeInv
    <3>4. Cardinality(HaveTold(b)') = Cardinality(HaveTold(b)) + 1
      BY <1>2, <3>3, FS_AddElement
    <3> QED
      BY <1>1, <1>2, <2>1, <3>1, <3>2, <3>4 DEF Bounded
  <2>4. CASE a # b
    <3>1. alerts'[b] = alerts[b] /\ unmarked'[b] = unmarked[b]
      BY <2>1, <2>4 DEF TypeInv
    <3>2. HaveRead(b)' = HaveRead(b)
      BY <1>6, <2>1, <2>4
    <3>3. HaveTold(b)' = HaveTold(b)
      BY <2>1, <2>2, <2>4 DEF HaveTold, TypeInv
    <3> QED
      BY <1>1, <2>1, <3>1, <3>2, <3>3, SameAlerts
  <2> QED
    BY <2>3, <2>4
<1>9. ASSUME NEW n \in Notifier, NEW a \in Agent, SendFails(n, a) PROVE Bounded(b)'
  <2>1. /\ a \in failing[n] /\ failing' = [failing EXCEPT ![n] = @ \ {a}]
        /\ UNCHANGED <<notified, telling>>
    BY <1>9 DEF SendFails, agentVars
  <2>2. \/ alerts'[b] = alerts[b] /\ unmarked'[b] = unmarked[b]
        \/ alerts'[b] = alerts[b] + 1 /\ unmarked'[b] = unmarked[b] + 1
    BY <1>9 DEF SendFails, historyVars, TypeInv
  <2>3. HaveTold(b)' = HaveTold(b)
    BY <2>1 DEF HaveTold
  <2>4. Cardinality(HaveRead(b)') <= Cardinality(HaveRead(b))
    <3>1. CASE a = b
      <4>1. Cardinality(HaveRead(b)') = Cardinality(HaveRead(b)) - 1
        BY <1>6, <1>7, <2>1, <3>1
      <4> QED
        BY <1>2, <4>1
    <3>2. CASE a # b
      <4>1. HaveRead(b)' = HaveRead(b)
        BY <1>6, <2>1, <3>2
      <4> QED
        BY <1>2, <4>1
    <3> QED
      BY <3>1, <3>2
  <2> QED
    BY <1>1, <1>2, <2>1, <2>2, <2>3, <2>4 DEF Bounded
<1>10. ASSUME NEW n \in Notifier, MarkNotified(n) PROVE Bounded(b)'
  <2>1. /\ telling[n] # None /\ notified' = notified \cup {telling[n]}
        /\ telling' = [telling EXCEPT ![n] = None]
        /\ UNCHANGED <<failing, alerts, unmarked>>
    BY <1>10 DEF MarkNotified, historyVars
  <2>2. HaveRead(b)' = HaveRead(b)
    BY <2>1 DEF HaveRead
  <2>3. Cardinality(HaveTold(b)) + Cardinality(HaveRead(b)) <= Cardinality(Notifier)
    BY ReadOrTold
  <2>4. CASE telling[n] = b
    <3>1. b \in notified'
      BY <2>1, <2>4
    <3>2. alerts[b] + Cardinality(HaveRead(b)) <= unmarked[b] + Cardinality(Notifier)
      BY <1>1, <1>2, <2>3 DEF Bounded
    <3> QED
      BY <2>1, <2>2, <3>1, <3>2 DEF Bounded
  <2>5. CASE telling[n] # b
    <3>1. HaveTold(b)' = HaveTold(b)
      BY <2>1, <2>5 DEF HaveTold, TypeInv, AlertsAssumption
    <3>2. b \in notified' <=> b \in notified
      BY <2>1, <2>5
    <3> QED
      BY <1>1, <2>1, <2>2, <3>1, <3>2, SameAlerts
  <2> QED
    BY <2>4, <2>5
<1>11. ASSUME NEW ns \in SUBSET Notifier, Abandon(ns), UNCHANGED <<agentVars, alerts>>
       PROVE  Bounded(b)'
  <2> DEFINE T == HaveTold(b)
             U == {n \in ns : telling[n] = b}
  <2>1. U \subseteq T /\ T \subseteq Notifier /\ U \subseteq Notifier
    BY DEF HaveTold
  <2>2. HaveTold(b)' = T \ U
    BY <1>11 DEF Abandon, HaveTold, AlertsAssumption
  <2>3. unmarked'[b] = unmarked[b] + Cardinality(U)
    <3>1. unmarked'[b] = IF \E n \in ns : telling[n] = b
                         THEN unmarked[b] + Cardinality(U) ELSE unmarked[b]
      BY <1>11 DEF Abandon
    <3>2. CASE U = {}
      <4>1. unmarked'[b] = unmarked[b]
        BY <3>1, <3>2
      <4>2. Cardinality(U) = 0
        BY <3>2, FS_EmptySet, Zenon
      <4> QED
        BY <1>1, <4>1, <4>2
    <3>3. CASE U # {}
      BY <3>1, <3>3
    <3> QED
      BY <3>2, <3>3
  <2>4. HaveRead(b)' \subseteq HaveRead(b)
    BY <1>11 DEF Abandon, HaveRead
  <2>5. Cardinality(HaveRead(b)') <= Cardinality(HaveRead(b))
    BY <1>2, <2>4, FS_Subset
  <2> HIDE DEF T, U
  <2>6. IsFiniteSet(T) /\ IsFiniteSet(U) /\ Cardinality(T) \in Nat /\ Cardinality(U) \in Nat
    <3>1. IsFiniteSet(T) /\ Cardinality(T) \in Nat
      BY <2>1, SetOfNotifiers
    <3>2. IsFiniteSet(U) /\ Cardinality(U) \in Nat
      BY <2>1, SetOfNotifiers
    <3> QED
      BY <3>1, <3>2
  <2>7. Cardinality(T \ U) = Cardinality(T) - Cardinality(U)
    <3>1. Cardinality(T \ U) = Cardinality(T) - Cardinality(T \cap U)
      BY <2>6, FS_Difference, Zenon
    <3>2. T \cap U = U
      BY <2>1
    <3> QED
      BY <3>1, <3>2
  <2>8. UNCHANGED <<notified, alerts>>
    BY <1>11 DEF agentVars
  <2>9. Cardinality(HaveTold(b)') = Cardinality(HaveTold(b)) - Cardinality(U)
    BY <2>2, <2>7 DEF T
  <2> QED
    BY <1>1, <1>2, <2>3, <2>5, <2>6, <2>8, <2>9 DEF Bounded
<1>12. ASSUME NEW n \in Notifier, MarkFails(n) PROVE Bounded(b)'
  BY <1>11, <1>12 DEF MarkFails
<1>13. CASE CoordinatorCrash
  BY <1>11, <1>13 DEF CoordinatorCrash
<1>14. CASE UpdateSettings \/ DetectChat \/ PutToken \/ DeleteToken \/ UNCHANGED vars
  BY <1>3, <1>14 DEF UpdateSettings, DetectChat, PutToken, DeleteToken, Update, agentVars,
                     notifierVars, historyVars, vars
<1>15. ASSUME NEW as, RunsFail(as) PROVE Bounded(b)'
  BY <1>3, <1>15 DEF RunsFail, notifierVars, historyVars
<1>16. ASSUME NEW n \in Notifier, RunOnceReturns(n) PROVE Bounded(b)'
  BY <1>3, <1>16 DEF RunOnceReturns, agentVars, historyVars
<1> QED
  BY <1>4, <1>5, <1>8, <1>9, <1>10, <1>12, <1>13, <1>14, <1>15, <1>16 DEF Next, NotifierStep

-----------------------------------------------------------------------------
(* Theorems *)

\* The inductive invariant holds throughout.
LEMMA AlertsInvariant ==
    Spec => [](TypeInv /\ NotifierInv /\ AlertsInv)
<1>1. Init => TypeInv /\ NotifierInv /\ AlertsInv
  <2> SUFFICES ASSUME Init PROVE TypeInv /\ NotifierInv /\ AlertsInv
    OBVIOUS
  <2>1. TypeInv /\ NotifierInv
    BY DEF Init, TypeInv, NotifierInv
  <2>2. \A a \in Agent : Cardinality(HaveTold(a)) \in Nat
    BY HaveSizes, AlertsAssumption
  <2> QED
    BY <2>1, <2>2 DEF Init, AlertsInv, Bounded
<1>2. TypeInv /\ NotifierInv /\ AlertsInv /\ [Next]_vars => (TypeInv /\ NotifierInv /\ AlertsInv)'
  BY TypeStep, AlertsStep, AlertsAssumption
<1> QED
  BY <1>1, <1>2, PTL DEF Spec

\* Notifier.RunOnce tells the operator about an agent at most once per
\* overlapping tick, and once more for each alert whose mark failed.
THEOREM AlertsAreBounded ==
    Spec => []AlertsBoundedByOverlap
<1>1. TypeInv /\ NotifierInv /\ AlertsInv => AlertsBoundedByOverlap
  <2> SUFFICES ASSUME TypeInv, AlertsInv, NEW a \in Agent
               PROVE  alerts[a] <= Cardinality(Notifier) + unmarked[a]
    BY DEF AlertsBoundedByOverlap
  <2>1. Bounded(a) /\ alerts[a] \in Nat /\ unmarked[a] \in Nat
    BY DEF AlertsInv, TypeInv
  <2>2. /\ Cardinality(HaveRead(a)) \in Nat /\ Cardinality(HaveTold(a)) \in Nat
        /\ Cardinality(HaveTold(a)) <= Cardinality(Notifier) /\ Cardinality(Notifier) \in Nat
    BY HaveSizes, AlertsAssumption
  <2> QED
    BY <2>1, <2>2 DEF Bounded
<1> QED
  BY <1>1, AlertsInvariant, PTL

=============================================================================
