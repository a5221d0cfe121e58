------------------------------ MODULE AgentActs ------------------------------
(***************************************************************************)
(* What the platform promises about the effects of a run, whatever happens *)
(* to its deliveries, its status and its workers: the run's tools are run  *)
(* during one period, which starts once and never starts again.            *)
(***************************************************************************)
EXTENDS Naturals

CONSTANT Run

VARIABLES
    phase,  \* "unclaimed", "acting" or "over", for each run
    acts    \* how many tool calls took effect for each run

Init ==
    /\ phase = [r \in Run |-> "unclaimed"]
    /\ acts = [r \in Run |-> 0]

\* An execution of the run becomes the one that may act.
Claim(r) ==
    /\ phase[r] = "unclaimed"
    /\ phase' = [phase EXCEPT ![r] = "acting"]
    /\ UNCHANGED acts

\* It runs a tool.
Act(r) ==
    /\ phase[r] = "acting"
    /\ acts' = [acts EXCEPT ![r] = @ + 1]
    /\ UNCHANGED phase

\* It returns, or its worker dies with everything the worker was executing.
End(rs) ==
    /\ \A r \in rs : phase[r] = "acting"
    /\ phase' = [r \in Run |-> IF r \in rs THEN "over" ELSE phase[r]]
    /\ UNCHANGED acts

Next ==
    \/ \E r \in Run : Claim(r) \/ Act(r)
    \/ \E rs \in SUBSET Run : End(rs)

Spec == Init /\ [][Next]_<<phase, acts>>

=============================================================================
