------------------------------- MODULE MCRuns -------------------------------
(* Instances of Runs for TLC. *)
EXTENDS Runs, TLC

CONSTANTS r1, r2, w1, w2, t1, t2, a1

MCAgentOf == [r \in Run |-> a1]

Symmetric == Permutations(Run) \cup Permutations(Worker) \cup Permutations(Tick)
=============================================================================
