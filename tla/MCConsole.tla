----------------------------- MODULE MCConsole -----------------------------
(* Instances of Console for TLC. *)
EXTENDS Console, TLC

CONSTANTS q1, q2, q3

\* Bodies that a patch or a create may have: nothing, one field, a context
\* with its runs, a context alone, runs alone, and budgets at the edges.
MCBody ==
    { <<>>,
      "enabled" :> FALSE,
      "mode" :> "last_n" @@ "contextRuns" :> 1,
      "mode" :> "last_n",
      "mode" :> "fresh",
      "contextRuns" :> 0,
      "maxSteps" :> 0,
      "maxSteps" :> Ceiling,
      "maxSteps" :> Ceiling + 1 }

Symmetry == Permutations(Request)
=============================================================================
