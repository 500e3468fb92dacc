----------------------------- MODULE MCAgentJobs -----------------------------
(***************************************************************************)
(* Small instances of AgentJobs for TLC.                                   *)
(***************************************************************************)
EXTENDS AgentJobs, TLC

\* Deliveries, processes and jobs are interchangeable in every invariant.
Symmetry == Permutations(Deliveries) \cup Permutations(Agents) \cup Permutations(Jobs)

=============================================================================
