---------------------------- MODULE MCJobDispatch ----------------------------
(***************************************************************************)
(* Small instances of JobDispatch for TLC.                                 *)
(***************************************************************************)
EXTENDS JobDispatch, TLC

\* Jobs, sessions and replicas are interchangeable in every safety property.
Symmetry == Permutations(Jobs) \cup Permutations(Sessions) \cup Permutations(Gateways)

=============================================================================
