----------------------------- MODULE MCApprovals -----------------------------
(***************************************************************************)
(* Small instances of Approvals for TLC.                                   *)
(***************************************************************************)
EXTENDS Approvals, TLC

\* Calls and request hashes are interchangeable in every property.
Symmetry == Permutations(Calls) \cup Permutations(Requests)

=============================================================================
