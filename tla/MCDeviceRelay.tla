---------------------------- MODULE MCDeviceRelay ----------------------------
(***************************************************************************)
(* Small instances of DeviceRelay for TLC.                                 *)
(***************************************************************************)
EXTENDS DeviceRelay, TLC

\* Sockets and replicas are interchangeable in every safety property.
Symmetry == Permutations(Sockets) \cup Permutations(Gateways)

=============================================================================
