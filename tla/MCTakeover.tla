------------------------------ MODULE MCTakeover ------------------------------
(***************************************************************************)
(* An instance of DeviceRelay with an older and a newer connection of the  *)
(* device, for liveness, where symmetry cannot be used.  What its steps    *)
(* leave out is subject to no fairness, so that its behaviours are         *)
(* behaviours of FairSpec.                                                 *)
(***************************************************************************)
EXTENDS DeviceRelay

CONSTANTS
  Older, Newer, \* the two sockets, in the order in which the agent dials them
  Here, There   \* the replica that accepts each

\* The agent dials in this order, the load balancer sends the sockets to these
\* replicas, and the owner forgets no device.
TakeoverNext ==
  /\ Next
  /\ socket'[Older].gw \in {None, Here} /\ socket'[Newer].gw \in {None, There}
  /\ socket'[Newer].end # "unused" => socket'[Older].end # "unused"
  /\ device' # "gone"

TakeoverSpec == Init /\ [][TakeoverNext]_vars /\ Fairness

=============================================================================
