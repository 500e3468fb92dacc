---------------------------- MODULE ReplayWindow ----------------------------
(***************************************************************************)
(* What a replay guard promises its caller (packages/core, ReplayGuard):   *)
(* remember(id, ttl) says yes to an id only if it has not said yes to it   *)
(* within the ttl given then, as long as the guard has room for what it    *)
(* said yes to since.                                                      *)
(***************************************************************************)
EXTENDS Naturals, Sequences

CONSTANTS
  Jobs,       \* job ids
  Times,      \* clock readings
  MaxEntries  \* how many ids the guard has room for

VARIABLES
  now,      \* the clock
  accepted  \* the ids it said yes to, in order, each with the end of its window

\* The acceptances the guard has room for.
Recent == {k \in DOMAIN accepted : Len(accepted) - k < MaxEntries}

Init == now = 0 /\ accepted = <<>>

Accept(j) ==
  /\ \A k \in Recent : accepted[k].job = j => accepted[k].until <= now
  /\ \E u \in Times : accepted' = Append(accepted, [job |-> j, until |-> u, at |-> now])
  /\ UNCHANGED now

Tick == now' = now + 1 /\ UNCHANGED accepted

Next == Tick \/ \E j \in Jobs : Accept(j)

Spec == Init /\ [][Next]_<<now, accepted>>

=============================================================================
