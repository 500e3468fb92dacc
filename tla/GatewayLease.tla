---------------------------- MODULE GatewayLease ----------------------------
(***************************************************************************)
(* The singleton lease of the gateway: one row in the control plane        *)
(* (convex service/gateway_lease.ts) and the processes that acquire, renew *)
(* and release it (gateway store/gateway-lease.ts).  A process awaits one  *)
(* answer at a time; a request is served some time after it was sent, also *)
(* after its sender gave it up, and its answer arrives some time after     *)
(* that.  The processes and the control plane read one clock.  A holder id *)
(* is a fresh UUID per process.                                            *)
(***************************************************************************)
EXTENDS Integers

CONSTANTS
  Holders,      \* gateway processes
  NoHolder,     \* the row does not exist
  LeaseTTL,     \* GATEWAY_LEASE_TTL_MS
  MaxLeaseTime  \* bound of the clock

ASSUME GatewayLeaseAssumption ==
  /\ NoHolder \notin Holders
  /\ LeaseTTL \in Nat \ {0}
  /\ MaxLeaseTime \in Nat

VARIABLES
  leaseNow,  \* the clock
  lease,     \* the row
  holder,    \* per process, the state of createGatewayLease
  sent,      \* per process, the requests on their way to the control plane
  answer     \* per process, what came back for the request it awaits

leaseVars == <<leaseNow, lease, holder, sent, answer>>

LeaseRow == [holder : Holders \cup {NoHolder}, until : Nat]

Holder ==
  [until   : Nat,       \* expiresAt
   ever    : BOOLEAN,   \* everAcquired
   active  : BOOLEAN,
   stopped : BOOLEAN,
   lost    : BOOLEAN,   \* loss # null
   awaits  : {"nothing", "acquire", "renew"}]

\* An answer confirms the lease until some time; a refusal confirms nothing.
LeaseAnswer == [of : {"nothing", "acquire", "renew"}, until : Nat]
NoLeaseAnswer == [of |-> "nothing", until |-> 0]

LeaseInit ==
  /\ leaseNow = 0
  /\ lease = [holder |-> NoHolder, until |-> 0]
  /\ holder = [h \in Holders |-> [until |-> 0, ever |-> FALSE, active |-> FALSE,
                                  stopped |-> FALSE, lost |-> FALSE, awaits |-> "nothing"]]
  /\ sent = [h \in Holders |-> {}]
  /\ answer = [h \in Holders |-> NoLeaseAnswer]

-----------------------------------------------------------------------------
\* isValid: asked at the HTTP and WebSocket edge before anything is served.
Serves(h) ==
  holder[h].active /\ ~holder[h].stopped /\ ~holder[h].lost /\ leaseNow < holder[h].until

\* markLost: once, and never of a process that was stopped.
Lost(s) == IF s.stopped \/ s.lost THEN s ELSE [s EXCEPT !.lost = TRUE, !.active = FALSE]

SendLease(h, what) == sent' = [sent EXCEPT ![h] = @ \cup {what}]

\* An answer is consumed, or given up.
Taken(h) == answer' = [answer EXCEPT ![h] = NoLeaseAnswer]

-----------------------------------------------------------------------------
(* The process.                                                            *)

AcquireLease(h) ==
  /\ holder[h].awaits = "nothing" /\ ~holder[h].stopped
  /\ ~(holder[h].active /\ leaseNow < holder[h].until)
  /\ holder' = [holder EXCEPT ![h].awaits = "acquire"]
  /\ SendLease(h, "acquire")
  /\ UNCHANGED <<leaseNow, lease, answer>>

\* The awaited answer of acquire: a refusal, or a lease that is over already,
\* throws.  Nothing here looks at stopped or lost again.
RecvAcquired(h) ==
  /\ answer[h].of = "acquire"
  /\ holder' = [holder EXCEPT ![h] =
       LET s == [@ EXCEPT !.awaits = "nothing"] IN
       IF answer[h].until > leaseNow
         THEN [s EXCEPT !.until = answer[h].until, !.ever = TRUE, !.active = TRUE] ELSE s]
  /\ Taken(h)
  /\ UNCHANGED <<leaseNow, lease, sent>>

\* The interval of start fires; one renewal is in flight at a time.
RenewNow(h) ==
  /\ holder[h].active /\ ~holder[h].stopped /\ ~holder[h].lost /\ holder[h].awaits = "nothing"
  /\ holder' = [holder EXCEPT ![h].awaits = "renew"]
  /\ SendLease(h, "renew")
  /\ UNCHANGED <<leaseNow, lease, answer>>

\* The awaited answer of renew: a refusal or an answer that is over is a loss.
RecvRenewed(h) ==
  /\ answer[h].of = "renew"
  /\ holder' = [holder EXCEPT ![h] =
       LET s == [@ EXCEPT !.awaits = "nothing"] IN
       IF s.stopped THEN s
       ELSE IF answer[h].until > leaseNow THEN [s EXCEPT !.until = answer[h].until] ELSE Lost(s)]
  /\ Taken(h)
  /\ UNCHANGED <<leaseNow, lease, sent>>

\* The call fails, times out or its answer is not one.  Acquire throws; a
\* failed renewal is tolerated inside the last confirmed lease.
LeaseCallFails(h) ==
  /\ holder[h].awaits # "nothing"
  /\ holder' = [holder EXCEPT ![h] =
       LET s == [@ EXCEPT !.awaits = "nothing"] IN
       IF @.awaits = "renew" /\ leaseNow >= @.until THEN Lost(s) ELSE s]
  /\ Taken(h)
  /\ UNCHANGED <<leaseNow, lease, sent>>

\* The expiry watch fires after the last confirmed expiry.
ExpiryWatch(h) ==
  /\ holder[h].active /\ leaseNow > holder[h].until
  /\ holder' = [holder EXCEPT ![h] = Lost(@)]
  /\ UNCHANGED <<leaseNow, lease, sent, answer>>

\* stop: gives the lease back if it ever had it and did not lose it.
StopLease(h) ==
  /\ ~holder[h].stopped
  /\ holder' = [holder EXCEPT ![h].stopped = TRUE, ![h].active = FALSE]
  /\ IF holder[h].ever /\ ~holder[h].lost THEN SendLease(h, "release") ELSE UNCHANGED sent
  /\ UNCHANGED <<leaseNow, lease, answer>>

-----------------------------------------------------------------------------
(* The control plane: each request is one transaction.  Its answer reaches *)
(* a process that still awaits it.                                         *)

AnswerLease(h, what, until) ==
  /\ sent' = [sent EXCEPT ![h] = @ \ {what}]
  /\ answer' = [answer EXCEPT ![h] =
       IF holder[h].awaits = what THEN [of |-> what, until |-> until] ELSE @]

Grant(h, what) ==
  /\ lease' = [holder |-> h, until |-> leaseNow + LeaseTTL]
  /\ AnswerLease(h, what, leaseNow + LeaseTTL)

Refuse(h, what) ==
  /\ lease' = lease
  /\ AnswerLease(h, what, 0)

\* Mutant of MayAcquire: the last moment of a lease is not protected.
MayAcquireTooEarly(h) == lease.holder \in {NoHolder, h} \/ lease.until <= leaseNow + 1

MayAcquire(h) == lease.holder \in {NoHolder, h} \/ lease.until <= leaseNow

ServeAcquire(h) ==
  /\ "acquire" \in sent[h]
  /\ IF MayAcquire(h) THEN Grant(h, "acquire") ELSE Refuse(h, "acquire")
  /\ UNCHANGED <<leaseNow, holder>>

\* "A late heartbeat may not silently reacquire."
MayRenew(h) == lease.holder = h /\ lease.until > leaseNow

ServeRenew(h) ==
  /\ "renew" \in sent[h]
  /\ IF MayRenew(h) THEN Grant(h, "renew") ELSE Refuse(h, "renew")
  /\ UNCHANGED <<leaseNow, holder>>

ServeRelease(h) ==
  /\ "release" \in sent[h]
  /\ sent' = [sent EXCEPT ![h] = @ \ {"release"}]
  /\ lease' = IF lease.holder = h THEN [holder |-> NoHolder, until |-> 0] ELSE lease
  /\ UNCHANGED <<leaseNow, holder, answer>>

-----------------------------------------------------------------------------
LeaseTick ==
  /\ leaseNow < MaxLeaseTime
  /\ leaseNow' = leaseNow + 1
  /\ UNCHANGED <<lease, holder, sent, answer>>

LeaseNext ==
  \/ \E h \in Holders :
       \/ AcquireLease(h) \/ RecvAcquired(h)
       \/ RenewNow(h) \/ RecvRenewed(h) \/ LeaseCallFails(h)
       \/ ExpiryWatch(h) \/ StopLease(h)
       \/ ServeAcquire(h) \/ ServeRenew(h) \/ ServeRelease(h)
  \/ LeaseTick

LeaseSpec == LeaseInit /\ [][LeaseNext]_leaseVars

-----------------------------------------------------------------------------
\* Every variable has its type, and an answer is one to the awaited request.
LeaseTypeOK ==
  /\ leaseNow \in Nat
  /\ lease \in LeaseRow
  /\ holder \in [Holders -> Holder]
  /\ sent \in [Holders -> SUBSET {"acquire", "renew", "release"}]
  /\ answer \in [Holders -> LeaseAnswer]
  /\ \A h \in Holders : answer[h].of \in {"nothing", holder[h].awaits}

\* "Exactly one gateway may serve" (service/gateway_lease.ts): at most one
\* process believes itself the holder, whatever requests and answers are late,
\* lost or overtaken by an expiry, a loss or a stop.
OneServes == \A g, h \in Holders : Serves(g) /\ Serves(h) => g = h

\* Why: what a process was confirmed and can still use, the row still grants.
Covered(h, until) == until > leaseNow => lease.holder = h /\ until <= lease.until

ServesUnderLease ==
  \A h \in Holders :
    /\ ~holder[h].stopped => Covered(h, holder[h].until) /\ Covered(h, answer[h].until)
    /\ "release" \in sent[h] => holder[h].stopped

=============================================================================
