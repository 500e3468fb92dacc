------------------------------ MODULE EdgeLimits ------------------------------
(***************************************************************************)
(* The way of an HTTP request through the front door: its route, the edge  *)
(* budget of its peer, the tighter budget some routes keep of their own,   *)
(* the reading of its body, the handler's work (gateway main.ts, app.ts,   *)
(* http/handle.ts, routes.ts, body.ts, distributed-rate-limit.ts and the   *)
(* handlers).  The counters are rows every gateway process shares, one     *)
(* fixed window per budget and peer, kept and swept by transactions on one *)
(* clock (convex service/rate_limits.ts, maintenance/oauth_sweep.ts).      *)
(***************************************************************************)
EXTENDS Naturals, FiniteSets, Sequences

CONSTANTS
  Peers,          \* the addresses requests come from
  MaxRequests,    \* bound: requests, numbered as they arrive
  ServedRoutes,   \* the routes requests ask for in this instance
  Budget,         \* [bucket |-> how many requests a window admits]
  WindowLength,   \* of every bucket, in ticks
  MaxEdgeTime,    \* bound: the clock
  MaxEdgeFaults   \* bound: calls to the control plane that fail

Buckets == {"edge", "oauth", "pairing_start", "pairing_claim"}

\* The route table, the two paths main.ts serves itself, and a path that is none.
AllRoutes == {"healthz", "diagnostics", "discovery", "mcp", "catalog", "action", "register", "token", "pair start",
              "pair claim", "device", "peer dispatch", "nowhere"}

ASSUME EdgeAssumption ==
  /\ ServedRoutes \subseteq AllRoutes
  /\ Peers # {}
  /\ Budget \in [Buckets -> Nat \ {0}]
  /\ WindowLength \in Nat \ {0}
  /\ {MaxRequests, MaxEdgeTime, MaxEdgeFaults} \subseteq Nat

VARIABLES
  bucketRow,   \* the rateLimitBuckets table
  httpRequest, \* the requests
  admitted,    \* ghost: which request was let through by which window
  edgeClock,   \* Date.now() of the control plane
  edgeFaults   \* how many of the MaxEdgeFaults have happened

edgeVars == <<bucketRow, httpRequest, admitted, edgeClock, edgeFaults>>

Requests == 1..MaxRequests

\* A counter's key: the bucket and what is digested with the peer's address.
Counters == [bucket : Buckets, prefix : {"", "ws:", "start:", "claim:"}, peer : Peers]

BucketRow == [live : BOOLEAN, count : Nat, resetAt : Nat]

HttpRequest ==
  [route : AllRoutes, peer : Peers, passed : 0..2,
   at    : {"absent", "checking", "handling", "refused", "done"}]

NoRow == [live |-> FALSE, count |-> 0, resetAt |-> 0]

EdgeInit ==
  /\ bucketRow \in [Counters -> {NoRow}]
  /\ httpRequest = [r \in Requests |-> [route |-> "nowhere", peer |-> CHOOSE p \in Peers : TRUE, passed |-> 0, at |-> "absent"]]
  /\ admitted = {}
  /\ edgeClock = 0
  /\ edgeFaults = 0

-----------------------------------------------------------------------------
Counter(bucket, prefix, peer) == [bucket |-> bucket, prefix |-> prefix, peer |-> peer]

\* The budgets a route draws on, in the order it draws on them: the edge's, unless
\* the path is exempt, then the handler's own.
EdgeBudget(route, peer) ==
  CASE route \in {"healthz", "discovery", "peer dispatch", "nowhere"} -> <<>>
    [] route = "device" -> <<Counter("edge", "ws:", peer)>>
    [] OTHER -> <<Counter("edge", "", peer)>>

OwnBudget(route, peer) ==
  CASE route \in {"register", "token"} -> <<Counter("oauth", "", peer)>>
    [] route = "pair start" -> <<Counter("pairing_start", "start:", peer)>>
    [] route = "pair claim" -> <<Counter("pairing_claim", "claim:", peer)>>
    [] OTHER -> <<>>

Budgets(route, peer) == EdgeBudget(route, peer) \o OwnBudget(route, peer)

BudgetsOf(r) == Budgets(httpRequest[r].route, httpRequest[r].peer)

\* Past the last budget the handler runs; an unknown path has none.
Onward(request) ==
  [request EXCEPT !.at = IF request.route = "nowhere" THEN "refused"
                         ELSE IF request.passed = Len(Budgets(request.route, request.peer)) THEN "handling" ELSE "checking"]

\* main.ts fetch, matchRoute.
ArriveAtEdge(r, route, peer) ==
  /\ httpRequest[r].at = "absent" /\ \A q \in 1..r - 1 : httpRequest[q].at # "absent"
  /\ httpRequest' = [httpRequest EXCEPT ![r] = Onward([route |-> route, peer |-> peer, passed |-> 0, at |-> "checking"])]
  /\ UNCHANGED <<bucketRow, admitted, edgeClock, edgeFaults>>

\* Mutant: a row counts as lapsed one tick early.
LapsedEarly(row) == row.resetAt <= edgeClock + 1

Lapsed(row) == row.resetAt <= edgeClock

\* service/rate_limits.ts consume: whether the call is within the window, and the row it leaves.
Allows(k) == ~bucketRow[k].live \/ Lapsed(bucketRow[k]) \/ bucketRow[k].count < Budget[k.bucket]

Consumed(k) ==
  IF ~bucketRow[k].live \/ Lapsed(bucketRow[k])
    THEN [live |-> TRUE, count |-> 1, resetAt |-> edgeClock + WindowLength]
    ELSE [bucketRow[k] EXCEPT !.count = @ + 1]

\* The next budget of r answers.
Consume(r) ==
  LET k == BudgetsOf(r)[httpRequest[r].passed + 1] IN
  /\ httpRequest[r].at = "checking"
  /\ \/ /\ Allows(k)
        /\ bucketRow' = [bucketRow EXCEPT ![k] = Consumed(k)]
        /\ admitted' = admitted \cup {[counter |-> k, request |-> r, resetAt |-> Consumed(k).resetAt]}
        /\ httpRequest' = [httpRequest EXCEPT ![r] = Onward([httpRequest[r] EXCEPT !.passed = @ + 1])]
     \/ /\ ~Allows(k)
        /\ httpRequest' = [httpRequest EXCEPT ![r].at = "refused"]
        /\ UNCHANGED <<bucketRow, admitted>>
  /\ UNCHANGED <<edgeClock, edgeFaults>>

\* The call or its answer is lost: refused either way, counted if it got there.
ConsumeFails(r) ==
  LET k == BudgetsOf(r)[httpRequest[r].passed + 1] IN
  /\ edgeFaults < MaxEdgeFaults /\ edgeFaults' = edgeFaults + 1
  /\ httpRequest[r].at = "checking"
  /\ bucketRow' \in {bucketRow} \cup IF Allows(k) THEN {[bucketRow EXCEPT ![k] = Consumed(k)]} ELSE {}
  /\ httpRequest' = [httpRequest EXCEPT ![r].at = "refused"]
  /\ UNCHANGED <<admitted, edgeClock>>

\* The body is of the wrong type, too large or unreadable, or the handler refuses its fields.
BodyRejected(r) ==
  /\ httpRequest[r].at = "handling" /\ httpRequest[r].route \in {"mcp", "action", "register", "token", "pair start", "pair claim"}
  /\ httpRequest' = [httpRequest EXCEPT ![r].at = "refused"]
  /\ UNCHANGED <<bucketRow, admitted, edgeClock, edgeFaults>>

\* The handler does its work: a password hash, a client, a token, a challenge, a socket.
Handle(r) ==
  /\ httpRequest[r].at = "handling"
  /\ httpRequest' = [httpRequest EXCEPT ![r].at = "done"]
  /\ UNCHANGED <<bucketRow, admitted, edgeClock, edgeFaults>>

\* The daily sweep: rows of lapsed windows.
SweepBucket(k) ==
  /\ bucketRow[k].live /\ Lapsed(bucketRow[k])
  /\ bucketRow' = [bucketRow EXCEPT ![k] = NoRow]
  /\ UNCHANGED <<httpRequest, admitted, edgeClock, edgeFaults>>

EdgeTick == edgeClock < MaxEdgeTime /\ edgeClock' = edgeClock + 1 /\ UNCHANGED <<bucketRow, httpRequest, admitted, edgeFaults>>

EdgeNext ==
  \/ \E r \in Requests :
       \/ \E route \in ServedRoutes, p \in Peers : ArriveAtEdge(r, route, p)
       \/ Consume(r) \/ ConsumeFails(r) \/ BodyRejected(r) \/ Handle(r)
  \/ \E k \in Counters : SweepBucket(k)
  \/ EdgeTick

EdgeSpec == EdgeInit /\ [][EdgeNext]_edgeVars

-----------------------------------------------------------------------------
EdgeTypeOK ==
  /\ bucketRow \in [Counters -> BucketRow]
  /\ httpRequest \in [Requests -> HttpRequest]
  /\ admitted \subseteq [counter : Counters, request : Requests, resetAt : Nat]
  /\ edgeClock \in 0..MaxEdgeTime /\ edgeFaults \in 0..MaxEdgeFaults

\* Whatever is swept, lost or raced, a counter's windows never overlap and each
\* admits no more than its budget: in any stretch of one window's length a peer
\* gets at most twice the budget through, never a fresh one for the asking.
WithinBudget ==
  \A a \in admitted :
    /\ Cardinality({b \in admitted : b.counter = a.counter /\ b.resetAt = a.resetAt}) <= Budget[a.counter.bucket]
    /\ \A b \in admitted :
         b.counter = a.counter /\ b.resetAt > a.resetAt => b.resetAt >= a.resetAt + WindowLength

\* A handler worked only for a request that every budget of its route let through:
\* an outage of the counters closes the door.
NothingUnmetered ==
  \A r \in Requests : httpRequest[r].at = "done" =>
    \A i \in DOMAIN BudgetsOf(r) : \E a \in admitted : a.request = r /\ a.counter = BudgetsOf(r)[i]

\* The two together: no peer outruns a budget, and none goes round it.
EdgeSound == WithinBudget /\ NothingUnmetered

=============================================================================
