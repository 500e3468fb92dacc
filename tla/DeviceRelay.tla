----------------------------- MODULE DeviceRelay -----------------------------
(***************************************************************************)
(* The session of one paired device: the agent that dials out              *)
(* (apps/agent/src/session.ts), the gateway replicas that accept its       *)
(* WebSockets (apps/gateway/src/relay/relay.ts) and the control-plane rows *)
(* they share (convex service/relay_routes.ts, service/devices.ts).        *)
(*                                                                         *)
(* Every map and row of the code is keyed by the device id, so one device  *)
(* is the whole story.  A handler is split where it awaits: what follows   *)
(* an await is an action of its own, and anything may happen before it.    *)
(* A Convex mutation is one transaction, hence one action.                 *)
(*                                                                         *)
(* Time is abstracted: a deadline or a TTL is an action that may happen    *)
(* whenever its timer is armed.                                            *)
(***************************************************************************)
EXTENDS Naturals, Sequences

CONSTANTS
  Sockets,   \* WebSocket connections; a socket is also its relay session id
  Gateways,  \* gateway replicas
  MaxFaults, \* bound: failed calls, crashes and restarts in one behaviour
  MayRevoke, \* bound: whether the owner may revoke the device
  None       \* no socket, no gateway

ASSUME DeviceRelayAssumption ==
  /\ None \notin Sockets \cup Gateways
  /\ MaxFaults \in Nat
  /\ MayRevoke \in BOOLEAN

VARIABLES
  device,    \* status column of the device row; "gone" once forgotten
  route,     \* the relayRoutes row: its session, and whether it has expired
  lastClaim, \* history: the session of the latest claim that succeeded
  registry,  \* per replica, the socket registered for the device
  checking,  \* per replica, the revalidation pass between read and act
  socket,    \* per socket, SocketState and the handlers running for it
  agent,     \* the agent process
  faults     \* how many of the MaxFaults have happened

vars == <<device, route, lastClaim, registry, checking, socket, agent, faults>>

Route   == [session : Sockets \cup {None}, lapsed : BOOLEAN]
NoRoute == [session |-> None, lapsed |-> FALSE]

DeviceStates == {"offline", "online", "revoked", "gone"}

\* Why the gateway closes a socket, and the code it sends with each reason.
Unauthorized == {"credential rejected", "replaced", "timed out"}
Retry        == {"unavailable"}
CloseReasons == Unauthorized \cup {"revoked"} \cup Retry

\* session.ts: the codes 4001 and 4003 mean "re-pair", never "retry".
Permanent == Unauthorized \cup {"revoked"}

HelloStates ==
  {"none", "authenticating", "claiming", "claimed", "stamping", "welcomed", "over"}

Socket ==
  [gw       : Gateways \cup {None},               \* replica that accepted it
   end      : {"unused", "open", "closed"},       \* the replica's end
   hello    : HelloStates,                        \* how far onHello got
   refresh  : {"none", "refreshing", "stamping"}, \* refreshPresence
   starved  : BOOLEAN,                            \* its last refresh failed
   cleanup  : {"none", "releasing", "marking"},   \* the close handler's chain
   dropping : BOOLEAN,                            \* a release nobody waits for
   close    : CloseReasons \cup {"no"},           \* close frame sent
   inbox    : Seq({"welcome", "revoked"})]        \* frames on their way to the agent

NewSocket ==
  [gw |-> None, end |-> "unused", hello |-> "none", refresh |-> "none", starved |-> FALSE,
   cleanup |-> "none", dropping |-> FALSE, close |-> "no", inbox |-> <<>>]

AgentStates == {"offline", "connecting", "online", "stopped"}

Agent ==
  [state    : AgentStates,
   due      : BOOLEAN,                        \* start or a scheduled retry will dial
   sock     : Sockets \cup {None},            \* the current generation's socket
   trusting : SUBSET Sockets]                 \* welcomes whose key is being pinned

NewAgent ==
  [state |-> "offline", due |-> TRUE, sock |-> None, trusting |-> {}]

-----------------------------------------------------------------------------
Present == device \in {"offline", "online"}

\* One of the MaxFaults happens.
Fault == faults < MaxFaults /\ faults' = faults + 1

Registered(s) == \E g \in Gateways : registry[g] = s

Writable(s) == socket[s].end = "open" /\ socket[s].close = "no"

\* socket.data.authenticated, of a socket that can still receive: the flag is
\* cleared only together with a close.
Authenticated(s) == socket[s].hello \in {"stamping", "welcomed"}

\* Closing a socket that is closing or closed does nothing.
Closed(sk, why) == IF sk.end = "open" /\ sk.close = "no" THEN [sk EXCEPT !.close = why] ELSE sk

\* sendMessage: a frame to a socket that is gone is dropped, and an agent that
\* has given the socket up ignores it.
Sent(s, sk, frame) ==
  IF sk.end = "open" /\ sk.close = "no" /\ agent.sock = s
    THEN [sk EXCEPT !.inbox = Append(@, frame)]
    ELSE sk

\* Mutant of Removed: the socket stays in the registry.
RemovedNever(s) == registry

\* SocketRegistry.remove: a no-op unless s is still the registered socket.
Removed(s) == [g \in Gateways |-> IF registry[g] = s THEN None ELSE registry[g]]

\* Mutant of Released: the row is deleted without comparing its session.
ReleasedAny(s) == NoRoute

\* The release mutation's effect on the row: only its own session deletes it.
Released(s) == IF route.session = s THEN NoRoute ELSE route

\* Mutant of Stamped: revoked is not terminal for presence.
StampedAnything(status) == IF device = "gone" THEN device ELSE status

\* The setPresence mutation's effect: a revoked row is left untouched, and
\* there is nothing to write to a forgotten one.
Stamped(status) == IF Present THEN status ELSE device

Init ==
  /\ device = "offline"
  /\ route = NoRoute /\ lastClaim = None /\ faults = 0
  /\ registry = [g \in Gateways |-> None]
  /\ checking = [g \in Gateways |-> None]
  /\ socket = [s \in Sockets |-> NewSocket]
  /\ agent = NewAgent

-----------------------------------------------------------------------------
(* The hello handshake, one action per stretch between two awaits.         *)

\* The agent has detected its capabilities, and its hello arrives.
RecvHello(s) ==
  /\ Writable(s) /\ socket[s].hello = "none"
  /\ socket' = [socket EXCEPT ![s].hello = "authenticating"]
  /\ UNCHANGED <<device, route, lastClaim, registry, checking, agent, faults>>

\* authenticateHello has read the device row: a forgotten device has no
\* credential to match (4001), a revoked one is told so (4003).
Authenticate(s) ==
  /\ socket[s].hello = "authenticating"
  /\ socket' = [socket EXCEPT ![s] =
       IF Present THEN [@ EXCEPT !.hello = "claiming"]
       ELSE Closed([@ EXCEPT !.hello = "over"],
                   IF device = "gone" THEN "credential rejected" ELSE "revoked")]
  /\ UNCHANGED <<device, route, lastClaim, registry, checking, agent, faults>>

\* The read fails and onHello rejects: the socket is left to its deadline.
AuthenticateFails(s) ==
  /\ socket[s].hello = "authenticating"
  /\ socket' = [socket EXCEPT ![s].hello = "over"]
  /\ Fault
  /\ UNCHANGED <<device, route, lastClaim, registry, checking, agent>>

\* The claim mutation commits: a reconnect always takes the route over.
TakeRoute(s) == route' = [session |-> s, lapsed |-> FALSE] /\ lastClaim' = s

Claim(s) ==
  /\ socket[s].hello = "claiming"
  /\ \/ /\ Present
        /\ TakeRoute(s)
        /\ socket' = [socket EXCEPT ![s].hello = "claimed"]
     \/ /\ ~Present
        /\ socket' = [socket EXCEPT ![s] = Closed([@ EXCEPT !.hello = "over"], "revoked")]
        /\ UNCHANGED <<route, lastClaim>>
  /\ UNCHANGED <<device, registry, checking, agent, faults>>

\* The claim fails, or commits and its answer is lost: the agent is asked to
\* try again (1013).
ClaimFails(s) ==
  /\ socket[s].hello = "claiming"
  /\ \/ Present /\ TakeRoute(s)
     \/ UNCHANGED <<route, lastClaim>>
  /\ socket' = [socket EXCEPT ![s] = Closed([@ EXCEPT !.hello = "over"], "unavailable")]
  /\ Fault
  /\ UNCHANGED <<device, registry, checking, agent>>

\* The claim was answered: the socket is registered, whatever has become of it
\* meanwhile, and the socket it displaces is closed.
Register(s) ==
  LET g == socket[s].gw IN
  /\ socket[s].hello = "claimed"
  /\ registry' = [registry EXCEPT ![g] = s]
  /\ socket' = [t \in Sockets |->
       IF t = s THEN [socket[s] EXCEPT !.hello = "stamping"]
       ELSE IF t = registry[g] THEN Closed(socket[t], "replaced")
       ELSE socket[t]]
  /\ UNCHANGED <<device, route, lastClaim, checking, agent, faults>>

\* Presence is written and the agent is welcomed.
Welcome(s) ==
  /\ socket[s].hello = "stamping"
  /\ device # "gone"
  /\ device' = Stamped("online")
  /\ socket' = [socket EXCEPT ![s] = Sent(s, [@ EXCEPT !.hello = "welcomed"], "welcome")]
  /\ UNCHANGED <<route, lastClaim, registry, checking, agent, faults>>

\* The presence write has failed: the socket is taken out again, its route is
\* released without waiting, and the agent retries.
BackOut(s) ==
  /\ registry' = Removed(s)
  /\ socket' = [socket EXCEPT ![s] =
       Closed([@ EXCEPT !.hello = "over", !.dropping = TRUE], "unavailable")]
  /\ UNCHANGED <<route, lastClaim, checking, agent>>

\* The device was forgotten meanwhile, so there is no row to write to.
WelcomeRefused(s) ==
  /\ socket[s].hello = "stamping"
  /\ device = "gone"
  /\ BackOut(s)
  /\ UNCHANGED <<device, faults>>

\* The write fails, or commits and its answer is lost.
WelcomeFails(s) ==
  /\ socket[s].hello = "stamping"
  /\ device' \in {device, Stamped("online")}
  /\ BackOut(s)
  /\ Fault

\* The release nobody waits for.
DropRoute(s) ==
  /\ socket[s].dropping
  /\ \/ route' = Released(s) /\ UNCHANGED faults
     \/ Fault /\ UNCHANGED route
  /\ socket' = [socket EXCEPT ![s].dropping = FALSE]
  /\ UNCHANGED <<device, lastClaim, registry, checking, agent>>

\* Mutant of HelloDeadline: the timer is cleared when the hello arrives.
HelloDeadlineEarly(s) ==
  /\ Writable(s) /\ socket[s].hello = "none"
  /\ socket' = [socket EXCEPT ![s] = Closed(@, "timed out")]
  /\ UNCHANGED <<device, route, lastClaim, registry, checking, agent, faults>>

\* The timer armed at open; registering the socket clears it.
HelloDeadline(s) ==
  /\ Writable(s) /\ ~Authenticated(s)
  /\ socket' = [socket EXCEPT ![s] = Closed(@, "timed out")]
  /\ UNCHANGED <<device, route, lastClaim, registry, checking, agent, faults>>

-----------------------------------------------------------------------------
(* Heartbeats and presence refresh.                                        *)

\* A heartbeat arrives after PRESENCE_REFRESH_MS; the slot is taken before the
\* await, so one refresh per socket is in flight.
Heartbeat(s) ==
  /\ Writable(s) /\ Authenticated(s)
  /\ socket[s].refresh = "none"
  /\ socket' = [socket EXCEPT ![s].refresh = "refreshing"]
  /\ UNCHANGED <<device, route, lastClaim, registry, checking, agent, faults>>

\* Mutant of OwnsRoute: the row is looked up by its device, whoever has it.
OwnsRouteOfDevice(s) == route # NoRoute /\ ~route.lapsed

\* What refresh asks of the row.
OwnsRoute(s) == route.session = s /\ ~route.lapsed

\* routes.refresh answers: an owner goes on to stamp presence, any other
\* session is closed as replaced.
Refresh(s) ==
  /\ socket[s].refresh = "refreshing"
  /\ socket' = [socket EXCEPT ![s] =
       IF OwnsRoute(s)
         THEN [@ EXCEPT !.refresh = "stamping", !.starved = FALSE]
         ELSE Closed([@ EXCEPT !.refresh = "none"], "replaced")]
  /\ UNCHANGED <<device, route, lastClaim, registry, checking, agent, faults>>

\* Mutant of RefreshStamp: the route is refreshed, presence is not.
RefreshStampless(s) ==
  /\ socket[s].refresh = "stamping" /\ device # "gone"
  /\ socket' = [socket EXCEPT ![s].refresh = "none"]
  /\ UNCHANGED <<device, route, lastClaim, registry, checking, agent, faults>>

\* setPresence(true) commits.
RefreshStamp(s) ==
  /\ socket[s].refresh = "stamping" /\ device # "gone"
  /\ device' = Stamped("online")
  /\ socket' = [socket EXCEPT ![s].refresh = "none"]
  /\ UNCHANGED <<route, lastClaim, registry, checking, agent, faults>>

\* There is no row to write to any more; the failure is logged.
RefreshRefused(s) ==
  /\ socket[s].refresh = "stamping" /\ device = "gone"
  /\ socket' = [socket EXCEPT ![s].refresh = "none"]
  /\ UNCHANGED <<device, route, lastClaim, registry, checking, agent, faults>>

\* Either write fails, or commits and its answer is lost; it is logged and the
\* next heartbeat tries again.
RefreshFails(s) ==
  /\ socket[s].refresh # "none"
  /\ \/ UNCHANGED device
     \/ socket[s].refresh = "stamping" /\ device' = Stamped("online")
  /\ socket' = [socket EXCEPT ![s].refresh = "none", ![s].starved = TRUE]
  /\ Fault
  /\ UNCHANGED <<route, lastClaim, registry, checking, agent>>

\* The sweep closes the registered socket when it has been silent too long.
HeartbeatTimeout(s) ==
  /\ Registered(s) /\ Writable(s)
  /\ socket' = [socket EXCEPT ![s] = Closed(@, "timed out")]
  /\ UNCHANGED <<device, route, lastClaim, registry, checking, agent, faults>>

-----------------------------------------------------------------------------
(* The close handler and what it leaves to run.                            *)

\* The close event: only the registered socket gives up the route.
OnClose(s) ==
  /\ socket[s].end = "open"
  /\ registry' = Removed(s)
  /\ socket' = [socket EXCEPT
       ![s].end = "closed",
       ![s].hello = IF @ = "none" THEN "over" ELSE @,
       ![s].starved = FALSE,
       ![s].close = IF agent.sock = s THEN @ ELSE "no",
       ![s].cleanup = IF Registered(s) THEN "releasing" ELSE "none"]
  /\ UNCHANGED <<device, route, lastClaim, checking, agent, faults>>

\* The event is due: the replica sent a close frame or the agent has left.
CloseEvent(s) == (socket[s].close # "no" \/ agent.sock # s) /\ OnClose(s)

\* The network drops the connection and the replica notices.
Drop(s) == socket[s].close = "no" /\ agent.sock = s /\ OnClose(s)

\* release answers true only to the owner, and only then presence follows.
Release(s) ==
  /\ socket[s].cleanup = "releasing"
  /\ route' = Released(s)
  /\ socket' = [socket EXCEPT ![s].cleanup = IF route.session = s THEN "marking" ELSE "none"]
  /\ UNCHANGED <<device, lastClaim, registry, checking, agent, faults>>

MarkOffline(s) ==
  /\ socket[s].cleanup = "marking"
  /\ device' = Stamped("offline")
  /\ socket' = [socket EXCEPT ![s].cleanup = "none"]
  /\ UNCHANGED <<route, lastClaim, registry, checking, agent, faults>>

\* One of the two writes fails, or commits and its answer is lost; the chain
\* ends with a log line.
CleanupFails(s) ==
  /\ socket[s].cleanup # "none"
  /\ \/ UNCHANGED <<route, device>>
     \/ socket[s].cleanup = "releasing" /\ route' = Released(s) /\ UNCHANGED device
  /\ socket' = [socket EXCEPT ![s].cleanup = "none"]
  /\ Fault
  /\ UNCHANGED <<lastClaim, registry, checking, agent>>

-----------------------------------------------------------------------------
(* Revalidation, expiry, crashes and the owner's own operations.           *)

\* Mutant of RevalidateRead: a row that is missing is taken for an outage.
RevalidateReadRow(g) ==
  /\ registry[g] # None /\ device = "revoked"
  /\ checking[g] = None
  /\ checking' = [checking EXCEPT ![g] = registry[g]]
  /\ UNCHANGED <<device, route, lastClaim, registry, socket, agent, faults>>

\* revalidate reads the device row of the socket registered now.  Only a row
\* that is missing or revoked sends the pass on; any other read, and one that
\* fails, leaves everything as it is.
RevalidateRead(g) ==
  /\ registry[g] # None /\ ~Present
  /\ checking[g] = None
  /\ checking' = [checking EXCEPT ![g] = registry[g]]
  /\ UNCHANGED <<device, route, lastClaim, registry, socket, agent, faults>>

\* After the await the pass acts on the socket it read the row for, if that
\* socket is still registered.
RevalidateAct(g) ==
  LET s == checking[g] IN
  /\ s # None
  /\ \/ /\ registry[g] = s
        /\ registry' = [registry EXCEPT ![g] = None]
        /\ socket' = [socket EXCEPT ![s] =
             Closed(Sent(s, [@ EXCEPT !.dropping = TRUE], "revoked"), "revoked")]
     \/ registry[g] # s /\ UNCHANGED <<registry, socket>>
  /\ checking' = [checking EXCEPT ![g] = None]
  /\ UNCHANGED <<device, route, lastClaim, agent, faults>>

\* A replica dies with every socket, handler and timer it holds.  The process
\* that takes its place has a new gateway id, and so no route.
Crash(g) ==
  /\ \E s \in Sockets : socket[s].gw = g /\ socket[s].end = "open"
  /\ registry' = [registry EXCEPT ![g] = None]
  /\ checking' = [checking EXCEPT ![g] = None]
  /\ socket' = [s \in Sockets |->
       IF socket[s].gw = g
         THEN [NewSocket EXCEPT !.gw = g, !.end = "closed", !.hello = "over"]
         ELSE socket[s]]
  /\ Fault
  /\ UNCHANGED <<device, route, lastClaim, agent>>

\* The heartbeats of s arrive, and its refreshes have not been failing.
Refreshes(s) == Authenticated(s) /\ Writable(s) /\ agent.sock = s /\ ~socket[s].starved

\* PRESENCE_TTL_MS passes without a refresh that is accepted: three refreshes fit
\* in it, so the owner has stopped refreshing.
RouteLapses ==
  /\ route # NoRoute /\ ~route.lapsed
  /\ ~\E s \in Sockets : OwnsRoute(s) /\ Refreshes(s)
  /\ route' = [route EXCEPT !.lapsed = TRUE]
  /\ UNCHANGED <<device, lastClaim, registry, checking, socket, agent, faults>>

\* Mutant of SweepRoute: rows of a device that reads online are spared.
SweepRouteOffline ==
  /\ route.lapsed /\ device # "online"
  /\ route' = NoRoute
  /\ UNCHANGED <<device, lastClaim, registry, checking, socket, agent, faults>>

\* The hourly sweep deletes a lapsed row.
SweepRoute ==
  /\ route.lapsed
  /\ route' = NoRoute
  /\ UNCHANGED <<device, lastClaim, registry, checking, socket, agent, faults>>

Revoke ==
  /\ MayRevoke /\ Present
  /\ device' = "revoked"
  /\ UNCHANGED <<route, lastClaim, registry, checking, socket, agent, faults>>

\* Only a revoked device may be forgotten; its route goes with it.
Forget ==
  /\ device = "revoked"
  /\ device' = "gone"
  /\ route' = NoRoute
  /\ UNCHANGED <<lastClaim, registry, checking, socket, agent, faults>>

-----------------------------------------------------------------------------
(* The agent.                                                              *)

\* The agent dials; some replica accepts the upgrade and arms the deadline.
Dial(s, g) ==
  /\ agent.due
  /\ socket[s].end = "unused"
  /\ agent' = [agent EXCEPT !.state = "connecting", !.due = FALSE, !.sock = s]
  /\ socket' = [socket EXCEPT ![s].gw = g, ![s].end = "open"]
  /\ UNCHANGED <<device, route, lastClaim, registry, checking, faults>>

\* A welcome arrives: the announced key is pinned, which is awaited.
RecvWelcome(s) ==
  /\ agent.sock = s
  /\ socket[s].inbox # <<>> /\ Head(socket[s].inbox) = "welcome"
  /\ socket' = [socket EXCEPT ![s].inbox = Tail(@)]
  /\ agent' = [agent EXCEPT !.trusting = @ \cup {s}]
  /\ UNCHANGED <<device, route, lastClaim, registry, checking, faults>>

\* The key is pinned or refused; either way the agent declares itself online.
GoOnline(s) ==
  /\ s \in agent.trusting
  /\ agent' = [agent EXCEPT !.trusting = @ \ {s}, !.state = "online"]
  /\ UNCHANGED <<device, route, lastClaim, registry, checking, socket, faults>>

\* The agent has no use any more for the frames on their way to it; nobody has
\* for a close frame once both ends are done.
Leave ==
  socket' = [s \in Sockets |->
    IF s = agent.sock
      THEN [socket[s] EXCEPT !.inbox = <<>>, !.close = IF socket[s].end = "closed" THEN "no" ELSE @]
      ELSE socket[s]]

\* The current socket is given up and a reconnect is scheduled.
GiveUp == agent' = [agent EXCEPT !.state = "offline", !.due = TRUE, !.sock = None]

\* halt: the agent stops and will not reconnect by itself.
Halt == agent' = [agent EXCEPT !.state = "stopped", !.sock = None]

RecvRevoked(s) ==
  /\ agent.sock = s
  /\ socket[s].inbox # <<>> /\ Head(socket[s].inbox) = "revoked"
  /\ Leave
  /\ Halt
  /\ UNCHANGED <<device, route, lastClaim, registry, checking, faults>>

\* The close frame arrives after the frames before it.
RecvClose(s) ==
  LET why == socket[s].close IN
  /\ agent.sock = s
  /\ why # "no" /\ socket[s].inbox = <<>>
  /\ \/ why \in Permanent /\ Halt
     \/ why \notin Permanent /\ GiveUp
  /\ Leave
  /\ UNCHANGED <<device, route, lastClaim, registry, checking, faults>>

\* The connection is lost, the watchdog fires or detection fails: the agent
\* gives the socket up and will dial again.
LoseSocket(s) ==
  /\ agent.sock = s
  /\ GiveUp
  /\ Leave
  /\ UNCHANGED <<device, route, lastClaim, registry, checking, faults>>

\* The agent process ends and is started again.
Restart ==
  /\ agent # NewAgent
  /\ agent' = NewAgent
  /\ Leave
  /\ Fault
  /\ UNCHANGED <<device, route, lastClaim, registry, checking>>

-----------------------------------------------------------------------------
HelloStep(s) ==
  \/ RecvHello(s) \/ Authenticate(s) \/ AuthenticateFails(s)
  \/ Claim(s) \/ ClaimFails(s) \/ Register(s)
  \/ Welcome(s) \/ WelcomeRefused(s) \/ WelcomeFails(s)
  \/ DropRoute(s)

PresenceStep(s) ==
  \/ Heartbeat(s) \/ Refresh(s) \/ RefreshStamp(s) \/ RefreshRefused(s) \/ RefreshFails(s)

CloseStep(s) ==
  \/ HelloDeadline(s) \/ HeartbeatTimeout(s)
  \/ CloseEvent(s) \/ Drop(s)
  \/ Release(s) \/ MarkOffline(s) \/ CleanupFails(s)

AgentStep(s) ==
  \/ RecvWelcome(s) \/ GoOnline(s) \/ RecvRevoked(s)
  \/ RecvClose(s) \/ LoseSocket(s)
  \/ \E g \in Gateways : Dial(s, g)

Next ==
  \/ \E s \in Sockets : HelloStep(s) \/ PresenceStep(s) \/ CloseStep(s) \/ AgentStep(s)
  \/ \E g \in Gateways : RevalidateRead(g) \/ RevalidateAct(g) \/ Crash(g)
  \/ RouteLapses \/ SweepRoute \/ Revoke \/ Forget \/ Restart

Spec == Init /\ [][Next]_vars

-----------------------------------------------------------------------------
\* What is sure to happen: the event loops run the handlers that are due, the timers
\* of open, sweep and revalidate fire, and time passes; the control plane answers
\* every call or fails it, and answers a refresh that is tried for ever; frames
\* sent on a connection that stays up arrive; the agent sends hello and its
\* heartbeats.  Nothing obliges the network to drop a connection, a process to
\* die or restart, the agent to dial, or the owner to revoke or forget.
Fairness ==
  /\ \A s \in Sockets :
       /\ WF_vars(HelloStep(s))
       /\ WF_vars(Heartbeat(s))
       /\ SF_vars(Refresh(s))
       /\ WF_vars(RefreshStamp(s) \/ RefreshRefused(s) \/ RefreshFails(s))
       /\ WF_vars(HelloDeadline(s))
       /\ WF_vars(CloseEvent(s))
       /\ WF_vars(Release(s) \/ MarkOffline(s) \/ CleanupFails(s))
       /\ WF_vars(RecvWelcome(s) \/ RecvRevoked(s) \/ RecvClose(s))
       /\ WF_vars(GoOnline(s))
       /\ WF_vars(LoseSocket(s) /\ socket[s].end = "closed")
  /\ WF_vars(RouteLapses) /\ WF_vars(SweepRoute)
  /\ \A g \in Gateways : WF_vars(RevalidateRead(g)) /\ WF_vars(RevalidateAct(g))

FairSpec == Spec /\ Fairness

-----------------------------------------------------------------------------
(* Properties that hold.                                                   *)

\* Every variable has its type, and the records agree with each other: a
\* registered socket has been bound on that replica, and the agent has no
\* socket while a dial is due or after it was halted.
TypeOK ==
  /\ device \in DeviceStates
  /\ route \in Route
  /\ lastClaim \in Sockets \cup {None}
  /\ faults \in Nat
  /\ registry \in [Gateways -> Sockets \cup {None}]
  /\ checking \in [Gateways -> Sockets \cup {None}]
  /\ socket \in [Sockets -> Socket]
  /\ agent \in Agent
  /\ \A g \in Gateways : registry[g] # None =>
       socket[registry[g]].gw = g /\ Authenticated(registry[g])
  /\ agent.due \/ agent.state \in {"offline", "stopped"} => agent.sock = None

\* A session that is still registered and alive keeps its route: only the
\* session itself, its expiry or the owner forgetting the device removes it.
RouteOutlivesOthers ==
  [][\A s \in Sockets :
       /\ route.session = s /\ ~route.lapsed /\ Registered(s)
       /\ route' = NoRoute
       => device' = "gone"]_vars

\* Revoked is terminal (devices.ts, setPresence): no presence write of a
\* handshake, heartbeat or close that was under way brings the device back, and
\* no session takes its route, even one whose credential was checked before.
RevokedIsTerminal ==
  [][/\ device = "revoked" => device' \in {"revoked", "gone"}
     /\ device = "gone" => device' = "gone"
     /\ ~Present => lastClaim' = lastClaim]_vars

\* Revocation reaches every replica: in the end none has a socket registered for
\* the device, and none reads frames from one that was and is still open (docs/05,
\* step 8), late handshakes included.
RevokedIsDisconnected ==
  ~Present ~> [](/\ \A g \in Gateways : registry[g] = None
                 /\ \A s \in Sockets : ~(Authenticated(s) /\ Writable(s)))

\* A session that lost the route finds out and leaves the registry: "the previous
\* owner discovers the mismatch on its next refresh" (relay_routes.ts, claim), on
\* whatever replica it is and whether a newer session, an older one that was late
\* or the expiry took the route from it (relay.ts, refreshPresence).
StaleOwnerLeaves ==
  \A s \in Sockets :
    (Registered(s) /\ socket[s].end = "open" /\ route.session # s) ~> ~Registered(s)

\* A route does not outlive its session for ever: when the replica dies before its
\* close handler ran, or the release is lost, the row expires and is swept, or a
\* reconnect takes it over (relay_routes.ts, oauth_sweep.ts).
DeadRouteGoes ==
  \A s \in Sockets :
    (route.session = s /\ socket[s].end = "closed") ~> route.session # s

\* "A live session has to keep re-stamping" its presence (relay.ts,
\* onAuthenticatedFrame): whatever a late close handler left behind, a session that
\* stays up ends up owning the route and reading online.
PresenceHeals ==
  \A s \in Sockets :
    (agent.sock = s /\ agent.state = "online" /\ Present) ~>
      \/ route.session = s /\ device = "online"
      \/ agent.sock # s \/ agent.state # "online" \/ ~Present

\* No agent hangs in a handshake: a control plane that fails the read, refuses
\* or stays silent ends in a welcome or a close (relay.ts, the hello deadline).
HandshakeEnds ==
  \A s \in Sockets : (agent.sock = s /\ agent.state = "connecting") ~>
                     (agent.sock # s \/ agent.state # "connecting")

-----------------------------------------------------------------------------
(* What a comment says and the code does not keep.                         *)

\* "A reconnect always wins.  The previous owner ... closes only its stale
\* socket" (relay_routes.ts, claim): registering a socket never displaces the
\* one the agent is using.
ReconnectWins ==
  [][\A g \in Gateways, s \in Sockets :
       registry[g] = s /\ agent.sock = s /\ socket[s].end = "open"
         => registry'[g] \in {s, None}]_vars

=============================================================================
