-------------------------- MODULE DeviceRelayProofs --------------------------
(***************************************************************************)
(* Theorems about DeviceRelay, for any number of sockets, replicas and     *)
(* faults: type correctness, that the route names the latest claim, that a *)
(* live session loses it only to a later claim, its own end, its expiry or *)
(* the owner, and that a revocation is terminal.                           *)
(*                                                                         *)
(* The inductive invariant adds to the checked properties that a socket is *)
(* as new until it is dialled, and that a handler which is about to give a *)
(* route up runs for a socket that is out of every registry for good.      *)
(***************************************************************************)
EXTENDS DeviceRelay, TLAPS

\* The handshake has got past the claim: such a socket is never registered anew.
PastClaim == {"stamping", "welcomed", "over"}

\* A handler of the socket is going to release the route.
Releasing(sk) == sk.dropping \/ sk.cleanup # "none"

\* The registries and the sockets.
SocketsOK ==
  /\ registry \in [Gateways -> Sockets \cup {None}]
  /\ socket \in [Sockets -> Socket]
  /\ \A g \in Gateways : registry[g] # None =>
       socket[registry[g]].gw = g /\ Authenticated(registry[g])
  /\ \A s \in Sockets : socket[s] = NewSocket \/ (socket[s].gw # None /\ socket[s].end # "unused")
  /\ \A s \in Sockets : Releasing(socket[s]) => ~Registered(s) /\ socket[s].hello \in PastClaim

\* Whatever stale sessions refresh, release or fail after a reconnect (relay_routes.ts),
\* the route is never handed back to one: it names the session of the latest claim or
\* nobody.
RouteNamesLatestClaim == route.session \in {lastClaim, None}

\* The rows of the control plane.
RowsOK ==
  /\ device \in DeviceStates
  /\ route \in Route
  /\ lastClaim \in Sockets \cup {None}
  /\ faults \in Nat
  /\ RouteNamesLatestClaim

\* The agent.
AgentOK ==
  /\ agent \in Agent
  /\ agent.due \/ agent.state \in {"offline", "stopped"} => agent.sock = None

\* The revalidation passes.
ChecksOK == checking \in [Gateways -> Sockets \cup {None}]

RelayInv == SocketsOK /\ RowsOK /\ AgentOK /\ ChecksOK

-----------------------------------------------------------------------------
(* What the helpers return.                                                 *)

\* The two records differ at most in the close frame, the refresh and the inbox.
Alike(sk, tk) ==
  /\ sk \in Socket
  /\ sk.gw = tk.gw /\ sk.end = tk.end /\ sk.hello = tk.hello
  /\ sk.dropping = tk.dropping /\ sk.cleanup = tk.cleanup

\* Closing a socket sets its close frame and nothing else.
LEMMA ClosedKeeps ==
  ASSUME NEW sk \in Socket, NEW why \in CloseReasons
  PROVE  Alike(Closed(sk, why), sk) /\ (sk.end = "unused" => Closed(sk, why) = sk)
BY DEF Closed, Socket, Alike

\* Sending a frame changes the inbox and nothing else.
LEMMA SentKeeps ==
  ASSUME NEW s, NEW sk \in Socket, NEW frame \in {"welcome", "revoked"}
  PROVE  Alike(Sent(s, sk, frame), sk)
<1>1. Append(sk.inbox, frame) \in Seq({"welcome", "revoked"})
  BY DEF Socket
<1> QED BY <1>1 DEF Sent, Socket, Alike

\* A socket nobody has dialled has none of its handlers running.
LEMMA NewIsIdle ==
  /\ NewSocket \in Socket /\ NewSocket.hello = "none" /\ NewSocket.end = "unused"
  /\ NewSocket.refresh = "none" /\ NewSocket.inbox = <<>> /\ NewSocket.close = "no"
  /\ NewSocket.gw = None /\ ~Releasing(NewSocket)
BY DEF NewSocket, Socket, HelloStates, Releasing

\* What a presence write leaves in the device row.
LEMMA StampedType ==
  ASSUME device \in DeviceStates, NEW status \in {"offline", "online"}
  PROVE  /\ Stamped(status) \in DeviceStates
         /\ device = "revoked" => Stamped(status) = "revoked"
         /\ device = "gone" => Stamped(status) = "gone"
BY DEF Stamped, Present, DeviceStates

\* Which rows a claim and a release leave.
LEMMA RouteWrites ==
  ASSUME RowsOK, NEW s \in Sockets
  PROVE  /\ [session |-> s, lapsed |-> FALSE] \in Route
         /\ NoRoute \in Route /\ NoRoute.session = None
         /\ Released(s) \in Route /\ Released(s).session \in {lastClaim, None}
BY DEF RowsOK, Route, NoRoute, Released, RouteNamesLatestClaim

-----------------------------------------------------------------------------
(* Steps that change one socket.                                            *)

\* A socket that is registered was dialled on that replica.
LEMMA RegisteredWasDialled ==
  ASSUME SocketsOK, NEW s \in Sockets, Registered(s)
  PROVE  socket[s] # NewSocket /\ Authenticated(s)
BY DeviceRelayAssumption, NewIsIdle DEF SocketsOK, Registered, Authenticated

\* One socket goes on: it keeps its replica, or it has just been dialled; while it
\* stays registered it stays authenticated and gives no route up.
LEMMA OneSocketStep ==
  ASSUME SocketsOK, NEW s \in Sockets, NEW sk \in Socket,
         socket' = [socket EXCEPT ![s] = sk],
         sk.gw # None, sk.end # "unused",
         socket[s] = NewSocket \/ sk.gw = socket[s].gw,
         Releasing(sk) => sk.hello \in PastClaim,
         \/ registry' = Removed(s)
         \/ /\ registry' = registry
            /\ Authenticated(s) => sk.hello \in {"stamping", "welcomed"}
            /\ Releasing(sk) => Releasing(socket[s])
  PROVE  SocketsOK'
<1>1. /\ registry \in [Gateways -> Sockets \cup {None}] /\ socket \in [Sockets -> Socket]
      /\ None \notin Sockets
  BY DeviceRelayAssumption DEF SocketsOK
<1>2. /\ socket' \in [Sockets -> Socket] /\ socket'[s] = sk
      /\ \A t \in Sockets : t # s => socket'[t] = socket[t]
  BY <1>1
<1>3. /\ registry' \in [Gateways -> Sockets \cup {None}]
      /\ \A g \in Gateways : registry'[g] # None => registry'[g] = registry[g]
      /\ registry' = Removed(s) => \A g \in Gateways : registry'[g] # s
  BY <1>1 DEF Removed
<1>5. ASSUME NEW g \in Gateways, registry'[g] # None
      PROVE  socket'[registry'[g]].gw = g /\ Authenticated(registry[g])'
  <2>1. /\ registry'[g] = registry[g] /\ registry[g] \in Sockets
        /\ socket[registry[g]].gw = g /\ Authenticated(registry[g])
    BY <1>1, <1>3, <1>5 DEF SocketsOK
  <2>2. CASE registry[g] # s
    BY <1>2, <2>1, <2>2 DEF Authenticated
  <2>3. CASE registry[g] = s
    <3>1. registry' = registry
      BY <1>3, <2>1, <2>3
    <3>2. Registered(s)
      BY <2>3, <2>1 DEF Registered
    <3>3. socket[s] # NewSocket /\ Authenticated(s)
      BY <3>2, RegisteredWasDialled
    <3> QED BY <1>1, <1>2, <1>3, <2>1, <2>3, <3>1, <3>3 DEF Authenticated
  <2> QED BY <2>2, <2>3
<1>6. \A t \in Sockets : socket'[t] = NewSocket \/ (socket'[t].gw # None /\ socket'[t].end # "unused")
  BY <1>2 DEF SocketsOK
<1>7. ASSUME NEW t \in Sockets, Releasing(socket'[t])
      PROVE  ~Registered(t)' /\ socket'[t].hello \in PastClaim
  <2>1. Registered(t)' => Registered(t)
    BY <1>1, <1>3 DEF Registered
  <2>2. CASE t # s
    BY <1>2, <1>7, <2>1, <2>2 DEF SocketsOK
  <2>3. CASE t = s
    <3>1. ~Registered(s)'
      <4>1. CASE registry' = Removed(s)
        BY <1>3, <4>1 DEF Registered
      <4>2. CASE registry' # Removed(s)
        BY <1>2, <1>7, <2>1, <2>3, <4>2 DEF SocketsOK
      <4> QED BY <4>1, <4>2
    <3> QED BY <1>2, <1>7, <2>3, <3>1
  <2> QED BY <2>2, <2>3
<1> QED BY <1>2, <1>3, <1>5, <1>6, <1>7 DEF SocketsOK

\* The agent leaves its socket: only frames on their way change.
LEMMA LeaveStep ==
  ASSUME SocketsOK, Leave, UNCHANGED registry
  PROVE  SocketsOK'
<1> DEFINE left(s) == [socket[s] EXCEPT !.inbox = <<>>,
                                       !.close = IF socket[s].end = "closed" THEN "no" ELSE @]
<1>1. socket \in [Sockets -> Socket]
  BY DEF SocketsOK
<1>2. CASE agent.sock \notin Sockets
  <2>1. socket' = socket
    BY <1>1, <1>2 DEF Leave
  <2> QED BY <2>1 DEF SocketsOK, Registered, Authenticated
<1>3. ASSUME NEW s \in Sockets, agent.sock = s
      PROVE  SocketsOK'
  <2>1. socket' = [socket EXCEPT ![s] = left(s)]
    BY <1>1, <1>3 DEF Leave
  <2>2. /\ left(s) \in Socket /\ left(s).gw = socket[s].gw /\ left(s).end = socket[s].end
        /\ left(s).hello = socket[s].hello /\ left(s).dropping = socket[s].dropping
        /\ left(s).cleanup = socket[s].cleanup
    <3>1. socket[s] \in Socket /\ <<>> \in Seq({"welcome", "revoked"})
      BY <1>1
    <3> QED BY <3>1 DEF Socket
  <2>3. socket[s] = NewSocket => left(s) = socket[s]
    BY <1>1, NewIsIdle DEF Socket, NewSocket
  <2>4. CASE socket[s] = NewSocket
    <3>1. socket' = socket
      BY <1>1, <2>1, <2>3, <2>4
    <3> QED BY <3>1 DEF SocketsOK, Registered, Authenticated
  <2>5. CASE socket[s] # NewSocket
    <3>1. socket[s].gw # None /\ socket[s].end # "unused"
          /\ (Releasing(socket[s]) => socket[s].hello \in PastClaim)
      BY <2>5 DEF SocketsOK
    <3> HIDE DEF left
    <3> QED BY <2>1, <2>2, <3>1, OneSocketStep DEF Authenticated, Releasing
  <2> QED BY <2>4, <2>5
<1> QED BY <1>2, <1>3

\* A dialled socket goes on in its place: a handshake before the claim may come to
\* anything, a later one stays authenticated or keeps where it has got to.
LEMMA GoesOn ==
  ASSUME SocketsOK, NEW s \in Sockets, NEW sk \in Socket, socket[s] # NewSocket,
         socket' = [socket EXCEPT ![s] = sk], UNCHANGED registry,
         sk.gw = socket[s].gw, sk.end = socket[s].end,
         Releasing(sk) => Releasing(socket[s]),
         \/ sk.hello = socket[s].hello
         \/ socket[s].hello \notin PastClaim
         \/ {socket[s].hello, sk.hello} \subseteq {"stamping", "welcomed"}
  PROVE  SocketsOK'
<1>1. sk.gw # None /\ sk.end # "unused"
  BY DEF SocketsOK
<1>2. Releasing(socket[s]) => socket[s].hello \in PastClaim
  BY DEF SocketsOK
<1>3. /\ Releasing(sk) => sk.hello \in PastClaim
      /\ Authenticated(s) => sk.hello \in {"stamping", "welcomed"}
  BY <1>2 DEF Authenticated, PastClaim
<1> QED BY <1>1, <1>3, OneSocketStep

-----------------------------------------------------------------------------
(* Steps of the rows.                                                       *)

\* The route is kept, taken by a claim or deleted; the device row is kept or
\* written by one of the mutations.
LEMMA RowsStep ==
  ASSUME RowsOK,
         device' \in {device, "revoked", "gone", Stamped("online"), Stamped("offline")},
         \/ UNCHANGED <<route, lastClaim>>
         \/ \E s \in Sockets : TakeRoute(s)
         \/ \E s \in Sockets : route' = Released(s) /\ UNCHANGED lastClaim
         \/ route' = NoRoute /\ UNCHANGED lastClaim,
         UNCHANGED faults \/ Fault
  PROVE  RowsOK'
<1>1. device' \in DeviceStates
  BY StampedType DEF RowsOK, DeviceStates
<1>2. faults' \in Nat
  BY DEF RowsOK, Fault
<1>3. /\ route' \in Route /\ lastClaim' \in Sockets \cup {None}
      /\ route'.session \in {lastClaim', None}
  <2>1. CASE UNCHANGED <<route, lastClaim>>
    BY <2>1 DEF RowsOK, RouteNamesLatestClaim
  <2>2. CASE \E s \in Sockets : TakeRoute(s)
    BY <2>2, RouteWrites DEF TakeRoute
  <2>3. CASE \E s \in Sockets : route' = Released(s) /\ UNCHANGED lastClaim
    BY <2>3, RouteWrites DEF RowsOK
  <2>4. CASE route' = NoRoute /\ UNCHANGED lastClaim
    BY <2>4 DEF RowsOK, Route, NoRoute
  <2> QED BY <2>1, <2>2, <2>3, <2>4
<1> QED BY <1>1, <1>2, <1>3 DEF RowsOK, RouteNamesLatestClaim

-----------------------------------------------------------------------------
(* The handshake.                                                           *)

\* A claimed socket takes its replica's place in the registry; the socket it
\* displaces is closed, and stays as it is otherwise.
LEMMA RegisterStep ==
  ASSUME SocketsOK, NEW s \in Sockets, Register(s)
  PROVE  SocketsOK'
<1> DEFINE g == socket[s].gw
           mine == [socket[s] EXCEPT !.hello = "stamping"]
<1>1. /\ socket \in [Sockets -> Socket] /\ registry \in [Gateways -> Sockets \cup {None}]
      /\ socket[s] \in Socket /\ None \notin Sockets
  BY DeviceRelayAssumption DEF SocketsOK
<1>2. socket[s].hello = "claimed" /\ registry' = [registry EXCEPT ![g] = s]
  BY DEF Register
<1>3. /\ g \in Gateways /\ g # None /\ socket[s].end # "unused"
      /\ ~Releasing(socket[s]) /\ ~Registered(s)
  <2>1. socket[s] # NewSocket
    BY <1>2, NewIsIdle
  <2>2. g # None /\ socket[s].end # "unused"
    BY <2>1 DEF SocketsOK
  <2>3. g \in Gateways
    BY <1>1, <2>2 DEF Socket
  <2>4. "claimed" \notin PastClaim
    BY DEF PastClaim
  <2>5. ~Registered(s)
    BY <1>2, RegisteredWasDialled DEF Authenticated
  <2> QED BY <1>2, <2>2, <2>3, <2>4, <2>5 DEF SocketsOK
<1>4. mine \in Socket /\ mine.gw = g /\ mine.end = socket[s].end /\ mine.hello = "stamping"
      /\ mine.dropping = socket[s].dropping /\ mine.cleanup = socket[s].cleanup
  BY <1>1 DEF Socket, HelloStates
<1>5. socket'[s] = mine
  BY DEF Register
<1>6. ASSUME NEW t \in Sockets, t # s
      PROVE  Alike(socket'[t], socket[t]) /\ (socket[t] = NewSocket => socket'[t] = NewSocket)
  <2>1. socket'[t] = Closed(socket[t], "replaced") \/ socket'[t] = socket[t]
    BY <1>6 DEF Register
  <2>2. socket[t] \in Socket /\ "replaced" \in CloseReasons
    BY <1>1 DEF CloseReasons, Unauthorized
  <2> QED BY <2>1, <2>2, ClosedKeeps, NewIsIdle DEF Alike
<1> HIDE DEF mine, g
<1> USE DEF Alike
<1>7. socket' \in [Sockets -> Socket]
  <2>1. \A t \in Sockets : socket'[t] \in Socket
    BY <1>4, <1>5, <1>6
  <2>2. socket' = [t \in Sockets |-> socket'[t]]
    BY DEF Register
  <2> QED BY <2>1, <2>2
<1>8. /\ registry' \in [Gateways -> Sockets \cup {None}]
      /\ registry'[g] = s /\ \A h \in Gateways : h # g => registry'[h] = registry[h] /\ registry[h] # s
  BY <1>1, <1>2, <1>3 DEF Registered
<1>9. ASSUME NEW h \in Gateways, registry'[h] # None
      PROVE  socket'[registry'[h]].gw = h /\ Authenticated(registry[h])'
  <2>1. CASE h = g
    BY <1>4, <1>5, <1>8, <2>1 DEF Authenticated
  <2>2. CASE h # g
    <3>1. registry'[h] = registry[h] /\ registry[h] \in Sockets /\ registry[h] # s
      BY <1>1, <1>8, <1>9, <2>2
    <3>2. socket[registry[h]].gw = h /\ Authenticated(registry[h])
      BY <1>9, <3>1 DEF SocketsOK
    <3> QED BY <1>6, <3>1, <3>2 DEF Authenticated
  <2> QED BY <2>1, <2>2
<1>10. \A t \in Sockets : socket'[t] = NewSocket \/ (socket'[t].gw # None /\ socket'[t].end # "unused")
  BY <1>3, <1>4, <1>5, <1>6 DEF SocketsOK
<1>11. ASSUME NEW t \in Sockets, Releasing(socket'[t])
       PROVE  ~Registered(t)' /\ socket'[t].hello \in PastClaim
  <2>1. t # s /\ Releasing(socket[t])
    BY <1>3, <1>4, <1>5, <1>6, <1>11 DEF Releasing
  <2>2. ~Registered(t) /\ socket[t].hello \in PastClaim
    BY <2>1 DEF SocketsOK
  <2> QED BY <1>1, <1>6, <1>8, <2>1, <2>2 DEF Registered
<1> QED BY <1>7, <1>8, <1>9, <1>10, <1>11 DEF SocketsOK

\* A write of the handshake has failed: the socket is out of the registry and its
\* route is going to be released.
LEMMA BackOutStep ==
  ASSUME SocketsOK, NEW s \in Sockets, socket[s].hello = "stamping", BackOut(s)
  PROVE  SocketsOK'
<1> DEFINE out == [socket[s] EXCEPT !.hello = "over", !.dropping = TRUE]
<1>1. socket[s] \in Socket /\ socket[s].gw # None /\ socket[s].end # "unused"
  BY NewIsIdle DEF SocketsOK
<1>2. out \in Socket /\ out.gw = socket[s].gw /\ out.end = socket[s].end /\ out.hello = "over"
  BY <1>1 DEF Socket, HelloStates
<1>3. socket' = [socket EXCEPT ![s] = Closed(out, "unavailable")] /\ registry' = Removed(s)
  BY DEF BackOut
<1>4. "unavailable" \in CloseReasons /\ "over" \in PastClaim
  BY DEF CloseReasons, Retry, PastClaim
<1> HIDE DEF out
<1> DEFINE closed == Closed(out, "unavailable")
<1>5. closed \in Socket /\ closed.gw = out.gw /\ closed.end = out.end /\ closed.hello = out.hello
  BY <1>2, <1>4, ClosedKeeps DEF Alike
<1>6. socket' = [socket EXCEPT ![s] = closed]
  BY <1>3
<1>7. closed.gw # None /\ closed.end # "unused" /\ closed.hello \in PastClaim
      /\ closed.gw = socket[s].gw
  BY <1>1, <1>2, <1>4, <1>5
<1> HIDE DEF closed
<1> QED BY <1>3, <1>5, <1>6, <1>7, OneSocketStep

\* A socket whose handshake is under way, or that has a handler running, a frame
\* or a close on its way, or an open end, was dialled.
LEMMA BusyIsDialled ==
  ASSUME SocketsOK, NEW s \in Sockets,
         \/ socket[s].hello # "none" \/ socket[s].refresh # "none" \/ Releasing(socket[s])
         \/ socket[s].inbox # <<>> \/ socket[s].close # "no" \/ socket[s].end # "unused"
  PROVE  socket[s] # NewSocket /\ socket[s] \in Socket
BY NewIsIdle DEF SocketsOK

\* Every step of a handshake keeps the registries and the sockets in order.
LEMMA HelloSockets ==
  ASSUME SocketsOK, NEW s \in Sockets, HelloStep(s)
  PROVE  SocketsOK'
<1>1. socket[s] \in Socket /\ socket \in [Sockets -> Socket]
  BY DEF SocketsOK
<1> DEFINE at(state) == [socket[s] EXCEPT !.hello = state]
<1>2. ASSUME NEW state \in HelloStates
      PROVE  /\ at(state) \in Socket
             /\ at(state).gw = socket[s].gw /\ at(state).end = socket[s].end
             /\ at(state).hello = state
             /\ at(state).dropping = socket[s].dropping /\ at(state).cleanup = socket[s].cleanup
  BY <1>1 DEF Socket
<1>3. {"authenticating", "claiming", "claimed", "welcomed", "over"} \subseteq HelloStates
  BY DEF HelloStates
<1>4. {"credential rejected", "revoked", "unavailable"} \subseteq CloseReasons
  BY DEF CloseReasons, Unauthorized, Retry
<1>5. ASSUME NEW why \in {"credential rejected", "revoked", "unavailable"}
      PROVE  Alike(Closed(at("over"), why), at("over"))
  BY <1>2, <1>3, <1>4, ClosedKeeps
<1>6. ASSUME NEW state \in HelloStates, NEW sk, sk = at(state) \/ Alike(sk, at(state)),
             socket' = [socket EXCEPT ![s] = sk], UNCHANGED registry,
             socket[s] # NewSocket,
             \/ socket[s].hello \notin PastClaim
             \/ {socket[s].hello, state} \subseteq {"stamping", "welcomed"}
      PROVE  SocketsOK'
  <2>1. /\ sk \in Socket /\ sk.gw = socket[s].gw /\ sk.end = socket[s].end /\ sk.hello = state
        /\ sk.dropping = socket[s].dropping /\ sk.cleanup = socket[s].cleanup
    BY <1>2, <1>6 DEF Alike
  <2> QED BY <1>6, <2>1, GoesOn DEF Releasing
<1> HIDE DEF at
<1>7. CASE RecvHello(s)
  <2>1. socket[s] # NewSocket /\ socket[s].hello \notin PastClaim
    BY <1>7, NewIsIdle DEF RecvHello, Writable, PastClaim
  <2>2. socket' = [socket EXCEPT ![s] = at("authenticating")] /\ UNCHANGED registry
    BY <1>7 DEF RecvHello, at
  <2> QED BY <1>3, <1>6, <2>1, <2>2
<1>8. CASE Authenticate(s)
  <2>1. socket[s] # NewSocket /\ socket[s].hello \notin PastClaim
    BY <1>8, NewIsIdle DEF Authenticate, PastClaim
  <2>2. UNCHANGED registry
    BY <1>8 DEF Authenticate
  <2>3. CASE Present
    <3>1. socket' = [socket EXCEPT ![s] = at("claiming")]
      BY <1>8, <2>3 DEF Authenticate, at
    <3> QED BY <1>3, <1>6, <2>1, <2>2, <3>1
  <2>4. CASE ~Present
    <3>1. \E why \in {"credential rejected", "revoked"} :
            socket' = [socket EXCEPT ![s] = Closed(at("over"), why)]
      BY <1>8, <2>4 DEF Authenticate, at
    <3> QED BY <1>3, <1>5, <1>6, <2>1, <2>2, <3>1
  <2> QED BY <2>3, <2>4
<1>9. CASE AuthenticateFails(s)
  <2>1. socket[s] # NewSocket /\ socket[s].hello \notin PastClaim
    BY <1>9, NewIsIdle DEF AuthenticateFails, PastClaim
  <2>2. socket' = [socket EXCEPT ![s] = at("over")] /\ UNCHANGED registry
    BY <1>9 DEF AuthenticateFails, at
  <2> QED BY <1>3, <1>6, <2>1, <2>2
<1>10. CASE Claim(s)
  <2>1. socket[s] # NewSocket /\ socket[s].hello \notin PastClaim
    BY <1>10, NewIsIdle DEF Claim, PastClaim
  <2>2. UNCHANGED registry
    BY <1>10 DEF Claim
  <2>3. CASE socket' = [socket EXCEPT ![s] = at("claimed")]
    BY <1>3, <1>6, <2>1, <2>2, <2>3
  <2>4. CASE socket' = [socket EXCEPT ![s] = Closed(at("over"), "revoked")]
    BY <1>3, <1>5, <1>6, <2>1, <2>2, <2>4
  <2> QED BY <1>10, <2>3, <2>4 DEF Claim, at
<1>11. CASE ClaimFails(s)
  <2>1. socket[s] # NewSocket /\ socket[s].hello \notin PastClaim
    BY <1>11, NewIsIdle DEF ClaimFails, PastClaim
  <2>2. /\ socket' = [socket EXCEPT ![s] = Closed(at("over"), "unavailable")]
        /\ UNCHANGED registry
    BY <1>11 DEF ClaimFails, at
  <2> QED BY <1>3, <1>5, <1>6, <2>1, <2>2
<1>12. CASE Register(s)
  BY <1>12, RegisterStep
<1>13. CASE Welcome(s)
  <2>1. socket[s] # NewSocket /\ socket[s].hello = "stamping"
    BY <1>13, NewIsIdle DEF Welcome
  <2>2. /\ socket' = [socket EXCEPT ![s] = Sent(s, at("welcomed"), "welcome")]
        /\ UNCHANGED registry
    BY <1>13 DEF Welcome, at
  <2>3. Alike(Sent(s, at("welcomed"), "welcome"), at("welcomed"))
    BY <1>2, <1>3, SentKeeps
  <2> QED BY <1>3, <1>6, <2>1, <2>2, <2>3
<1>14. CASE WelcomeRefused(s) \/ WelcomeFails(s)
  BY <1>14, BackOutStep DEF WelcomeRefused, WelcomeFails
<1>15. CASE DropRoute(s)
  <2> DEFINE dropped == [socket[s] EXCEPT !.dropping = FALSE]
  <2>1. socket[s] # NewSocket
    BY <1>15, BusyIsDialled DEF DropRoute, Releasing
  <2>2. /\ dropped \in Socket /\ dropped.gw = socket[s].gw /\ dropped.end = socket[s].end
        /\ dropped.hello = socket[s].hello /\ (Releasing(dropped) => Releasing(socket[s]))
    BY <1>1 DEF Socket, Releasing
  <2>3. socket' = [socket EXCEPT ![s] = dropped] /\ UNCHANGED registry
    BY <1>15 DEF DropRoute
  <2> HIDE DEF dropped
  <2> QED BY <2>1, <2>2, <2>3, GoesOn
<1> QED BY <1>7, <1>8, <1>9, <1>10, <1>11, <1>12, <1>13, <1>14, <1>15 DEF HelloStep

\* Neither does a refresh touch what a registry promises.
LEMMA PresenceSockets ==
  ASSUME SocketsOK, NEW s \in Sockets, PresenceStep(s)
  PROVE  SocketsOK'
<1>1. socket[s] \in Socket /\ UNCHANGED registry
  BY DEF SocketsOK, PresenceStep, Heartbeat, Refresh, RefreshStamp, RefreshRefused, RefreshFails
<1>2. socket[s] # NewSocket
  BY NewIsIdle DEF PresenceStep, Heartbeat, Writable, Refresh, RefreshStamp, RefreshRefused, RefreshFails
<1>3. ASSUME NEW sk, Alike(sk, socket[s]), socket' = [socket EXCEPT ![s] = sk]
      PROVE  SocketsOK'
  BY <1>1, <1>2, <1>3, GoesOn DEF Alike, Releasing
<1> DEFINE idle == [socket[s] EXCEPT !.refresh = "none"]
           due == [socket[s] EXCEPT !.refresh = "refreshing"]
           owner == [socket[s] EXCEPT !.refresh = "stamping", !.starved = FALSE]
           failed == [socket[s] EXCEPT !.refresh = "none", !.starved = TRUE]
<1>4. Alike(idle, socket[s]) /\ Alike(due, socket[s]) /\ Alike(owner, socket[s]) /\ Alike(failed, socket[s])
  BY <1>1 DEF Alike, Socket
<1>5. Alike(Closed(idle, "replaced"), socket[s])
  <2>1. idle \in Socket /\ "replaced" \in CloseReasons
    BY <1>4 DEF Alike, CloseReasons, Unauthorized
  <2> HIDE DEF idle
  <2>2. Alike(Closed(idle, "replaced"), idle)
    BY <2>1, ClosedKeeps
  <2> QED BY <1>4, <2>2 DEF Alike
<1>6. \/ socket' = [socket EXCEPT ![s] = idle] \/ socket' = [socket EXCEPT ![s] = due]
      \/ socket' = [socket EXCEPT ![s] = owner] \/ socket' = [socket EXCEPT ![s] = failed]
      \/ socket' = [socket EXCEPT ![s] = Closed(idle, "replaced")]
  BY DEF PresenceStep, Heartbeat, Refresh, RefreshStamp, RefreshRefused, RefreshFails
<1> HIDE DEF idle, due, owner, failed
<1> QED BY <1>3, <1>4, <1>5, <1>6

\* The close handler takes the socket out before it releases anything.
LEMMA OnCloseStep ==
  ASSUME SocketsOK, NEW s \in Sockets, OnClose(s)
  PROVE  SocketsOK'
<1> DEFINE hello == IF socket[s].hello = "none" THEN "over" ELSE socket[s].hello
           close == IF agent.sock = s THEN socket[s].close ELSE "no"
           cleanup == IF Registered(s) THEN "releasing" ELSE "none"
           over == [socket[s] EXCEPT !.end = "closed", !.hello = hello, !.starved = FALSE,
                      !.close = close, !.cleanup = cleanup]
<1>1. socket[s] \in Socket /\ socket[s].end = "open"
  BY DEF SocketsOK, OnClose
<1>2. socket[s] # NewSocket
  BY <1>1, NewIsIdle
<1>3. socket[s].gw # None /\ (Releasing(socket[s]) => socket[s].hello \in PastClaim)
  BY <1>2 DEF SocketsOK
<1>4. over \in Socket
  <2>1. hello \in HelloStates
    BY <1>1 DEF Socket, HelloStates
  <2>2. close \in CloseReasons \cup {"no"}
    BY <1>1 DEF Socket
  <2>3. cleanup \in {"none", "releasing", "marking"}
    OBVIOUS
  <2> HIDE DEF hello, close, cleanup
  <2> QED BY <1>1, <2>1, <2>2, <2>3 DEF Socket
<1>5. over.gw = socket[s].gw /\ over.end = "closed" /\ over.dropping = socket[s].dropping
      /\ over.cleanup = (IF Registered(s) THEN "releasing" ELSE "none")
      /\ over.hello = (IF socket[s].hello = "none" THEN "over" ELSE socket[s].hello)
  BY <1>1 DEF Socket
<1>6. socket' = [socket EXCEPT ![s] = over] /\ registry' = Removed(s)
  BY <1>1 DEF OnClose, Socket
<1> HIDE DEF over
<1>7. Releasing(over) => over.hello \in PastClaim
  <2>1. CASE Registered(s)
    <3>1. socket[s].hello \in PastClaim /\ socket[s].hello # "none"
      BY <2>1, RegisteredWasDialled DEF Authenticated, PastClaim
    <3> QED BY <1>5, <3>1
  <2>2. CASE ~Registered(s)
    BY <1>3, <1>5, <2>2 DEF Releasing, PastClaim
  <2> QED BY <2>1, <2>2
<1> QED BY <1>3, <1>4, <1>5, <1>6, <1>7, OneSocketStep

\* What is left of a close, and the timers that bring one about.
LEMMA CloseSockets ==
  ASSUME SocketsOK, NEW s \in Sockets, CloseStep(s)
  PROVE  SocketsOK'
<1>1. socket[s] \in Socket
  BY DEF SocketsOK
<1>2. CASE HelloDeadline(s) \/ HeartbeatTimeout(s)
  <2>1. /\ socket' = [socket EXCEPT ![s] = Closed(socket[s], "timed out")]
        /\ UNCHANGED registry
    BY <1>2 DEF HelloDeadline, HeartbeatTimeout
  <2>2. socket[s] # NewSocket
    BY <1>2, NewIsIdle DEF HelloDeadline, HeartbeatTimeout, Writable
  <2>3. Alike(Closed(socket[s], "timed out"), socket[s])
    BY <1>1, ClosedKeeps DEF CloseReasons, Unauthorized
  <2> DEFINE closed == Closed(socket[s], "timed out")
  <2> HIDE DEF closed
  <2> QED BY <2>1, <2>2, <2>3, GoesOn DEF Alike, Releasing, closed
<1>3. CASE CloseEvent(s) \/ Drop(s)
  BY <1>3, OnCloseStep DEF CloseEvent, Drop
<1>4. CASE Release(s) \/ MarkOffline(s) \/ CleanupFails(s)
  <2> DEFINE to(next) == [socket[s] EXCEPT !.cleanup = next]
  <2>1. PICK next \in {"none", "marking"} : socket' = [socket EXCEPT ![s] = to(next)]
    BY <1>4 DEF Release, MarkOffline, CleanupFails
  <2>2. socket[s].cleanup # "none" /\ UNCHANGED registry
    BY <1>4 DEF Release, MarkOffline, CleanupFails
  <2>3. socket[s] # NewSocket /\ Releasing(socket[s])
    BY <2>2, NewIsIdle DEF Releasing
  <2>4. to(next) \in Socket /\ to(next).gw = socket[s].gw /\ to(next).end = socket[s].end
        /\ to(next).hello = socket[s].hello
    BY <1>1 DEF Socket
  <2> HIDE DEF to
  <2> QED BY <2>1, <2>2, <2>3, <2>4, GoesOn
<1> QED BY <1>2, <1>3, <1>4 DEF CloseStep

\* The agent changes one socket: it dials it, takes a frame from it or leaves it.
LEMMA AgentSockets ==
  ASSUME SocketsOK, NEW s \in Sockets, AgentStep(s)
  PROVE  SocketsOK'
<1>1. socket[s] \in Socket
  BY DEF SocketsOK
<1>2. CASE RecvWelcome(s)
  <2> DEFINE heard == [socket[s] EXCEPT !.inbox = Tail(socket[s].inbox)]
  <2>1. socket[s] # NewSocket /\ socket[s].inbox # <<>>
    BY <1>2, NewIsIdle DEF RecvWelcome
  <2>2. socket[s].inbox \in Seq({"welcome", "revoked"})
    BY <1>1 DEF Socket
  <2>3. Tail(socket[s].inbox) \in Seq({"welcome", "revoked"})
    BY <2>1, <2>2
  <2>4. Alike(heard, socket[s])
    BY <1>1, <2>3 DEF Socket, Alike
  <2>5. socket' = [socket EXCEPT ![s] = heard] /\ UNCHANGED registry
    BY <1>2 DEF RecvWelcome
  <2> HIDE DEF heard
  <2> QED BY <2>1, <2>4, <2>5, GoesOn DEF Alike, Releasing
<1>3. CASE GoOnline(s)
  BY <1>3 DEF GoOnline, SocketsOK, Registered, Authenticated
<1>4. CASE RecvRevoked(s) \/ RecvClose(s) \/ LoseSocket(s)
  BY <1>4, LeaveStep DEF RecvRevoked, RecvClose, LoseSocket
<1>5. ASSUME NEW g \in Gateways, Dial(s, g)
      PROVE  SocketsOK'
  <2> DEFINE dialled == [NewSocket EXCEPT !.gw = g, !.end = "open"]
  <2>1. socket[s] = NewSocket
    BY <1>5 DEF Dial, SocketsOK
  <2>2. socket' = [socket EXCEPT ![s] = dialled] /\ UNCHANGED registry
    BY <1>5, <2>1 DEF Dial
  <2>3. dialled \in Socket /\ dialled.gw = g /\ dialled.end = "open" /\ ~Releasing(dialled)
    BY NewIsIdle DEF Socket, Releasing
  <2>4. g # None
    BY DeviceRelayAssumption
  <2>5. ~Authenticated(s)
    BY <2>1, NewIsIdle DEF Authenticated
  <2> HIDE DEF dialled
  <2> QED BY <2>1, <2>2, <2>3, <2>4, <2>5, OneSocketStep
<1> QED BY <1>2, <1>3, <1>4, <1>5 DEF AgentStep

\* A revalidation acts on the socket it has looked up, if it still is registered.
LEMMA RevalidateSockets ==
  ASSUME SocketsOK, NEW g \in Gateways, RevalidateRead(g) \/ RevalidateAct(g)
  PROVE  SocketsOK'
<1>1. registry \in [Gateways -> Sockets \cup {None}] /\ socket \in [Sockets -> Socket]
  BY DEF SocketsOK
<1>2. CASE UNCHANGED <<registry, socket>>
  BY <1>2 DEF SocketsOK, Registered, Authenticated
<1>3. ASSUME NEW s \in Sockets, s = registry[g],
             registry' = [registry EXCEPT ![g] = None],
             socket' = [socket EXCEPT ![s] =
               Closed(Sent(s, [socket[s] EXCEPT !.dropping = TRUE], "revoked"), "revoked")]
      PROVE  SocketsOK'
  <2> DEFINE out == [socket[s] EXCEPT !.dropping = TRUE]
             told == Sent(s, out, "revoked")
             gone == Closed(told, "revoked")
  <2>1. /\ socket[s] # NewSocket /\ Authenticated(s)
        /\ socket[s].gw # None /\ socket[s].end # "unused"
    BY <1>3, RegisteredWasDialled DEF SocketsOK, Registered
  <2>2. \A h \in Gateways : registry[h] = s => h = g
    BY <1>1, <1>3, DeviceRelayAssumption DEF SocketsOK
  <2>3. registry' = Removed(s)
    BY <1>1, <1>3, <2>2 DEF Removed
  <2>4. out \in Socket /\ out.gw = socket[s].gw /\ out.end = socket[s].end /\ out.hello = socket[s].hello
    BY <1>1 DEF Socket
  <2>5. Alike(told, out)
    <3> HIDE DEF out
    <3> QED BY <2>4, SentKeeps
  <2>6. Alike(gone, told)
    <3> HIDE DEF told
    <3> QED BY <2>5, ClosedKeeps DEF Alike, CloseReasons
  <2>7. socket' = [socket EXCEPT ![s] = gone]
    BY <1>3
  <2> HIDE DEF out, told, gone
  <2>8. gone \in Socket /\ gone.gw = socket[s].gw /\ gone.end # "unused" /\ gone.hello \in PastClaim
    BY <2>1, <2>4, <2>5, <2>6 DEF Alike, Authenticated, PastClaim
  <2> QED BY <2>1, <2>3, <2>7, <2>8, OneSocketStep
<1>4. CASE RevalidateAct(g) /\ ~UNCHANGED <<registry, socket>>
  <2> DEFINE s == checking[g]
  <2>1. s = registry[g] /\ s # None
    BY <1>4 DEF RevalidateAct
  <2>2. s \in Sockets
    BY <1>1, <2>1
  <2>3. /\ registry' = [registry EXCEPT ![g] = None]
        /\ socket' = [socket EXCEPT ![s] =
             Closed(Sent(s, [socket[s] EXCEPT !.dropping = TRUE], "revoked"), "revoked")]
    BY <1>4 DEF RevalidateAct
  <2> HIDE DEF s
  <2> QED BY <1>3, <2>1, <2>2, <2>3
<1> QED BY <1>2, <1>4 DEF RevalidateRead

\* A replica that dies takes its sockets and their handlers with it.
LEMMA CrashSockets ==
  ASSUME SocketsOK, NEW g \in Gateways, Crash(g)
  PROVE  SocketsOK'
<1> DEFINE dead == [NewSocket EXCEPT !.gw = g, !.end = "closed", !.hello = "over"]
<1>1. /\ registry \in [Gateways -> Sockets \cup {None}] /\ socket \in [Sockets -> Socket]
      /\ g # None
  BY DeviceRelayAssumption DEF SocketsOK
<1>2. dead \in Socket /\ dead.gw = g /\ dead.end = "closed" /\ ~Releasing(dead)
  BY NewIsIdle DEF Socket, HelloStates, Releasing
<1>3. /\ registry' = [registry EXCEPT ![g] = None]
      /\ socket' = [s \in Sockets |-> IF socket[s].gw = g THEN dead ELSE socket[s]]
  BY DEF Crash
<1> HIDE DEF dead
<1>4. socket' \in [Sockets -> Socket] /\ registry' \in [Gateways -> Sockets \cup {None}]
  BY <1>1, <1>2, <1>3
<1>5. ASSUME NEW h \in Gateways, registry'[h] # None
      PROVE  socket'[registry'[h]].gw = h /\ Authenticated(registry[h])'
  <2>1. h # g /\ registry'[h] = registry[h]
    BY <1>1, <1>3, <1>5
  <2>2. registry[h] \in Sockets /\ socket[registry[h]].gw = h /\ Authenticated(registry[h])
    BY <1>1, <1>5, <2>1 DEF SocketsOK
  <2>3. socket'[registry[h]] = socket[registry[h]]
    BY <1>3, <2>1, <2>2
  <2> QED BY <2>1, <2>2, <2>3 DEF Authenticated
<1>6. \A s \in Sockets : socket'[s] = NewSocket \/ (socket'[s].gw # None /\ socket'[s].end # "unused")
  BY <1>1, <1>2, <1>3 DEF SocketsOK
<1>7. ASSUME NEW s \in Sockets, Releasing(socket'[s])
      PROVE  ~Registered(s)' /\ socket'[s].hello \in PastClaim
  <2>1. socket'[s] = socket[s]
    BY <1>2, <1>3, <1>7
  <2>2. ~Registered(s) /\ socket[s].hello \in PastClaim
    BY <1>7, <2>1 DEF SocketsOK
  <2> QED BY <1>1, <1>3, <2>1, <2>2, DeviceRelayAssumption DEF Registered
<1> QED BY <1>4, <1>5, <1>6, <1>7 DEF SocketsOK

-----------------------------------------------------------------------------
(* The agent, and the rows, across every kind of step.                      *)

\* The agent has no socket while a dial is due or after it was halted.
LEMMA AgentKeeps ==
  ASSUME AgentOK, NEW s \in Sockets, AgentStep(s)
  PROVE  AgentOK'
<1>1. agent \in Agent
  BY DEF AgentOK
<1>2. CASE RecvWelcome(s)
  BY <1>1, <1>2 DEF RecvWelcome, AgentOK, Agent
<1>3. CASE GoOnline(s)
  BY <1>1, <1>3 DEF GoOnline, AgentOK, Agent, AgentStates
<1>4. CASE RecvRevoked(s) \/ RecvClose(s) \/ LoseSocket(s)
  BY <1>1, <1>4 DEF RecvRevoked, RecvClose, LoseSocket, Halt, GiveUp, AgentOK, Agent, AgentStates
<1>5. CASE \E g \in Gateways : Dial(s, g)
  <2>1. agent' = [agent EXCEPT !.state = "connecting", !.due = FALSE, !.sock = s]
    BY <1>5 DEF Dial
  <2>2. agent' \in Agent /\ agent'.due = FALSE /\ agent'.state = "connecting"
    BY <1>1, <2>1 DEF Agent, AgentStates
  <2> QED BY <2>2 DEF AgentOK
<1> QED BY <1>2, <1>3, <1>4, <1>5 DEF AgentStep

\* What a handler does to the rows is one of the writes RowsStep knows.
LEMMA HandlerRows ==
  ASSUME RowsOK, NEW s \in Sockets,
         HelloStep(s) \/ PresenceStep(s) \/ CloseStep(s) \/ AgentStep(s)
  PROVE  RowsOK'
<1>1. CASE HelloStep(s)
  <2>1. device' \in {device, Stamped("online")}
    BY <1>1 DEF HelloStep, RecvHello, Authenticate, AuthenticateFails, Claim, ClaimFails, Register,
      Welcome, WelcomeRefused, WelcomeFails, DropRoute
  <2>2. UNCHANGED faults \/ Fault
    BY <1>1 DEF HelloStep, RecvHello, Authenticate, AuthenticateFails, Claim, ClaimFails, Register,
      Welcome, WelcomeRefused, WelcomeFails, DropRoute
  <2>3. \/ UNCHANGED <<route, lastClaim>> \/ TakeRoute(s)
        \/ route' = Released(s) /\ UNCHANGED lastClaim
    BY <1>1 DEF HelloStep, RecvHello, Authenticate, AuthenticateFails, Claim, ClaimFails, Register,
      Welcome, WelcomeRefused, WelcomeFails, DropRoute, BackOut
  <2> QED BY <2>1, <2>2, <2>3, RowsStep
<1>2. CASE PresenceStep(s)
  <2>1. device' \in {device, Stamped("online")} /\ UNCHANGED <<route, lastClaim>>
    BY <1>2 DEF PresenceStep, Heartbeat, Refresh, RefreshStamp, RefreshRefused, RefreshFails
  <2>2. UNCHANGED faults \/ Fault
    BY <1>2 DEF PresenceStep, Heartbeat, Refresh, RefreshStamp, RefreshRefused, RefreshFails
  <2> QED BY <2>1, <2>2, RowsStep
<1>3. CASE CloseStep(s)
  <2>1. device' \in {device, Stamped("offline")} /\ UNCHANGED lastClaim
    BY <1>3 DEF CloseStep, HelloDeadline, HeartbeatTimeout, CloseEvent, Drop, OnClose, Release,
      MarkOffline, CleanupFails
  <2>2. UNCHANGED faults \/ Fault
    BY <1>3 DEF CloseStep, HelloDeadline, HeartbeatTimeout, CloseEvent, Drop, OnClose, Release,
      MarkOffline, CleanupFails
  <2>3. route' = route \/ route' = Released(s)
    BY <1>3 DEF CloseStep, HelloDeadline, HeartbeatTimeout, CloseEvent, Drop, OnClose, Release,
      MarkOffline, CleanupFails
  <2> QED BY <2>1, <2>2, <2>3, RowsStep
<1>4. CASE AgentStep(s)
  <2>1. UNCHANGED <<device, route, lastClaim, faults>>
    BY <1>4 DEF AgentStep, RecvWelcome, GoOnline, RecvRevoked, RecvClose, LoseSocket, Dial
  <2> QED BY <2>1, RowsStep
<1> QED BY <1>1, <1>2, <1>3, <1>4

\* And so is what the owner, the sweeps and the clock do.
LEMMA GlobalRows ==
  ASSUME RowsOK,
         \/ \E g \in Gateways : RevalidateRead(g) \/ RevalidateAct(g) \/ Crash(g)
         \/ RouteLapses \/ SweepRoute \/ Revoke \/ Forget \/ Restart
  PROVE  RowsOK'
<1>1. CASE \E g \in Gateways : RevalidateRead(g) \/ RevalidateAct(g) \/ Crash(g)
  <2>1. UNCHANGED <<device, route, lastClaim>> /\ (UNCHANGED faults \/ Fault)
    BY <1>1 DEF RevalidateRead, RevalidateAct, Crash
  <2> QED BY <2>1, RowsStep
<1>2. CASE RouteLapses
  <2>1. route' \in Route /\ route'.session = route.session /\ UNCHANGED <<device, lastClaim, faults>>
    BY <1>2 DEF RouteLapses, RowsOK, Route
  <2> QED BY <2>1 DEF RowsOK, RouteNamesLatestClaim
<1>3. CASE SweepRoute \/ Revoke \/ Forget
  BY <1>3, RowsStep DEF SweepRoute, Revoke, Forget
<1>4. CASE Restart
  BY <1>4, RowsStep DEF Restart
<1> QED BY <1>1, <1>2, <1>3, <1>4

-----------------------------------------------------------------------------
(* The invariant.                                                           *)

\* The initial state.
LEMMA RelayInitInv == Init => RelayInv
<1> SUFFICES ASSUME Init PROVE RelayInv
  OBVIOUS
<1>1. SocketsOK
  BY NewIsIdle DEF Init, SocketsOK, Registered
<1>2. RowsOK
  BY DEF Init, RowsOK, DeviceStates, Route, NoRoute, RouteNamesLatestClaim
<1>3. AgentOK
  BY DEF Init, AgentOK, NewAgent, Agent, AgentStates
<1> QED BY <1>1, <1>2, <1>3 DEF RelayInv, ChecksOK, Init

\* Every step keeps it.
LEMMA RelayInductive == RelayInv /\ [Next]_vars => RelayInv'
<1> SUFFICES ASSUME RelayInv, [Next]_vars PROVE RelayInv'
  OBVIOUS
<1> USE DEF RelayInv
<1>1. CASE UNCHANGED vars
  BY <1>1 DEF vars, SocketsOK, Registered, Authenticated, RowsOK, RouteNamesLatestClaim, AgentOK, ChecksOK
<1>2. ASSUME NEW s \in Sockets, HelloStep(s)
      PROVE  RelayInv'
  <2>1. UNCHANGED <<checking, agent>>
    BY <1>2 DEF HelloStep, RecvHello, Authenticate, AuthenticateFails, Claim, ClaimFails, Register,
      Welcome, WelcomeRefused, WelcomeFails, BackOut, DropRoute
  <2> QED BY <1>2, <2>1, HelloSockets, HandlerRows DEF AgentOK, ChecksOK
<1>3. ASSUME NEW s \in Sockets, PresenceStep(s)
      PROVE  RelayInv'
  <2>1. UNCHANGED <<checking, agent>>
    BY <1>3 DEF PresenceStep, Heartbeat, Refresh, RefreshStamp, RefreshRefused, RefreshFails
  <2> QED BY <1>3, <2>1, PresenceSockets, HandlerRows DEF AgentOK, ChecksOK
<1>4. ASSUME NEW s \in Sockets, CloseStep(s)
      PROVE  RelayInv'
  <2>1. UNCHANGED <<checking, agent>>
    BY <1>4 DEF CloseStep, HelloDeadline, HeartbeatTimeout, CloseEvent, Drop, OnClose, Release,
      MarkOffline, CleanupFails
  <2> QED BY <1>4, <2>1, CloseSockets, HandlerRows DEF AgentOK, ChecksOK
<1>5. ASSUME NEW s \in Sockets, AgentStep(s)
      PROVE  RelayInv'
  <2>1. UNCHANGED checking
    BY <1>5 DEF AgentStep, RecvWelcome, GoOnline, RecvRevoked, RecvClose, LoseSocket, Dial
  <2> QED BY <1>5, <2>1, AgentSockets, HandlerRows, AgentKeeps DEF ChecksOK
<1>6. ASSUME NEW g \in Gateways, RevalidateRead(g) \/ RevalidateAct(g)
      PROVE  RelayInv'
  <2>1. UNCHANGED agent
    BY <1>6 DEF RevalidateRead, RevalidateAct
  <2>2. ChecksOK'
    BY <1>6 DEF RevalidateRead, RevalidateAct, ChecksOK, SocketsOK
  <2> QED BY <1>6, <2>1, <2>2, RevalidateSockets, GlobalRows DEF AgentOK
<1>7. ASSUME NEW g \in Gateways, Crash(g)
      PROVE  RelayInv'
  <2>1. UNCHANGED agent /\ ChecksOK'
    BY <1>7 DEF Crash, ChecksOK
  <2> QED BY <1>7, <2>1, CrashSockets, GlobalRows DEF AgentOK
<1>8. CASE RouteLapses \/ SweepRoute \/ Revoke \/ Forget
  <2>1. UNCHANGED <<registry, checking, socket, agent>>
    BY <1>8 DEF RouteLapses, SweepRoute, Revoke, Forget
  <2>2. SocketsOK' /\ AgentOK' /\ ChecksOK'
    BY <2>1 DEF SocketsOK, Registered, Authenticated, AgentOK, ChecksOK
  <2> QED BY <1>8, <2>2, GlobalRows
<1>9. CASE Restart
  <2>1. UNCHANGED <<registry, checking>> /\ Leave
    BY <1>9 DEF Restart
  <2>2. AgentOK'
    BY <1>9 DEF Restart, NewAgent, AgentOK, Agent, AgentStates
  <2> QED BY <1>9, <2>1, <2>2, LeaveStep, GlobalRows DEF ChecksOK
<1> QED BY <1>1, <1>2, <1>3, <1>4, <1>5, <1>6, <1>7, <1>8, <1>9 DEF Next

\* The invariant of the specification.
THEOREM RelayInvariant == Spec => []RelayInv
BY RelayInitInv, RelayInductive, PTL DEF Spec

\* Every variable keeps its type, a registered socket is bound to its replica, and
\* the agent has no socket while a dial is due (relay.ts, session.ts).
THEOREM TypeCorrect == Spec => []TypeOK
<1>1. RelayInv => TypeOK
  BY DEF RelayInv, SocketsOK, RowsOK, AgentOK, ChecksOK, TypeOK
<1> QED BY <1>1, RelayInvariant, PTL

\* "A reconnect always wins" (relay_routes.ts): no stale session is handed the
\* route back.
THEOREM RouteIsTheLatestClaims == Spec => []RouteNamesLatestClaim
<1>1. RelayInv => RouteNamesLatestClaim
  BY DEF RelayInv, RowsOK
<1> QED BY <1>1, RelayInvariant, PTL

-----------------------------------------------------------------------------
(* Action properties.                                                       *)

\* A step that deletes the route: a release by a handler of its own session, the
\* sweep of a lapsed row, or the owner's Forget.
LEMMA RouteDeletions ==
  ASSUME RelayInv, [Next]_vars, route # NoRoute, route' = NoRoute
  PROVE  \/ \E s \in Sockets : route.session = s /\ Releasing(socket[s])
         \/ route.lapsed
         \/ device' = "gone"
<1>1. \A s \in Sockets : Released(s) = NoRoute => route.session = s
  BY DEF Released
<1>2. \A s \in Sockets : ~TakeRoute(s)
  BY DeviceRelayAssumption DEF TakeRoute, NoRoute
<1>3. ASSUME NEW s \in Sockets, HelloStep(s) \/ PresenceStep(s) \/ CloseStep(s) \/ AgentStep(s)
      PROVE  route' = Released(s) /\ Releasing(socket[s])
  <2>1. CASE HelloStep(s)
    <3>1. route' = Released(s) /\ socket[s].dropping
      BY <1>2, <2>1 DEF HelloStep, RecvHello, Authenticate, AuthenticateFails, Claim, ClaimFails, Register,
        Welcome, WelcomeRefused, WelcomeFails, DropRoute, BackOut
    <3> QED BY <3>1 DEF Releasing
  <2>2. CASE PresenceStep(s)
    BY <2>2 DEF PresenceStep, Heartbeat, Refresh, RefreshStamp, RefreshRefused, RefreshFails
  <2>3. CASE CloseStep(s)
    <3>1. route' = Released(s) /\ socket[s].cleanup # "none"
      BY <2>3 DEF CloseStep, HelloDeadline, HeartbeatTimeout, CloseEvent, Drop, OnClose, Release,
        MarkOffline, CleanupFails
    <3> QED BY <3>1 DEF Releasing
  <2>4. CASE AgentStep(s)
    BY <2>4 DEF AgentStep, RecvWelcome, GoOnline, RecvRevoked, RecvClose, LoseSocket, Dial
  <2> QED BY <1>3, <2>1, <2>2, <2>3, <2>4
<1>4. CASE \E s \in Sockets : HelloStep(s) \/ PresenceStep(s) \/ CloseStep(s) \/ AgentStep(s)
  BY <1>1, <1>3, <1>4
<1>5. CASE \E g \in Gateways : RevalidateRead(g) \/ RevalidateAct(g) \/ Crash(g)
  BY <1>5 DEF RevalidateRead, RevalidateAct, Crash
<1>6. CASE RouteLapses
  <2>1. route'.lapsed
    BY <1>6 DEF RouteLapses, RelayInv, RowsOK, Route
  <2> QED BY <2>1 DEF NoRoute
<1>7. CASE SweepRoute \/ Revoke \/ Forget \/ Restart \/ UNCHANGED vars
  BY <1>7 DEF SweepRoute, Revoke, Forget, Restart, vars
<1> QED BY <1>4, <1>5, <1>6, <1>7 DEF Next

\* A live session keeps its route until it ends, lapses or is forgotten: nobody
\* else's close handler or failed handshake deletes it (relay_routes.ts, release).
THEOREM LiveSessionsKeepTheirRoute == Spec => RouteOutlivesOthers
<1>1. ASSUME RelayInv, [Next]_vars
      PROVE  [\A s \in Sockets :
                /\ route.session = s /\ ~route.lapsed /\ Registered(s)
                /\ route' = NoRoute
                => device' = "gone"]_vars
  <2> SUFFICES ASSUME NEW s \in Sockets, route.session = s, ~route.lapsed, Registered(s),
                      route' = NoRoute
               PROVE  device' = "gone"
    OBVIOUS
  <2>1. route # NoRoute
    BY DeviceRelayAssumption DEF NoRoute
  <2>2. ~Releasing(socket[s])
    BY <1>1 DEF RelayInv, SocketsOK
  <2> QED BY <1>1, <2>1, <2>2, RouteDeletions
<1> QED BY <1>1, RelayInvariant, PTL DEF Spec, RouteOutlivesOthers

\* No step brings a revoked or forgotten device back, or gives it a route
\* (devices.ts, setPresence; relay_routes.ts, claim).
THEOREM RevocationIsTerminal == Spec => RevokedIsTerminal
<1>1. ASSUME RelayInv, [Next]_vars
      PROVE  [/\ device = "revoked" => device' \in {"revoked", "gone"}
              /\ device = "gone" => device' = "gone"
              /\ ~Present => lastClaim' = lastClaim]_vars
  <2>1. device \in DeviceStates
    BY <1>1 DEF RelayInv, RowsOK
  <2>2. /\ device = "revoked" => Stamped("online") = device /\ Stamped("offline") = device
        /\ device = "gone" => Stamped("online") = device /\ Stamped("offline") = device
    BY DEF Stamped, Present
  <2>3. ASSUME NEW s \in Sockets, HelloStep(s) \/ PresenceStep(s) \/ CloseStep(s) \/ AgentStep(s)
        PROVE  /\ device' \in {device, Stamped("online"), Stamped("offline")}
               /\ Present \/ lastClaim' = lastClaim
    <3>1. CASE HelloStep(s)
      BY <3>1 DEF HelloStep, RecvHello, Authenticate, AuthenticateFails, Claim, ClaimFails, Register,
        Welcome, WelcomeRefused, WelcomeFails, DropRoute, BackOut
    <3>2. CASE PresenceStep(s)
      BY <3>2 DEF PresenceStep, Heartbeat, Refresh, RefreshStamp, RefreshRefused, RefreshFails
    <3>3. CASE CloseStep(s)
      BY <3>3 DEF CloseStep, HelloDeadline, HeartbeatTimeout, CloseEvent, Drop, OnClose, Release,
        MarkOffline, CleanupFails
    <3>4. CASE AgentStep(s)
      BY <3>4 DEF AgentStep, RecvWelcome, GoOnline, RecvRevoked, RecvClose, LoseSocket, Dial
    <3> QED BY <2>3, <3>1, <3>2, <3>3, <3>4
  <2>4. CASE \E s \in Sockets : HelloStep(s) \/ PresenceStep(s) \/ CloseStep(s) \/ AgentStep(s)
    BY <2>2, <2>3, <2>4
  <2>5. CASE \E g \in Gateways : RevalidateRead(g) \/ RevalidateAct(g) \/ Crash(g)
    BY <2>5 DEF RevalidateRead, RevalidateAct, Crash
  <2>6. CASE RouteLapses \/ SweepRoute \/ Revoke \/ Forget \/ Restart \/ UNCHANGED vars
    BY <2>6 DEF RouteLapses, SweepRoute, Revoke, Forget, Restart, Present, vars
  <2> QED BY <1>1, <2>4, <2>5, <2>6 DEF Next
<1> QED BY <1>1, RelayInvariant, PTL DEF Spec, RevokedIsTerminal

=============================================================================
