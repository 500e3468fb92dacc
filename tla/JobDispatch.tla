----------------------------- MODULE JobDispatch -----------------------------
(***************************************************************************)
(* A gateway call on its way to the local agent and back: the executor     *)
(* that signs a job (executor/local.ts), the replica that owns the         *)
(* device's socket and the one that does not (relay/routed-dispatch.ts,    *)
(* peer-handler.ts), the table of pending jobs (relay/dispatch.ts), and    *)
(* the agent's runner (agent/jobs.ts).                                     *)
(*                                                                         *)
(* One device.  Its sessions come and go as in DeviceRelay, of which only  *)
(* the steps that a job can notice are kept: a route is claimed before its *)
(* socket is registered, a newer socket displaces an older one, a close    *)
(* event is late, a revoked device is thrown out.  A timer is an action    *)
(* that may happen whenever it is armed.                                   *)
(***************************************************************************)
EXTENDS Naturals, Sequences

CONSTANTS
  Jobs,      \* calls, each with the one job it signs
  Gateways,  \* gateway replicas
  Sessions,  \* WebSocket connections of the device
  MaxFaults, \* bound: crashes and failed calls in one behaviour
  None       \* no session, no gateway

ASSUME JobDispatchAssumption ==
  /\ None \notin Gateways \cup Sessions
  /\ MaxFaults \in Nat

VARIABLES
  revoked,   \* whether the device row is revoked
  route,     \* the session the relayRoutes row names
  registry,  \* per replica, the socket registered for the device
  link,      \* per session, its socket and the frames under way
  current,   \* the session the agent is using
  call,      \* per job, the call that waits for it on its own replica
  peer,      \* per job, the request to the replica that owns the route
  pending,   \* per job, its entry in some replica's dispatcher
  run,       \* per job, what the agent does with it
  sent,      \* history: job frames written to a socket, per job
  faults     \* how many of the MaxFaults have happened

vars == <<revoked, route, registry, link, current, call, peer, pending, run, sent, faults>>

session == <<revoked, route, registry, link, current>>
work    == <<call, peer, pending, run, sent>>

Frames  == [kind : {"job", "cancel"}, job : Jobs]
Results == [job : Jobs, ok : BOOLEAN]

Link ==
  [gw      : Gateways \cup {None},                     \* replica that accepted it
   end     : {"unused", "open", "closing", "closed"},  \* the replica's end
   hello   : {"none", "claimed", "stamping", "bound", "over"},
   release : BOOLEAN,                                  \* its route is being released
   down    : Seq(Frames),
   up      : Seq(Results)]

NewLink ==
  [gw |-> None, end |-> "unused", hello |-> "none", release |-> FALSE, down |-> <<>>, up |-> <<>>]

\* What a call is answered with; "none" until it is.
Outcomes ==
  {"none", "success", "failed", "offline", "disconnected", "revoked", "timeout", "upstream", "lost"}

Call == [gw      : Gateways \cup {None},
         state   : {"idle", "selected", "waiting", "asking", "over"},
         outcome : Outcomes]

Peer == [state   : {"none", "request", "opening", "waiting", "response"},
         session : Sessions \cup {None},  \* the session the route named
         answer  : Outcomes]

Entry   == [gw : Gateways \cup {None}, via : Sessions \cup {None}]
NoEntry == [gw |-> None, via |-> None]

Run == [state   : {"none", "checking", "executing", "done"},
        session : Sessions \cup {None},  \* the session the frame came on
        aborted : BOOLEAN,
        ok      : BOOLEAN]

Init ==
  /\ revoked = FALSE /\ route = None /\ current = None /\ faults = 0
  /\ registry = [g \in Gateways |-> None]
  /\ link = [s \in Sessions |-> NewLink]
  /\ call = [j \in Jobs |-> [gw |-> None, state |-> "idle", outcome |-> "none"]]
  /\ peer = [j \in Jobs |-> [state |-> "none", session |-> None, answer |-> "none"]]
  /\ pending = [j \in Jobs |-> NoEntry]
  /\ run = [j \in Jobs |-> [state |-> "none", session |-> None, aborted |-> FALSE, ok |-> FALSE]]
  /\ sent = [j \in Jobs |-> 0]

-----------------------------------------------------------------------------
Fault == faults < MaxFaults /\ faults' = faults + 1

Registered(s) == \E g \in Gateways : registry[g] = s

\* sendMessage: a frame for a socket the agent has left is dropped.
Carried(s, frame) ==
  IF link[s].end = "open" /\ current = s
    THEN [link EXCEPT ![s].down = Append(@, frame)]
    ELSE link

\* The socket closes; a closed one stays as it is.
Closing(sk) == IF sk.end = "open" THEN [sk EXCEPT !.end = "closing"] ELSE sk

End(j, o) == call' = [call EXCEPT ![j].state = "over", ![j].outcome = o]

\* Entries of the jobs in S leave the table, and whoever waits for one, the
\* call itself or the peer handler, is answered o.
Answer(S, o) ==
  /\ pending' = [j \in Jobs |-> IF j \in S THEN NoEntry ELSE pending[j]]
  /\ call' = [j \in Jobs |->
       IF j \in S /\ call[j].state = "waiting"
         THEN [call[j] EXCEPT !.state = "over", !.outcome = o] ELSE call[j]]
  /\ peer' = [j \in Jobs |->
       IF j \in S /\ peer[j].state = "waiting"
         THEN [peer[j] EXCEPT !.state = "response", !.answer = o] ELSE peer[j]]

\* Mutant of FailDevice: the entries are deleted and nobody is told.
FailDeviceQuietly(g, o) ==
  /\ pending' = [j \in Jobs |-> IF pending[j].gw = g THEN NoEntry ELSE pending[j]]
  /\ UNCHANGED <<call, peer>>

\* failDevice: everything waiting for the device on this replica.
FailDevice(g, o) == Answer({j \in Jobs : pending[j].gw = g}, o)

-----------------------------------------------------------------------------
(* The call and the dispatcher.                                            *)

\* The executor reads the user's devices, picks this one and signs the job.
Select(j, g) ==
  /\ call[j].state = "idle"
  /\ \/ ~revoked /\ call' = [call EXCEPT ![j].gw = g, ![j].state = "selected"]
     \/ revoked /\ End(j, "revoked")
  /\ UNCHANGED <<session, peer, pending, run, sent, faults>>

\* Mutant of Sends: the socket is taken from the route, not the registry.
SendsByRoute(j, g) ==
  /\ registry[g] # None
  /\ pending' = [pending EXCEPT ![j] = [gw |-> g, via |-> IF route = None THEN registry[g] ELSE route]]
  /\ link' = Carried(registry[g], [kind |-> "job", job |-> j])
  /\ sent' = [sent EXCEPT ![j] = @ + 1]

\* dispatch: the entry is made, its timer armed and the frame written.  Job ids
\* are fresh, so the check for one already in flight never fires.
Sends(j, g) ==
  /\ registry[g] # None
  /\ pending' = [pending EXCEPT ![j] = [gw |-> g, via |-> registry[g]]]
  /\ link' = Carried(registry[g], [kind |-> "job", job |-> j])
  /\ sent' = [sent EXCEPT ![j] = @ + 1]

\* No socket is registered, or writing to it throws: the entry is gone again.
CannotSend(g) ==
  /\ registry[g] # None => link[registry[g]].end # "open"
  /\ UNCHANGED <<pending, link, sent>>

\* The route is read: none, this replica's own, or another's.
Resolve(j) ==
  LET g == call[j].gw IN
  /\ call[j].state = "selected"
  /\ \/ /\ route = None
        /\ End(j, "offline")
        /\ UNCHANGED <<link, peer, pending, sent>>
     \/ /\ route # None /\ link[route].gw = g
        /\ \/ Sends(j, g) /\ call' = [call EXCEPT ![j].state = "waiting"]
           \/ CannotSend(g) /\ End(j, "offline")
        /\ UNCHANGED peer
     \/ /\ route # None /\ link[route].gw # g
        /\ call' = [call EXCEPT ![j].state = "asking"]
        /\ peer' = [peer EXCEPT ![j].state = "request", ![j].session = route]
        /\ UNCHANGED <<link, pending, sent>>
  /\ UNCHANGED <<revoked, route, registry, current, run, faults>>

\* The control plane does not answer.
ResolveFails(j) ==
  /\ call[j].state = "selected"
  /\ End(j, "upstream")
  /\ Fault
  /\ UNCHANGED <<session, peer, pending, run, sent>>

\* The peer compares the session the route named with its registered socket,
\* then opens the sealed job, which is awaited.
PeerReceive(j) ==
  LET s == peer[j].session IN
  /\ peer[j].state = "request"
  /\ peer' = [peer EXCEPT ![j] =
       IF registry[link[s].gw] = s THEN [@ EXCEPT !.state = "opening"]
       ELSE [@ EXCEPT !.state = "response", !.answer = "offline"]]
  /\ UNCHANGED <<session, call, pending, run, sent, faults>>

\* The job is open: it has expired by now, or is dispatched to whatever socket
\* is registered by now.
PeerDispatch(j) ==
  LET g == link[peer[j].session].gw IN
  /\ peer[j].state = "opening"
  /\ \/ /\ peer' = [peer EXCEPT ![j].state = "response", ![j].answer = "timeout"]
        /\ UNCHANGED <<link, pending, sent>>
     \/ Sends(j, g) /\ peer' = [peer EXCEPT ![j].state = "waiting"]
     \/ CannotSend(g) /\ peer' = [peer EXCEPT ![j].state = "response", ![j].answer = "offline"]
  /\ UNCHANGED <<revoked, route, registry, current, call, run, faults>>

\* The peer's answer reaches the call, if it is still waiting for it.
PeerResponse(j) ==
  /\ peer[j].state = "response"
  /\ \/ call[j].state = "asking" /\ End(j, peer[j].answer)
     \/ call[j].state # "asking" /\ UNCHANGED call
  /\ peer' = [peer EXCEPT ![j] = [state |-> "none", session |-> None, answer |-> "none"]]
  /\ UNCHANGED <<session, pending, run, sent, faults>>

\* Mutant of PeerGiveUp: an ambiguous failure is tried again.
PeerGiveUpRetry(j) ==
  /\ call[j].state = "asking"
  /\ call' = [call EXCEPT ![j].state = "selected"]
  /\ UNCHANGED <<session, peer, pending, run, sent, faults>>

\* The HTTP budget is over or the connection breaks.  The peer is not told.
PeerGiveUp(j) ==
  /\ call[j].state = "asking"
  /\ End(j, "upstream")
  /\ UNCHANGED <<session, peer, pending, run, sent, faults>>

\* Mutant of Timeout: the entry stays in the table.
TimeoutLeak(j) ==
  LET s == pending[j].via IN
  /\ s # None /\ call[j].state = "waiting"
  /\ End(j, "timeout")
  /\ link' = Carried(s, [kind |-> "cancel", job |-> j])
  /\ UNCHANGED <<revoked, route, registry, current, peer, pending, run, sent, faults>>

\* The entry's timer: the agent is told to stop, and the waiter that it is over.
Timeout(j) ==
  LET s == pending[j].via IN
  /\ s # None
  /\ Answer({j}, "timeout")
  /\ link' = Carried(s, [kind |-> "cancel", job |-> j])
  /\ UNCHANGED <<revoked, route, registry, current, run, sent, faults>>

-----------------------------------------------------------------------------
(* Results.                                                                *)

\* settle: the entry the result is for, if this replica still has it.
Settled(s, r) == {j \in Jobs : j = r.job /\ pending[j].gw = link[s].gw}

\* Mutant of Reported: the status of the result is not looked at.
ReportedAlways(r) == "success"

\* What the call makes of a result.
Reported(r) == IF r.ok THEN "success" ELSE "failed"

\* A result arrives on a socket that is still authenticated; one that nobody
\* waits for is dropped.
RecvResult(s) ==
  LET r == Head(link[s].up) IN
  /\ link[s].up # <<>> /\ link[s].hello \in {"stamping", "bound"}
  /\ Answer(Settled(s, r), Reported(r))
  /\ link' = [link EXCEPT ![s].up = Tail(@)]
  /\ UNCHANGED <<revoked, route, registry, current, run, sent, faults>>

-----------------------------------------------------------------------------
(* The agent's runner.                                                     *)

\* A job frame arrives: its verification is awaited.
RecvJob(s) ==
  LET f == Head(link[s].down) IN
  /\ current = s /\ link[s].down # <<>> /\ f.kind = "job"
  /\ link' = [link EXCEPT ![s].down = Tail(@)]
  /\ run' = IF run[f.job].state = "none"
       THEN [run EXCEPT ![f.job].state = "checking", ![f.job].session = s]
       ELSE run
  /\ UNCHANGED <<revoked, route, registry, current, call, peer, pending, sent, faults>>

\* A cancel frame reaches a job only once it is in the in-flight table.
RecvCancel(s) ==
  LET f == Head(link[s].down) IN
  /\ current = s /\ link[s].down # <<>> /\ f.kind = "cancel"
  /\ link' = [link EXCEPT ![s].down = Tail(@)]
  /\ run' = IF run[f.job].state = "executing"
       THEN [run EXCEPT ![f.job].aborted = TRUE]
       ELSE run
  /\ UNCHANGED <<revoked, route, registry, current, call, peer, pending, sent, faults>>

\* The job passes verification, replay guard and allowlist, and executes.
Begin(j) ==
  /\ run[j].state = "checking"
  /\ run' = [run EXCEPT ![j].state = "executing"]
  /\ UNCHANGED <<session, call, peer, pending, sent, faults>>

\* The run ends, refused, failed, timed out, cancelled or done; its one result
\* goes out on the session its frame came on, if that is still the current one.
Finish(j) ==
  LET s == run[j].session IN
  \E ok \in BOOLEAN :
    /\ run[j].state \in {"checking", "executing"}
    /\ ok => run[j].state = "executing"
    /\ run' = [run EXCEPT ![j].state = "done", ![j].ok = ok]
    /\ link' = IF current = s /\ link[s].end = "open"
                 THEN [link EXCEPT ![s].up = Append(@, [job |-> j, ok |-> ok])]
                 ELSE link
    /\ UNCHANGED <<revoked, route, registry, current, call, peer, pending, sent, faults>>

\* The agent leaves its socket: frames it has not read are gone.
Leaves ==
  /\ current' = None
  /\ link' = [s \in Sessions |-> IF s = current THEN [link[s] EXCEPT !.down = <<>>] ELSE link[s]]

LoseSocket ==
  /\ current # None
  /\ Leaves
  /\ UNCHANGED <<revoked, route, registry, work, faults>>

\* The agent process ends, and its runs with it.
Restart ==
  /\ \E j \in Jobs : run[j].state \in {"checking", "executing"}
  /\ Leaves
  /\ run' = [j \in Jobs |->
       IF run[j].state = "none" THEN run[j] ELSE [run[j] EXCEPT !.state = "done"]]
  /\ Fault
  /\ UNCHANGED <<revoked, route, registry, call, peer, pending, sent>>

-----------------------------------------------------------------------------
(* Sessions come and go.                                                   *)

Dial(s, g) ==
  /\ current = None /\ link[s].end = "unused"
  /\ link' = [link EXCEPT ![s].gw = g, ![s].end = "open"]
  /\ current' = s
  /\ UNCHANGED <<revoked, route, registry, work, faults>>

Claim(s) ==
  /\ link[s].end # "unused" /\ link[s].hello = "none"
  /\ \/ ~revoked /\ route' = s /\ link' = [link EXCEPT ![s].hello = "claimed"]
     \/ /\ revoked
        /\ link' = [link EXCEPT ![s] = Closing([@ EXCEPT !.hello = "over"])]
        /\ UNCHANGED route
  /\ UNCHANGED <<revoked, registry, current, work, faults>>

Register(s) ==
  LET g == link[s].gw IN
  /\ link[s].hello = "claimed"
  /\ registry' = [registry EXCEPT ![g] = s]
  /\ link' = [t \in Sessions |->
       IF t = s THEN [link[s] EXCEPT !.hello = "stamping"]
       ELSE IF t = registry[g] THEN Closing(link[t])
       ELSE link[t]]
  /\ UNCHANGED <<revoked, route, current, work, faults>>

Welcome(s) ==
  /\ link[s].hello = "stamping"
  /\ link' = [link EXCEPT ![s].hello = "bound"]
  /\ UNCHANGED <<revoked, route, registry, current, work, faults>>

\* The presence write fails: the socket is taken out again.
BackOut(s) ==
  /\ link[s].hello = "stamping"
  /\ registry' = [g \in Gateways |-> IF registry[g] = s THEN None ELSE registry[g]]
  /\ link' = [link EXCEPT ![s] = Closing([@ EXCEPT !.hello = "over", !.release = TRUE])]
  /\ Fault
  /\ UNCHANGED <<revoked, route, current, work>>

\* Mutant of GivesUp: any session that was ever registered.
GivesUpAny(s) == link[s].hello = "bound"

\* The close handler acts only for the socket that is still registered.
GivesUp(s) == Registered(s)

\* The close event, sooner or later after the connection is lost or closed.
OnClose(s) ==
  LET g == link[s].gw IN
  /\ link[s].end \in {"open", "closing"}
  /\ link' = [link EXCEPT ![s].end = "closed", ![s].down = <<>>, ![s].up = <<>>,
                          ![s].release = @ \/ GivesUp(s)]
  /\ \/ GivesUp(s) /\ FailDevice(g, "disconnected")
     \/ ~GivesUp(s) /\ UNCHANGED <<call, peer, pending>>
  /\ registry' = [registry EXCEPT ![g] = IF @ = s THEN None ELSE @]
  /\ UNCHANGED <<revoked, route, current, run, sent, faults>>

Release(s) ==
  /\ link[s].release
  /\ route' = IF route = s THEN None ELSE route
  /\ link' = [link EXCEPT ![s].release = FALSE]
  /\ UNCHANGED <<revoked, registry, current, work, faults>>

\* The route expires once its owner no longer refreshes it, or goes with a
\* device that is forgotten.
RouteGoes ==
  /\ route # None /\ (revoked \/ ~Registered(route))
  /\ route' = None
  /\ UNCHANGED <<revoked, registry, link, current, work, faults>>

Revoke ==
  /\ ~revoked
  /\ revoked' = TRUE
  /\ UNCHANGED <<route, registry, link, current, work, faults>>

\* A replica notices the revocation.
Revalidate(g) ==
  LET s == registry[g] IN
  /\ s # None /\ revoked
  /\ registry' = [registry EXCEPT ![g] = None]
  /\ FailDevice(g, "revoked")
  /\ link' = [link EXCEPT ![s] = Closing([@ EXCEPT !.hello = "over", !.release = TRUE])]
  /\ UNCHANGED <<revoked, route, current, run, sent, faults>>

\* A replica dies with its sockets, its calls, its table and the requests it
\* was serving.
Crash(g) ==
  /\ registry' = [registry EXCEPT ![g] = None]
  /\ link' = [s \in Sessions |->
       IF link[s].gw = g
         THEN [NewLink EXCEPT !.gw = g, !.end = "closed", !.hello = "over"]
         ELSE link[s]]
  /\ call' = [j \in Jobs |->
       IF call[j].gw = g /\ call[j].state # "over"
         THEN [call[j] EXCEPT !.state = "over", !.outcome = "lost"] ELSE call[j]]
  /\ peer' = [j \in Jobs |->
       IF peer[j].session # None /\ link[peer[j].session].gw = g
         THEN [state |-> "none", session |-> None, answer |-> "none"] ELSE peer[j]]
  /\ pending' = [j \in Jobs |-> IF pending[j].gw = g THEN NoEntry ELSE pending[j]]
  /\ Fault
  /\ UNCHANGED <<revoked, route, current, run, sent>>

-----------------------------------------------------------------------------
CallStep(j) ==
  \/ Resolve(j) \/ ResolveFails(j)
  \/ PeerReceive(j) \/ PeerDispatch(j) \/ PeerResponse(j) \/ PeerGiveUp(j)
  \/ Timeout(j)

SessionStep(s) ==
  \/ Claim(s) \/ Register(s) \/ Welcome(s) \/ BackOut(s) \/ OnClose(s) \/ Release(s)
  \/ \E g \in Gateways : Dial(s, g)

Next ==
  \/ \E j \in Jobs : CallStep(j) \/ Begin(j) \/ Finish(j) \/ (\E g \in Gateways : Select(j, g))
  \/ \E s \in Sessions : SessionStep(s) \/ RecvResult(s) \/ RecvJob(s) \/ RecvCancel(s)
  \/ \E g \in Gateways : Revalidate(g) \/ Crash(g)
  \/ LoseSocket \/ Restart \/ RouteGoes \/ Revoke

Spec == Init /\ [][Next]_vars

-----------------------------------------------------------------------------
(* Properties that hold.                                                   *)

\* Every variable has its type; a replica registers only sockets it accepted
\* itself, and an entry names a socket that its own replica has registered.
TypeOK ==
  /\ revoked \in BOOLEAN
  /\ route \in Sessions \cup {None}
  /\ registry \in [Gateways -> Sessions \cup {None}]
  /\ link \in [Sessions -> Link]
  /\ current \in Sessions \cup {None}
  /\ call \in [Jobs -> Call]
  /\ peer \in [Jobs -> Peer]
  /\ pending \in [Jobs -> Entry]
  /\ run \in [Jobs -> Run]
  /\ sent \in [Jobs -> Nat]
  /\ faults \in Nat
  /\ \A g \in Gateways : registry[g] # None =>
       link[registry[g]].gw = g /\ link[registry[g]].hello \notin {"none", "claimed"}
  /\ \A j \in Jobs : pending[j] # NoEntry =>
       /\ pending[j].via # None /\ link[pending[j].via].gw = pending[j].gw
       /\ link[pending[j].via].hello \notin {"none", "claimed"}

\* "A leaked entry would pin a promise forever" (dispatch.ts), and a lost one
\* would leave its waiter without a timer: a job has an entry exactly while a
\* call or a peer handler waits for it, and never both.
PendingHasWaiter ==
  \A j \in Jobs :
    /\ pending[j] # NoEntry <=> call[j].state = "waiting" \/ peer[j].state = "waiting"
    /\ ~(call[j].state = "waiting" /\ peer[j].state = "waiting")

\* "Ambiguous transport failures are never replayed" (routed-dispatch.ts):
\* whatever is lost, times out or moves, one call writes at most one job frame.
DeliveredOnce == \A j \in Jobs : sent[j] <= 1

\* A call that reports success had its own job run to a successful end on the
\* agent (dispatch.ts, settle; executor/agent-result.ts).
SuccessIsReal ==
  \A j \in Jobs : call[j].outcome = "success" => run[j].state = "done" /\ run[j].ok

\* The agent is told to stop only a job that nobody waits for any more, and
\* such a job is never reported as done (dispatch.ts, the timer and settle).
CancelledIsAbandoned ==
  \A j \in Jobs : run[j].aborted => pending[j] = NoEntry /\ call[j].outcome # "success"

\* A late close of an old socket fails no job that was sent over a socket which
\* is still registered (relay.ts, close; sockets.ts, remove).
StaleCloseSparesJobs ==
  [][\A j \in Jobs, s \in Sessions :
       pending[j].via = s /\ Registered(s) /\ Registered(s)' =>
         /\ call'[j].outcome \in {"disconnected", "revoked"} => call'[j] = call[j]
         /\ peer'[j].answer \in {"disconnected", "revoked"} => peer'[j] = peer[j]]_vars

-----------------------------------------------------------------------------
(* What a comment says and the code does not keep.                         *)

\* "Every path deletes its pending entry: resolve, timeout, send failure and
\* socket close" (dispatch.ts): when its socket closes, an entry goes.
SocketCloseDeletesEntry ==
  [][\A j \in Jobs, s \in Sessions :
       pending[j].via = s /\ link[s].end # "closed" /\ link'[s].end = "closed"
         => pending'[j] = NoEntry]_vars

=============================================================================
