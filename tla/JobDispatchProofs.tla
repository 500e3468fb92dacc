-------------------------- MODULE JobDispatchProofs --------------------------
(***************************************************************************)
(* What holds of JobDispatch for every set of jobs, replicas and sessions. *)
(***************************************************************************)
EXTENDS JobDispatch, TLAPS

\* What the session steps and the routes promise a dispatch: a route names a
\* session that has said hello to some replica, and so does a peer request.
Placed ==
  /\ \A s \in Sessions :
       /\ link[s].gw = None <=> link[s].end = "unused"
       /\ link[s].end = "unused" => link[s].hello = "none"
  /\ route # None => link[route].hello # "none"
  /\ \A j \in Jobs :
       /\ call[j].state \in {"selected", "waiting", "asking"} => call[j].gw # None
       /\ peer[j].state # "none" =>
            peer[j].session # None /\ link[peer[j].session].hello # "none"

\* A call makes one attempt: until it gets to a dispatcher nothing is written
\* for it, it is not answered while anything of the attempt is open, and its
\* entry is in the table of the replica that waits for it.
OneAttempt ==
  \A j \in Jobs :
    /\ call[j].state \in {"idle", "selected"} => peer[j].state = "none" /\ sent[j] = 0
    /\ call[j].state = "waiting" => peer[j].state = "none"
    /\ peer[j].state \in {"request", "opening"} => sent[j] = 0
    /\ pending[j] # NoEntry => sent[j] = 1
    /\ call[j].state # "over" => call[j].outcome = "none"
    /\ peer[j].state # "response" => peer[j].answer = "none"
    /\ peer[j].state # "none" => call[j].outcome # "success"
    /\ call[j].state = "waiting" => pending[j].gw = call[j].gw
    /\ peer[j].state = "waiting" => pending[j].gw = link[peer[j].session].gw

\* A cancel frame for j is on its way or has arrived.
Cancelled(j) ==
  \/ run[j].aborted
  \/ \E s \in Sessions : \E i \in 1..Len(link[s].down) :
       link[s].down[i] = [kind |-> "cancel", job |-> j]

CancelledIsOver ==
  \A j \in Jobs : Cancelled(j) =>
    /\ sent[j] = 1
    /\ pending[j] = NoEntry
    /\ call[j].outcome # "success"
    /\ peer[j].answer # "success"

\* Success of j is reported somewhere: to the call, by the peer or by a frame.
Reports(j) ==
  \/ call[j].outcome = "success"
  \/ peer[j].answer = "success"
  \/ \E s \in Sessions : \E i \in 1..Len(link[s].up) :
       link[s].up[i] = [job |-> j, ok |-> TRUE]

ReportsAreReal ==
  \A j \in Jobs : Reports(j) => run[j].state = "done" /\ run[j].ok

\* The safety invariants of JobDispatch with what makes them inductive.
IInv ==
  /\ TypeOK
  /\ Placed
  /\ PendingHasWaiter
  /\ DeliveredOnce
  /\ OneAttempt
  /\ CancelledIsOver
  /\ ReportsAreReal

-----------------------------------------------------------------------------
(* Records and frames.                                                     *)

\* The empty records have the type of the full ones.
LEMMA EmptyRecords ==
  /\ NewLink \in Link
  /\ NoEntry \in Entry
  /\ [gw |-> None, state |-> "idle", outcome |-> "none"] \in Call
  /\ [state |-> "none", session |-> None, answer |-> "none"] \in Peer
  /\ [state |-> "none", session |-> None, aborted |-> FALSE, ok |-> FALSE] \in Run
<1>1. NewLink \in Link
  <2>1. <<>> \in Seq(Frames) /\ <<>> \in Seq(Results)
    OBVIOUS
  <2>2. QED
    BY <2>1 DEF NewLink, Link
<1>2. QED
  BY <1>1 DEF NoEntry, Entry, Call, Peer, Run, Outcomes

\* A call that is answered is still a call.
LEMMA CallAnswered ==
  ASSUME NEW c \in Call, NEW st \in {"selected", "waiting", "asking", "over"},
         NEW o \in Outcomes
  PROVE  LET d == [c EXCEPT !.state = st, !.outcome = o] IN
         d \in Call /\ d.gw = c.gw /\ d.state = st /\ d.outcome = o
BY DEF Call

\* A peer that answers is still a peer.
LEMMA PeerAnswered ==
  ASSUME NEW p \in Peer, NEW st \in {"opening", "waiting", "response"},
         NEW o \in Outcomes
  PROVE  LET d == [p EXCEPT !.state = st, !.answer = o] IN
         d \in Peer /\ d.session = p.session /\ d.state = st /\ d.answer = o
BY DEF Peer

\* A call that is ended is over with that outcome; the others are as before.
LEMMA EndStep ==
  ASSUME TypeOK, NEW j \in Jobs, NEW o \in Outcomes, End(j, o)
  PROVE  /\ call' \in [Jobs -> Call]
         /\ call'[j].gw = call[j].gw /\ call'[j].state = "over" /\ call'[j].outcome = o
         /\ \A k \in Jobs \ {j} : call'[k] = call[k]
<1> DEFINE d == [call[j] EXCEPT !.state = "over", !.outcome = o]
<1>1. call \in [Jobs -> Call] /\ call[j] \in Call
  BY DEF TypeOK
<1>2. d \in Call /\ d.gw = call[j].gw /\ d.state = "over" /\ d.outcome = o
  BY <1>1, CallAnswered
<1>3. call' = [call EXCEPT ![j] = d]
  BY <1>1 DEF End
<1> HIDE DEF d
<1>4. QED
  BY <1>1, <1>2, <1>3

\* What an answer leaves behind, whoever it goes to.
LEMMA AnswerStep ==
  ASSUME TypeOK, NEW S \in SUBSET Jobs, NEW o \in Outcomes, Answer(S, o)
  PROVE  /\ call' \in [Jobs -> Call] /\ peer' \in [Jobs -> Peer]
         /\ pending' \in [Jobs -> Entry]
         /\ \A j \in Jobs :
              /\ pending'[j] = IF j \in S THEN NoEntry ELSE pending[j]
              /\ IF j \in S /\ call[j].state = "waiting"
                   THEN /\ call'[j].gw = call[j].gw
                        /\ call'[j].state = "over" /\ call'[j].outcome = o
                   ELSE call'[j] = call[j]
              /\ IF j \in S /\ peer[j].state = "waiting"
                   THEN /\ peer'[j].session = peer[j].session
                        /\ peer'[j].state = "response" /\ peer'[j].answer = o
                   ELSE peer'[j] = peer[j]
<1> DEFINE c(j) == [call[j] EXCEPT !.state = "over", !.outcome = o]
           p(j) == [peer[j] EXCEPT !.state = "response", !.answer = o]
<1>1. \A j \in Jobs : call[j] \in Call /\ peer[j] \in Peer /\ pending[j] \in Entry
  BY DEF TypeOK
<1>2. \A j \in Jobs : c(j) \in Call /\ c(j).gw = call[j].gw
                      /\ c(j).state = "over" /\ c(j).outcome = o
  BY <1>1, CallAnswered
<1>3. \A j \in Jobs : p(j) \in Peer /\ p(j).session = peer[j].session
                      /\ p(j).state = "response" /\ p(j).answer = o
  BY <1>1, PeerAnswered
<1>4. /\ pending' = [j \in Jobs |-> IF j \in S THEN NoEntry ELSE pending[j]]
      /\ call' = [j \in Jobs |-> IF j \in S /\ call[j].state = "waiting" THEN c(j) ELSE call[j]]
      /\ peer' = [j \in Jobs |-> IF j \in S /\ peer[j].state = "waiting" THEN p(j) ELSE peer[j]]
  BY DEF Answer
<1> HIDE DEF c, p
<1>5. QED
  BY <1>1, <1>2, <1>3, <1>4, EmptyRecords

\* A frame put on its way changes no other part of a link.
LEMMA CarriedStep ==
  ASSUME TypeOK, NEW s \in Sessions, NEW f \in Frames
  PROVE  /\ Carried(s, f) \in [Sessions -> Link]
         /\ \A t \in Sessions :
              /\ Carried(s, f)[t].gw = link[t].gw /\ Carried(s, f)[t].hello = link[t].hello
              /\ Carried(s, f)[t].end = link[t].end /\ Carried(s, f)[t].up = link[t].up
              /\ \/ Carried(s, f)[t].down = link[t].down
                 \/ Carried(s, f)[t].down = Append(link[t].down, f)
<1> DEFINE l == [link[s] EXCEPT !.down = Append(@, f)]
<1>1. link[s] \in Link /\ Append(link[s].down, f) \in Seq(Frames)
  BY DEF TypeOK, Link
<1>2. /\ l \in Link /\ l.gw = link[s].gw /\ l.hello = link[s].hello /\ l.up = link[s].up
      /\ l.end = link[s].end /\ l.down = Append(link[s].down, f)
  BY <1>1 DEF Link
<1>3. Carried(s, f) = link \/ Carried(s, f) = [link EXCEPT ![s] = l]
  BY DEF Carried
<1> HIDE DEF l
<1>4. QED
  BY <1>2, <1>3 DEF TypeOK

-----------------------------------------------------------------------------
(* Links: a session belongs to one replica and its handshake goes forward.  *)

Grows(l, m) ==
  /\ m \in Link
  /\ l.hello # "none" => m.hello # "none" /\ m.gw = l.gw
  /\ l.hello \notin {"none", "claimed"} => m.hello \notin {"none", "claimed"}
  /\ m.gw = None <=> m.end = "unused"
  /\ m.end = "unused" => m.hello = "none"

LinksGrow ==
  /\ link' \in [Sessions -> Link]
  /\ \A s \in Sessions : Grows(link[s], link'[s])

\* A link that is left alone grows.
LEMMA SameGrows ==
  ASSUME TypeOK, Placed, NEW s \in Sessions
  PROVE  link[s] \in Link /\ Grows(link[s], link[s])
BY DEF TypeOK, Placed, Grows

\* Links grow when one of them does and the others are left alone.
LEMMA OneGrows ==
  ASSUME TypeOK, Placed, NEW s \in Sessions, NEW l,
         link' = [link EXCEPT ![s] = l], Grows(link[s], l)
  PROVE  LinksGrow
<1>1. l \in Link
  BY DEF Grows
<1>2. QED
  BY <1>1, SameGrows DEF LinksGrow, TypeOK

\* Closing a socket that has been used.
LEMMA ClosingGrows ==
  ASSUME NEW l, NEW m \in Link, Grows(l, m)
  PROVE  Grows(l, Closing(m))
BY DEF Grows, Closing, Link

\* A frame is put on its way.
LEMMA CarriedGrows ==
  ASSUME TypeOK, Placed, NEW s \in Sessions, NEW f \in Frames, link' = Carried(s, f)
  PROVE  LinksGrow
BY CarriedStep, SameGrows DEF LinksGrow, Grows

\* The frames a replica writes to a registered socket.
LEMMA SendsLinks ==
  ASSUME TypeOK, Placed, NEW j \in Jobs, NEW g \in Gateways, Sends(j, g)
  PROVE  LinksGrow
<1>1. registry[g] \in Sessions /\ [kind |-> "job", job |-> j] \in Frames
  BY DEF Sends, TypeOK, Frames
<1>2. QED
  BY <1>1, CarriedGrows DEF Sends

\* Links that are not touched grow.
LEMMA UnchangedGrow ==
  ASSUME TypeOK, Placed, UNCHANGED link
  PROVE  LinksGrow
BY SameGrows DEF LinksGrow, TypeOK

\* A call that is at its replica, and a request at its peer, are somewhere.
LEMMA CallIsSomewhere ==
  ASSUME TypeOK, Placed, NEW j \in Jobs
  PROVE  /\ call[j].state \in {"selected", "waiting", "asking"} => call[j].gw \in Gateways
         /\ peer[j].state # "none" =>
              peer[j].session \in Sessions /\ link[peer[j].session].gw \in Gateways
<1>1. call[j] \in Call /\ peer[j] \in Peer /\ \A s \in Sessions : link[s] \in Link
  BY DEF TypeOK
<1>2. QED
  BY <1>1 DEF Placed, Call, Peer, Link

\* The steps of a call.
LEMMA CallLinks ==
  ASSUME TypeOK, Placed, NEW j \in Jobs, CallStep(j)
  PROVE  LinksGrow
<1>1. CASE Resolve(j)
  <2>1. call[j].gw \in Gateways
    BY <1>1, CallIsSomewhere DEF Resolve
  <2>2. UNCHANGED link \/ Sends(j, call[j].gw)
    BY <1>1 DEF Resolve, CannotSend
  <2>3. QED
    BY <2>1, <2>2, SendsLinks, UnchangedGrow
<1>2. CASE PeerDispatch(j)
  <2>1. link[peer[j].session].gw \in Gateways
    BY <1>2, CallIsSomewhere DEF PeerDispatch
  <2>2. UNCHANGED link \/ Sends(j, link[peer[j].session].gw)
    BY <1>2 DEF PeerDispatch, CannotSend
  <2>3. QED
    BY <2>1, <2>2, SendsLinks, UnchangedGrow
<1>3. CASE Timeout(j)
  <2>1. pending[j].via \in Sessions /\ [kind |-> "cancel", job |-> j] \in Frames
    BY <1>3 DEF Timeout, TypeOK, Entry, Frames
  <2>2. QED
    BY <1>3, <2>1, CarriedGrows DEF Timeout
<1>4. CASE ResolveFails(j) \/ PeerReceive(j) \/ PeerResponse(j) \/ PeerGiveUp(j)
  BY <1>4, UnchangedGrow DEF ResolveFails, PeerReceive, PeerResponse, PeerGiveUp, session
<1>5. QED
  BY <1>1, <1>2, <1>3, <1>4 DEF CallStep

\* Reading a frame at either end.
LEMMA ReadLinks ==
  ASSUME TypeOK, Placed, NEW s \in Sessions, RecvResult(s) \/ RecvJob(s) \/ RecvCancel(s)
  PROVE  LinksGrow
<1> DEFINE d == [link[s] EXCEPT !.down = Tail(@)]
           u == [link[s] EXCEPT !.up = Tail(@)]
<1>1. link[s] \in Link
  BY SameGrows
<1>2. CASE RecvResult(s)
  <2>1. link' = [link EXCEPT ![s] = u] /\ link[s].up # <<>>
    BY <1>2 DEF RecvResult
  <2>2. Tail(link[s].up) \in Seq(Results)
    BY <1>1, <2>1 DEF Link
  <2>3. Grows(link[s], u)
    BY <1>1, <2>2, SameGrows DEF Grows, Link
  <2> HIDE DEF u
  <2>4. QED
    BY <2>1, <2>3, OneGrows
<1>3. CASE RecvJob(s) \/ RecvCancel(s)
  <2>1. link' = [link EXCEPT ![s] = d] /\ link[s].down # <<>>
    BY <1>3 DEF RecvJob, RecvCancel
  <2>2. Tail(link[s].down) \in Seq(Frames)
    BY <1>1, <2>1 DEF Link
  <2>3. Grows(link[s], d)
    BY <1>1, <2>2, SameGrows DEF Grows, Link
  <2> HIDE DEF d
  <2>4. QED
    BY <2>1, <2>3, OneGrows
<1>4. QED
  BY <1>2, <1>3

\* The agent's own steps.
LEMMA AgentLinks ==
  ASSUME TypeOK, Placed,
         LoseSocket \/ Restart \/ \E j \in Jobs : Begin(j) \/ Finish(j)
  PROVE  LinksGrow
<1>1. CASE LoseSocket \/ Restart
  <2> DEFINE l(s) == [link[s] EXCEPT !.down = <<>>]
  <2>1. ASSUME NEW s \in Sessions
        PROVE  l(s) \in Link /\ Grows(link[s], l(s))
    <3>1. <<>> \in Seq(Frames)
      OBVIOUS
    <3>2. QED
      BY <3>1, SameGrows DEF Grows, Link
  <2>2. link' = [s \in Sessions |-> IF s = current THEN l(s) ELSE link[s]]
    BY <1>1 DEF LoseSocket, Restart, Leaves
  <2> HIDE DEF l
  <2>3. QED
    BY <2>1, <2>2, SameGrows DEF LinksGrow
<1>2. ASSUME NEW j \in Jobs, Finish(j)
      PROVE  LinksGrow
  <2> DEFINE s == run[j].session
  <2>1. PICK ok \in BOOLEAN :
          link' = IF current = s /\ link[s].end = "open"
                    THEN [link EXCEPT ![s].up = Append(@, [job |-> j, ok |-> ok])]
                    ELSE link
    BY <1>2 DEF Finish
  <2>2. CASE UNCHANGED link
    BY <2>2, UnchangedGrow
  <2>3. CASE current = s /\ link[s].end = "open"
    <3> DEFINE m == [link[s] EXCEPT !.up = Append(@, [job |-> j, ok |-> ok])]
    <3>1. CASE s \in Sessions
      <4>1. [job |-> j, ok |-> ok] \in Results /\ link[s] \in Link
        BY <3>1, SameGrows DEF Results
      <4>2. Grows(link[s], m)
        <5>1. Append(link[s].up, [job |-> j, ok |-> ok]) \in Seq(Results)
          BY <4>1 DEF Link
        <5>2. QED
          BY <3>1, <4>1, <5>1, SameGrows DEF Grows, Link
      <4>3. link' = [link EXCEPT ![s] = m]
        BY <2>1, <2>3
      <4> HIDE DEF m, s
      <4>4. QED
        BY <3>1, <4>2, <4>3, OneGrows
    <3>2. CASE s \notin Sessions
      <4>1. UNCHANGED link
        BY <2>1, <2>3, <3>2 DEF TypeOK
      <4>2. QED
        BY <4>1, UnchangedGrow
    <3>3. QED
      BY <3>1, <3>2
  <2>4. QED
    BY <2>1, <2>2, <2>3
<1>3. ASSUME NEW j \in Jobs, Begin(j)
      PROVE  LinksGrow
  BY <1>3, UnchangedGrow DEF Begin, session
<1>4. QED
  BY <1>1, <1>2, <1>3

\* The steps of a session.
LEMMA SessionLinks ==
  ASSUME TypeOK, Placed, NEW s \in Sessions, SessionStep(s)
  PROVE  LinksGrow
<1>1. link[s] \in Link /\ Grows(link[s], link[s])
  BY SameGrows
<1>2. ASSUME NEW g \in Gateways, Dial(s, g)
      PROVE  LinksGrow
  <2> DEFINE l == [link[s] EXCEPT !.gw = g, !.end = "open"]
  <2>1. link[s].hello = "none"
    BY <1>2 DEF Dial, Placed
  <2>2. Grows(link[s], l)
    BY <1>1, <2>1, JobDispatchAssumption DEF Grows, Link
  <2>3. link' = [link EXCEPT ![s] = l]
    BY <1>2 DEF Dial, TypeOK
  <2> HIDE DEF l
  <2>4. QED
    BY <2>2, <2>3, OneGrows
<1>3. CASE Claim(s)
  <2> DEFINE l == [link[s] EXCEPT !.hello = "claimed"]
             m == [link[s] EXCEPT !.hello = "over"]
  <2>1. link[s].end # "unused" /\ link[s].hello = "none"
    BY <1>3 DEF Claim
  <2>2. Grows(link[s], l) /\ Grows(link[s], m) /\ m \in Link
    BY <1>1, <2>1 DEF Grows, Link
  <2>3. link' = [link EXCEPT ![s] = l] \/ link' = [link EXCEPT ![s] = Closing(m)]
    BY <1>3 DEF Claim, TypeOK
  <2> HIDE DEF l, m
  <2>4. QED
    BY <2>2, <2>3, OneGrows, ClosingGrows
<1>4. CASE Register(s)
  <2> DEFINE l == [link[s] EXCEPT !.hello = "stamping"]
  <2>1. link[s].hello = "claimed"
    BY <1>4 DEF Register
  <2>2. Grows(link[s], l)
    BY <1>1, <2>1 DEF Grows, Link
  <2>3. \A t \in Sessions : Grows(link[t], Closing(link[t])) /\ Grows(link[t], link[t])
    BY SameGrows, ClosingGrows
  <2>4. link' = [t \in Sessions |->
          IF t = s THEN l ELSE IF t = registry[link[s].gw] THEN Closing(link[t]) ELSE link[t]]
    BY <1>4 DEF Register
  <2> HIDE DEF l
  <2>5. QED
    BY <2>2, <2>3, <2>4 DEF LinksGrow, Grows
<1>5. CASE Welcome(s)
  <2> DEFINE l == [link[s] EXCEPT !.hello = "bound"]
  <2>1. Grows(link[s], l)
    BY <1>1, <1>5 DEF Grows, Link, Welcome
  <2>2. link' = [link EXCEPT ![s] = l]
    BY <1>5 DEF Welcome, TypeOK
  <2> HIDE DEF l
  <2>3. QED
    BY <2>1, <2>2, OneGrows
<1>6. CASE BackOut(s)
  <2> DEFINE l == [link[s] EXCEPT !.hello = "over", !.release = TRUE]
  <2>1. l \in Link /\ Grows(link[s], l)
    BY <1>1, <1>6 DEF Grows, Link, BackOut
  <2>2. link' = [link EXCEPT ![s] = Closing(l)]
    BY <1>6 DEF BackOut, TypeOK
  <2> HIDE DEF l
  <2>3. QED
    BY <2>1, <2>2, OneGrows, ClosingGrows
<1>7. CASE OnClose(s)
  <2> DEFINE r == link[s].release \/ GivesUp(s)
             l == [link[s] EXCEPT !.end = "closed", !.down = <<>>, !.up = <<>>, !.release = r]
  <2>1. r \in BOOLEAN /\ <<>> \in Seq(Frames) /\ <<>> \in Seq(Results)
    BY <1>1 DEF Link, GivesUp, Registered
  <2>2. link' = [link EXCEPT ![s] = l]
    BY <1>7 DEF OnClose, TypeOK
  <2>3. link[s].end # "unused"
    BY <1>7 DEF OnClose
  <2> HIDE DEF r
  <2>4. Grows(link[s], l)
    BY <1>1, <2>1, <2>3 DEF Grows, Link
  <2> HIDE DEF l
  <2>5. QED
    BY <2>2, <2>4, OneGrows
<1>8. CASE Release(s)
  <2> DEFINE l == [link[s] EXCEPT !.release = FALSE]
  <2>1. Grows(link[s], l)
    BY <1>1, <1>8 DEF Grows, Link
  <2>2. link' = [link EXCEPT ![s] = l]
    BY <1>8 DEF Release, TypeOK
  <2> HIDE DEF l
  <2>3. QED
    BY <2>1, <2>2, OneGrows
<1>9. QED
  BY <1>2, <1>3, <1>4, <1>5, <1>6, <1>7, <1>8 DEF SessionStep

\* The steps of a replica.
LEMMA ReplicaLinks ==
  ASSUME TypeOK, Placed, NEW g \in Gateways, Revalidate(g) \/ Crash(g)
  PROVE  LinksGrow
<1>1. CASE Revalidate(g)
  <2> DEFINE s == registry[g]
             l == [link[s] EXCEPT !.hello = "over", !.release = TRUE]
  <2>1. s \in Sessions /\ link[s].hello \notin {"none", "claimed"}
    BY <1>1 DEF Revalidate, TypeOK
  <2>2. link[s] \in Link /\ Grows(link[s], link[s])
    BY <2>1, SameGrows
  <2>3. l \in Link /\ Grows(link[s], l)
    BY <2>1, <2>2 DEF Grows, Link
  <2>4. link' = [link EXCEPT ![s] = Closing(l)]
    BY <1>1, <2>1 DEF Revalidate, TypeOK
  <2> HIDE DEF l, s
  <2>5. QED
    BY <2>1, <2>3, <2>4, OneGrows, ClosingGrows
<1>2. CASE Crash(g)
  <2> DEFINE l == [NewLink EXCEPT !.gw = g, !.end = "closed", !.hello = "over"]
  <2>1. l \in Link /\ l.gw = g /\ l.end = "closed" /\ l.hello = "over"
    BY EmptyRecords DEF NewLink, Link
  <2>2. link' = [s \in Sessions |-> IF link[s].gw = g THEN l ELSE link[s]]
    BY <1>2 DEF Crash
  <2> HIDE DEF l
  <2>3. \A s \in Sessions : link[s].gw = g => Grows(link[s], l)
    BY <2>1, JobDispatchAssumption DEF Grows
  <2>4. QED
    BY <2>2, <2>3, SameGrows DEF LinksGrow, Grows
<1>3. QED
  BY <1>1, <1>2

\* Every step lets the links grow.
LEMMA NextLinks ==
  ASSUME TypeOK, Placed, [Next]_vars
  PROVE  LinksGrow
<1>1. CASE UNCHANGED vars
  BY <1>1, UnchangedGrow DEF vars
<1>2. CASE RouteGoes \/ Revoke \/ \E j \in Jobs, g \in Gateways : Select(j, g)
  BY <1>2, UnchangedGrow DEF RouteGoes, Revoke, Select, session
<1>3. QED
  BY <1>1, <1>2, CallLinks, ReadLinks, AgentLinks, SessionLinks, ReplicaLinks DEF Next

-----------------------------------------------------------------------------
(* Jobs: what a step may do to a call, its peer request and its entry.     *)

WorkTyped ==
  /\ call' \in [Jobs -> Call]
  /\ peer' \in [Jobs -> Peer]
  /\ pending' \in [Jobs -> Entry]
  /\ sent' \in [Jobs -> Nat]

CallIs(k, st, o) ==
  call'[k].gw = call[k].gw /\ call'[k].state = st /\ call'[k].outcome = o

PeerIs(k, st, o) ==
  peer'[k].session = peer[k].session /\ peer'[k].state = st /\ peer'[k].answer = o

Written(k, g) ==
  /\ g \in Gateways /\ registry[g] # None
  /\ pending'[k] = [gw |-> g, via |-> registry[g]]
  /\ sent'[k] = sent[k] + 1

SameCall(k)    == call'[k] = call[k]
SamePeer(k)    == peer'[k] = peer[k]
SameEntry(k)   == pending'[k] = pending[k] /\ sent'[k] = sent[k]

\* Success is reported of k by a frame on its way to a replica.
Frame(k) ==
  \E s \in Sessions : \E i \in 1..Len(link[s].up) : link[s].up[i] = [job |-> k, ok |-> TRUE]

Selected(k) ==
  /\ call[k].state = "idle" /\ call'[k].gw \in Gateways
  /\ call'[k].state = "selected" /\ call'[k].outcome = call[k].outcome
  /\ SamePeer(k) /\ SameEntry(k)

GivenUp(k) ==
  /\ call[k].state \in {"idle", "selected", "asking"}
  /\ \E o \in Outcomes \ {"none", "success"} : CallIs(k, "over", o)
  /\ SamePeer(k) /\ SameEntry(k)

SentHere(k) ==
  /\ call[k].state = "selected" /\ CallIs(k, "waiting", call[k].outcome)
  /\ Written(k, call[k].gw) /\ SamePeer(k)

Asked(k) ==
  /\ call[k].state = "selected" /\ CallIs(k, "asking", call[k].outcome)
  /\ route # None /\ peer'[k].session = route
  /\ peer'[k].state = "request" /\ peer'[k].answer = peer[k].answer
  /\ SameEntry(k)

PeerRefuses(k) ==
  /\ peer[k].state \in {"request", "opening"}
  /\ \/ peer[k].state = "request" /\ PeerIs(k, "opening", peer[k].answer)
     \/ \E o \in Outcomes \ {"none", "success"} : PeerIs(k, "response", o)
  /\ SameCall(k) /\ SameEntry(k)

SentThere(k) ==
  /\ peer[k].state = "opening" /\ PeerIs(k, "waiting", peer[k].answer)
  /\ Written(k, link[peer[k].session].gw) /\ SameCall(k)

Responded(k) ==
  /\ peer[k].state = "response" /\ peer'[k].state = "none" /\ peer'[k].answer = "none"
  /\ IF call[k].state = "asking" THEN CallIs(k, "over", peer[k].answer) ELSE SameCall(k)
  /\ SameEntry(k)

Answered(k) ==
  /\ \E o \in Outcomes \ {"none"} :
       /\ o = "success" => Frame(k)
       /\ IF call[k].state = "waiting" THEN CallIs(k, "over", o) ELSE SameCall(k)
       /\ IF peer[k].state = "waiting" THEN PeerIs(k, "response", o) ELSE SamePeer(k)
  /\ pending'[k] = NoEntry /\ sent'[k] = sent[k]

Died(k, g) ==
  /\ IF call[k].gw = g /\ call[k].state # "over" THEN CallIs(k, "over", "lost") ELSE SameCall(k)
  /\ IF peer[k].session # None /\ link[peer[k].session].gw = g
       THEN peer'[k].state = "none" /\ peer'[k].answer = "none" ELSE SamePeer(k)
  /\ pending'[k] = IF pending[k].gw = g THEN NoEntry ELSE pending[k]
  /\ sent'[k] = sent[k]

JobStep(k) ==
  \/ SameCall(k) /\ SamePeer(k) /\ SameEntry(k)
  \/ Selected(k) \/ GivenUp(k) \/ SentHere(k) \/ Asked(k)
  \/ PeerRefuses(k) \/ SentThere(k) \/ Responded(k) \/ Answered(k)
  \/ \E g \in Gateways : Died(k, g)

\* A dispatch that sends makes the entry and counts the frame.
LEMMA SendsStep ==
  ASSUME TypeOK, NEW j \in Jobs, NEW g \in Gateways, Sends(j, g)
  PROVE  /\ pending' \in [Jobs -> Entry] /\ sent' \in [Jobs -> Nat]
         /\ Written(j, g)
         /\ \A k \in Jobs \ {j} : SameEntry(k)
<1>1. registry[g] \in Sessions \cup {None}
  BY DEF TypeOK
<1>2. [gw |-> g, via |-> registry[g]] \in Entry
  BY <1>1 DEF Entry
<1>3. QED
  BY <1>2 DEF Sends, TypeOK, Written, SameEntry

\* A call that ends without an entry.
LEMMA EndJob ==
  ASSUME TypeOK, NEW j \in Jobs, NEW o \in Outcomes \ {"none", "success"}, End(j, o),
         call[j].state \in {"idle", "selected", "asking"}, UNCHANGED <<peer, pending, sent>>
  PROVE  WorkTyped /\ \A k \in Jobs : JobStep(k)
<1>1. GivenUp(j)
  BY EndStep DEF GivenUp, CallIs, SamePeer, SameEntry
<1>2. \A k \in Jobs \ {j} : SameCall(k) /\ SamePeer(k) /\ SameEntry(k)
  BY EndStep DEF SameCall, SamePeer, SameEntry
<1>3. WorkTyped
  BY EndStep DEF WorkTyped, TypeOK
<1>4. QED
  BY <1>1, <1>2, <1>3 DEF JobStep

\* The jobs of S are answered o.
LEMMA AnswerJob ==
  ASSUME TypeOK, NEW S \in SUBSET Jobs, NEW o \in Outcomes \ {"none"}, Answer(S, o),
         o = "success" => \A k \in S : Frame(k), UNCHANGED sent
  PROVE  WorkTyped /\ \A k \in Jobs : JobStep(k)
<1>1. WorkTyped
  BY AnswerStep DEF WorkTyped, TypeOK
<1>2. ASSUME NEW k \in S
      PROVE  Answered(k)
  <2>1. k \in Jobs
    OBVIOUS
  <2>2. /\ IF call[k].state = "waiting" THEN CallIs(k, "over", o) ELSE SameCall(k)
        /\ IF peer[k].state = "waiting" THEN PeerIs(k, "response", o) ELSE SamePeer(k)
        /\ pending'[k] = NoEntry /\ sent'[k] = sent[k]
    BY <2>1, AnswerStep DEF CallIs, PeerIs, SameCall, SamePeer
  <2>3. o = "success" => Frame(k)
    OBVIOUS
  <2>4. QED
    BY <2>2, <2>3 DEF Answered
<1>3. ASSUME NEW k \in Jobs \ S
      PROVE  SameCall(k) /\ SamePeer(k) /\ SameEntry(k)
  BY <1>3, AnswerStep DEF SameCall, SamePeer, SameEntry
<1>4. QED
  BY <1>1, <1>2, <1>3 DEF JobStep

\* A step that leaves every job alone.
LEMMA IdleJobs ==
  ASSUME TypeOK, UNCHANGED <<call, peer, pending, sent>>
  PROVE  WorkTyped /\ \A k \in Jobs : JobStep(k)
BY DEF TypeOK, WorkTyped, JobStep, SameCall, SamePeer, SameEntry

\* The executor picks the device, or refuses a revoked one.
LEMMA SelectJobs ==
  ASSUME TypeOK, NEW j \in Jobs, NEW g \in Gateways, Select(j, g)
  PROVE  WorkTyped /\ \A k \in Jobs : JobStep(k)
<1>1. call[j].state = "idle" /\ UNCHANGED <<peer, pending, sent>>
  BY DEF Select
<1>2. CASE End(j, "revoked")
  BY <1>1, <1>2, EndJob DEF Outcomes
<1>3. CASE call' = [call EXCEPT ![j].gw = g, ![j].state = "selected"]
  <2> DEFINE c == [call[j] EXCEPT !.gw = g, !.state = "selected"]
  <2>1. call[j] \in Call /\ call' = [call EXCEPT ![j] = c]
    BY <1>3 DEF TypeOK
  <2>2. c \in Call /\ c.gw = g /\ c.state = "selected" /\ c.outcome = call[j].outcome
    BY <2>1 DEF Call
  <2> HIDE DEF c
  <2>3. WorkTyped
    BY <1>1, <2>1, <2>2 DEF WorkTyped, TypeOK
  <2>4. Selected(j)
    BY <1>1, <2>1, <2>2 DEF Selected, SamePeer, SameEntry, TypeOK
  <2>5. \A k \in Jobs \ {j} : SameCall(k) /\ SamePeer(k) /\ SameEntry(k)
    BY <1>1, <2>1 DEF SameCall, SamePeer, SameEntry, TypeOK
  <2>6. QED
    BY <2>3, <2>4, <2>5 DEF JobStep
<1>4. QED
  BY <1>2, <1>3 DEF Select

\* A call looks up the route: it is refused, sends here, or asks a peer.
LEMMA ResolveJobs ==
  ASSUME TypeOK, Placed, NEW j \in Jobs, Resolve(j)
  PROVE  WorkTyped /\ \A k \in Jobs : JobStep(k)
<1> DEFINE g == call[j].gw
           w == [call[j] EXCEPT !.state = "waiting"]
           a == [call[j] EXCEPT !.state = "asking"]
           p == [peer[j] EXCEPT !.state = "request", !.session = route]
<1>1. call[j].state = "selected" /\ g \in Gateways
  BY CallIsSomewhere DEF Resolve
<1>2. /\ call \in [Jobs -> Call] /\ call[j] \in Call
      /\ peer \in [Jobs -> Peer] /\ peer[j] \in Peer /\ route \in Sessions \cup {None}
      /\ pending \in [Jobs -> Entry] /\ sent \in [Jobs -> Nat]
  BY DEF TypeOK
<1>3. CASE End(j, "offline") /\ UNCHANGED <<peer, pending, sent>>
  BY <1>1, <1>3, EndJob DEF Outcomes
<1>4. CASE Sends(j, g) /\ call' = [call EXCEPT ![j].state = "waiting"] /\ UNCHANGED peer
  <2>1. call' = [call EXCEPT ![j] = w]
    BY <1>4 DEF TypeOK
  <2>2. w \in Call /\ w.gw = g /\ w.state = "waiting" /\ w.outcome = call[j].outcome
    BY <1>2 DEF Call
  <2>3. /\ pending' \in [Jobs -> Entry] /\ sent' \in [Jobs -> Nat]
        /\ Written(j, g) /\ \A k \in Jobs \ {j} : SameEntry(k)
    BY <1>1, <1>4, SendsStep
  <2> HIDE DEF w
  <2>4. WorkTyped
    BY <1>2, <1>4, <2>1, <2>2, <2>3 DEF WorkTyped
  <2>5. SentHere(j)
    BY <1>1, <1>4, <2>1, <2>2, <2>3 DEF SentHere, CallIs, SamePeer, TypeOK
  <2>6. \A k \in Jobs \ {j} : SameCall(k) /\ SamePeer(k) /\ SameEntry(k)
    BY <1>4, <2>1, <2>3 DEF SameCall, SamePeer, TypeOK
  <2>7. QED
    BY <2>4, <2>5, <2>6 DEF JobStep
<1>5. CASE /\ route # None /\ UNCHANGED <<pending, sent>>
           /\ call' = [call EXCEPT ![j].state = "asking"]
           /\ peer' = [peer EXCEPT ![j].state = "request", ![j].session = route]
  <2>1. call' = [call EXCEPT ![j] = a] /\ peer' = [peer EXCEPT ![j] = p]
    BY <1>5 DEF TypeOK
  <2>2. a \in Call /\ a.gw = g /\ a.state = "asking" /\ a.outcome = call[j].outcome
    BY <1>2 DEF Call
  <2>3. p \in Peer /\ p.session = route /\ p.state = "request" /\ p.answer = peer[j].answer
    BY <1>2 DEF Peer
  <2> HIDE DEF a, p
  <2>4. WorkTyped
    <3>1. call' \in [Jobs -> Call] /\ peer' \in [Jobs -> Peer]
      BY <1>2, <2>1, <2>2, <2>3
    <3>2. pending' \in [Jobs -> Entry] /\ sent' \in [Jobs -> Nat]
      BY <1>2, <1>5
    <3>3. QED
      BY <3>1, <3>2 DEF WorkTyped
  <2>5. Asked(j)
    BY <1>1, <1>5, <2>1, <2>2, <2>3 DEF Asked, CallIs, SameEntry, TypeOK
  <2>6. \A k \in Jobs \ {j} : SameCall(k) /\ SamePeer(k) /\ SameEntry(k)
    BY <1>5, <2>1 DEF SameCall, SamePeer, SameEntry, TypeOK
  <2>7. QED
    BY <2>4, <2>5, <2>6 DEF JobStep
<1>6. QED
  BY <1>3, <1>4, <1>5 DEF Resolve, CannotSend

\* A peer takes the request, refuses it, or sends.
LEMMA PeerJobs ==
  ASSUME TypeOK, Placed, NEW j \in Jobs, PeerReceive(j) \/ PeerDispatch(j)
  PROVE  WorkTyped /\ \A k \in Jobs : JobStep(k)
<1> DEFINE g == link[peer[j].session].gw
           m(st) == [peer[j] EXCEPT !.state = st]
           r(o) == [peer[j] EXCEPT !.state = "response", !.answer = o]
<1>1. peer[j].state \in {"request", "opening"} /\ peer[j] \in Peer /\ UNCHANGED call
  BY DEF PeerReceive, PeerDispatch, TypeOK
<1>2. \A o \in {"offline", "timeout"} :
        r(o) \in Peer /\ r(o).session = peer[j].session
        /\ r(o).state = "response" /\ r(o).answer = o
  BY <1>1 DEF Peer, Outcomes
<1>3. \A st \in {"opening", "waiting"} :
        m(st) \in Peer /\ m(st).session = peer[j].session
        /\ m(st).state = st /\ m(st).answer = peer[j].answer
  BY <1>1 DEF Peer
<1>4. \/ /\ peer[j].state = "request" /\ peer' = [peer EXCEPT ![j] = m("opening")]
         /\ UNCHANGED <<pending, sent>>
      \/ /\ \E o \in {"offline", "timeout"} : peer' = [peer EXCEPT ![j] = r(o)]
         /\ UNCHANGED <<pending, sent>>
      \/ /\ peer[j].state = "opening" /\ Sends(j, g)
         /\ peer' = [peer EXCEPT ![j] = m("waiting")]
  BY DEF PeerReceive, PeerDispatch, CannotSend, TypeOK
<1> HIDE DEF m, r
<1>5. CASE UNCHANGED <<pending, sent>> /\ peer[j].state = "request"
           /\ peer' = [peer EXCEPT ![j] = m("opening")]
  <2>1. WorkTyped /\ PeerRefuses(j)
    BY <1>1, <1>3, <1>5 DEF WorkTyped, TypeOK, PeerRefuses, PeerIs, SameCall, SameEntry
  <2>2. \A k \in Jobs \ {j} : SameCall(k) /\ SamePeer(k) /\ SameEntry(k)
    BY <1>1, <1>5 DEF SameCall, SamePeer, SameEntry, TypeOK
  <2>3. QED
    BY <2>1, <2>2 DEF JobStep
<1>6. CASE peer[j].state = "opening" /\ Sends(j, g) /\ peer' = [peer EXCEPT ![j] = m("waiting")]
  <2>1. g \in Gateways
    BY <1>1, CallIsSomewhere
  <2>2. /\ pending' \in [Jobs -> Entry] /\ sent' \in [Jobs -> Nat]
        /\ Written(j, g) /\ \A k \in Jobs \ {j} : SameEntry(k)
    BY <1>6, <2>1, SendsStep
  <2>3. WorkTyped
    BY <1>1, <1>3, <1>6, <2>2 DEF WorkTyped, TypeOK
  <2>4. SentThere(j)
    BY <1>1, <1>3, <1>6, <2>2 DEF SentThere, PeerIs, SameCall, TypeOK
  <2>5. \A k \in Jobs \ {j} : SameCall(k) /\ SamePeer(k) /\ SameEntry(k)
    BY <1>1, <1>6, <2>2 DEF SameCall, SamePeer, TypeOK
  <2>6. QED
    BY <2>3, <2>4, <2>5 DEF JobStep
<1>7. ASSUME NEW o \in {"offline", "timeout"}, peer' = [peer EXCEPT ![j] = r(o)],
             UNCHANGED <<pending, sent>>
      PROVE  WorkTyped /\ \A k \in Jobs : JobStep(k)
  <2>1. WorkTyped
    BY <1>1, <1>2, <1>7 DEF WorkTyped, TypeOK
  <2>2. PeerIs(j, "response", o) /\ o \in Outcomes \ {"none", "success"}
    BY <1>2, <1>7 DEF PeerIs, TypeOK, Outcomes
  <2>3. PeerRefuses(j)
    BY <1>1, <1>7, <2>2 DEF PeerRefuses, SameCall, SameEntry
  <2>4. \A k \in Jobs \ {j} : SameCall(k) /\ SamePeer(k) /\ SameEntry(k)
    BY <1>1, <1>7 DEF SameCall, SamePeer, SameEntry, TypeOK
  <2>5. QED
    BY <2>1, <2>3, <2>4 DEF JobStep
<1>8. QED
  BY <1>4, <1>5, <1>6, <1>7

\* The peer's answer is delivered.
LEMMA ResponseJobs ==
  ASSUME TypeOK, NEW j \in Jobs, PeerResponse(j)
  PROVE  WorkTyped /\ \A k \in Jobs : JobStep(k)
<1>1. peer[j].state = "response" /\ UNCHANGED <<pending, sent>>
  BY DEF PeerResponse
<1>2. peer[j] \in Peer /\ call[j] \in Call
  BY DEF TypeOK
<1>3. /\ call' \in [Jobs -> Call]
      /\ IF call[j].state = "asking" THEN CallIs(j, "over", peer[j].answer) ELSE SameCall(j)
      /\ \A k \in Jobs \ {j} : SameCall(k)
  <2>1. CASE call[j].state = "asking" /\ End(j, peer[j].answer)
    <3>1. peer[j].answer \in Outcomes
      BY <1>2 DEF Peer
    <3>2. QED
      BY <2>1, <3>1, EndStep DEF CallIs, SameCall
  <2>2. CASE call[j].state # "asking" /\ UNCHANGED call
    BY <2>2 DEF SameCall, TypeOK
  <2>3. QED
    BY <2>1, <2>2 DEF PeerResponse
<1>4. /\ peer' \in [Jobs -> Peer]
      /\ peer'[j].state = "none" /\ peer'[j].answer = "none"
      /\ \A k \in Jobs \ {j} : SamePeer(k)
  BY EmptyRecords DEF PeerResponse, TypeOK, SamePeer
<1>5. WorkTyped
  BY <1>1, <1>3, <1>4 DEF WorkTyped, TypeOK
<1>6. Responded(j)
  BY <1>1, <1>3, <1>4 DEF Responded, SameEntry
<1>7. \A k \in Jobs \ {j} : SameCall(k) /\ SamePeer(k) /\ SameEntry(k)
  BY <1>1, <1>3, <1>4 DEF SameEntry
<1>8. QED
  BY <1>5, <1>6, <1>7 DEF JobStep

\* A result settles its entry.
LEMMA ResultJobs ==
  ASSUME TypeOK, NEW s \in Sessions, RecvResult(s)
  PROVE  WorkTyped /\ \A k \in Jobs : JobStep(k)
<1> DEFINE r == Head(link[s].up)
           S == Settled(s, r)
<1>1. /\ Answer(S, Reported(r)) /\ UNCHANGED sent
      /\ link[s].up \in Seq(Results) /\ link[s].up # <<>>
  BY DEF RecvResult, TypeOK, Link
<1>2. r \in Results /\ r = link[s].up[1] /\ 1 \in 1..Len(link[s].up)
  BY <1>1
<1>3. S \in SUBSET Jobs /\ Reported(r) \in Outcomes \ {"none"}
  BY DEF Settled, Reported, Outcomes
<1>4. ASSUME NEW k \in S, Reported(r) = "success"
      PROVE  Frame(k)
  <2>1. k = r.job /\ r.ok = TRUE
    BY <1>2, <1>4 DEF Settled, Reported, Results
  <2>2. r = [job |-> k, ok |-> TRUE]
    BY <1>2, <2>1 DEF Results
  <2>3. QED
    BY <1>2, <2>2 DEF Frame
<1> HIDE DEF r, S
<1>5. QED
  BY <1>1, <1>3, <1>4, AnswerJob

\* The entries of a replica are failed, at a close or a revocation.
LEMMA FailJobs ==
  ASSUME TypeOK, NEW g, NEW o \in Outcomes \ {"none", "success"},
         FailDevice(g, o), UNCHANGED sent
  PROVE  WorkTyped /\ \A k \in Jobs : JobStep(k)
<1>1. {j \in Jobs : pending[j].gw = g} \in SUBSET Jobs
  OBVIOUS
<1>2. QED
  BY <1>1, AnswerJob DEF FailDevice

\* A replica dies.
LEMMA CrashJobs ==
  ASSUME TypeOK, NEW g \in Gateways, Crash(g)
  PROVE  WorkTyped /\ \A k \in Jobs : JobStep(k)
<1> DEFINE c(k) == [call[k] EXCEPT !.state = "over", !.outcome = "lost"]
           none == [state |-> "none", session |-> None, answer |-> "none"]
<1>1. /\ call' = [k \in Jobs |-> IF call[k].gw = g /\ call[k].state # "over" THEN c(k) ELSE call[k]]
      /\ peer' = [k \in Jobs |-> IF peer[k].session # None /\ link[peer[k].session].gw = g
                                    THEN none ELSE peer[k]]
      /\ pending' = [k \in Jobs |-> IF pending[k].gw = g THEN NoEntry ELSE pending[k]]
      /\ UNCHANGED sent
  BY DEF Crash
<1>2. ASSUME NEW k \in Jobs
      PROVE  /\ c(k) \in Call /\ c(k).gw = call[k].gw
             /\ c(k).state = "over" /\ c(k).outcome = "lost"
  <2>1. call[k] \in Call /\ "lost" \in Outcomes
    BY DEF TypeOK, Outcomes
  <2>2. QED
    BY <2>1 DEF Call
<1>3. none \in Peer /\ NoEntry \in Entry /\ none.state = "none" /\ none.answer = "none"
  BY EmptyRecords
<1> HIDE DEF c, none
<1>4. WorkTyped
  BY <1>1, <1>2, <1>3 DEF WorkTyped, TypeOK
<1>5. \A k \in Jobs : Died(k, g)
  BY <1>1, <1>2, <1>3 DEF Died, CallIs, SameCall, SamePeer
<1>6. QED
  BY <1>4, <1>5 DEF JobStep

\* Every step is one of these for every job.
LEMMA NextJobs ==
  ASSUME TypeOK, Placed, [Next]_vars
  PROVE  WorkTyped /\ \A k \in Jobs : JobStep(k)
<1>1. CASE UNCHANGED <<call, peer, pending, sent>>
  BY <1>1, IdleJobs
<1>2. ASSUME NEW j \in Jobs, CallStep(j)
      PROVE  WorkTyped /\ \A k \in Jobs : JobStep(k)
  <2>1. CASE ResolveFails(j)
    BY <2>1, EndJob DEF ResolveFails, Outcomes
  <2>2. CASE PeerGiveUp(j)
    BY <2>2, EndJob DEF PeerGiveUp, Outcomes
  <2>3. CASE Timeout(j)
    BY <2>3, AnswerJob DEF Timeout, Outcomes
  <2>4. QED
    BY <1>2, <2>1, <2>2, <2>3, ResolveJobs, PeerJobs, ResponseJobs DEF CallStep
<1>3. ASSUME NEW s \in Sessions, OnClose(s)
      PROVE  WorkTyped /\ \A k \in Jobs : JobStep(k)
  BY <1>1, <1>3, FailJobs DEF OnClose, Outcomes
<1>4. ASSUME NEW g \in Gateways, Revalidate(g)
      PROVE  WorkTyped /\ \A k \in Jobs : JobStep(k)
  BY <1>4, FailJobs DEF Revalidate, Outcomes
<1>5. CASE \/ UNCHANGED vars \/ LoseSocket \/ Restart \/ RouteGoes \/ Revoke
           \/ \E j \in Jobs : Begin(j) \/ Finish(j)
           \/ \E s \in Sessions : \/ RecvJob(s) \/ RecvCancel(s) \/ Claim(s) \/ Register(s)
                                  \/ Welcome(s) \/ BackOut(s) \/ Release(s)
                                  \/ \E g \in Gateways : Dial(s, g)
  <2>1. UNCHANGED <<call, peer, pending, sent>>
    BY <1>5 DEF vars, LoseSocket, Restart, RouteGoes, Revoke, Begin, Finish, RecvJob, RecvCancel,
      Claim, Register, Welcome, BackOut, Release, Dial, work
  <2>2. QED
    BY <1>1, <2>1
<1>6. QED
  BY <1>2, <1>3, <1>4, <1>5, SelectJobs, ResultJobs, CrashJobs DEF Next, SessionStep

-----------------------------------------------------------------------------
(* Type correctness.                                                       *)

\* The initial states have the right types and satisfy all of IInv.
LEMMA InitIInv == Init => IInv
<1> SUFFICES ASSUME Init
             PROVE  IInv
  OBVIOUS
<1> USE JobDispatchAssumption
<1>1. /\ \A s \in Sessions : link[s] = NewLink
      /\ NewLink.gw = None /\ NewLink.end = "unused" /\ NewLink.hello = "none"
      /\ NewLink.down = <<>> /\ NewLink.up = <<>>
  BY DEF Init, NewLink
<1>2. TypeOK
  <2>1. link \in [Sessions -> Link]
    BY EmptyRecords DEF Init
  <2>2. /\ call \in [Jobs -> Call] /\ peer \in [Jobs -> Peer]
        /\ pending \in [Jobs -> Entry] /\ run \in [Jobs -> Run]
    BY EmptyRecords DEF Init
  <2>3. /\ \A g \in Gateways : registry[g] = None
        /\ \A j \in Jobs : pending[j] = NoEntry
    BY DEF Init
  <2>4. QED
    BY <2>1, <2>2, <2>3 DEF Init, TypeOK
<1>3. Placed
  BY <1>1 DEF Init, Placed
<1>4. PendingHasWaiter /\ DeliveredOnce /\ OneAttempt
  BY DEF Init, PendingHasWaiter, DeliveredOnce, OneAttempt
<1>5. CancelledIsOver /\ ReportsAreReal
  <2>1. \A s \in Sessions : 1..Len(link[s].down) = {} /\ 1..Len(link[s].up) = {}
    BY <1>1
  <2>2. \A j \in Jobs : ~run[j].aborted /\ call[j].outcome = "none" /\ peer[j].answer = "none"
    BY DEF Init
  <2>3. \A j \in Jobs : ~Cancelled(j) /\ ~Reports(j)
    BY <2>1, <2>2 DEF Cancelled, Reports
  <2>4. QED
    BY <2>3 DEF CancelledIsOver, ReportsAreReal
<1>6. QED
  BY <1>2, <1>3, <1>4, <1>5 DEF IInv

\* A replica registers only a session whose handshake it has just finished.
LEMMA NextRegistry ==
  ASSUME TypeOK, Placed, [Next]_vars
  PROVE  /\ registry' \in [Gateways -> Sessions \cup {None}]
         /\ \A g \in Gateways :
              \/ registry'[g] \in {None, registry[g]}
              \/ registry'[g] \in Sessions /\ link'[registry'[g]].gw = g
                 /\ link'[registry'[g]].hello = "stamping"
<1>1. CASE UNCHANGED registry
  BY <1>1 DEF TypeOK
<1>2. ASSUME NEW s \in Sessions, Register(s)
      PROVE  /\ registry' \in [Gateways -> Sessions \cup {None}]
             /\ \A g \in Gateways :
                  \/ registry'[g] \in {None, registry[g]}
                  \/ registry'[g] \in Sessions /\ link'[registry'[g]].gw = g
                     /\ link'[registry'[g]].hello = "stamping"
  <2>1. registry' = [registry EXCEPT ![link[s].gw] = s]
    BY <1>2 DEF Register
  <2>2. link'[s].gw = link[s].gw /\ link'[s].hello = "stamping"
    <3> DEFINE l == [link[s] EXCEPT !.hello = "stamping"]
    <3>1. link'[s] = l
      BY <1>2 DEF Register
    <3>2. l.gw = link[s].gw /\ l.hello = "stamping"
      BY DEF TypeOK, Link
    <3> HIDE DEF l
    <3>3. QED
      BY <3>1, <3>2
  <2>3. QED
    BY <2>1, <2>2 DEF TypeOK
<1>3. ASSUME NEW s \in Sessions, OnClose(s) \/ BackOut(s)
      PROVE  /\ registry' \in [Gateways -> Sessions \cup {None}]
             /\ \A g \in Gateways : registry'[g] \in {None, registry[g]}
  <2>1. \/ registry' = [registry EXCEPT ![link[s].gw] = IF @ = s THEN None ELSE @]
        \/ registry' = [g \in Gateways |-> IF registry[g] = s THEN None ELSE registry[g]]
    BY <1>3 DEF OnClose, BackOut
  <2>2. registry \in [Gateways -> Sessions \cup {None}]
    BY DEF TypeOK
  <2>3. QED
    BY <2>1, <2>2
<1>4. ASSUME NEW g \in Gateways, Revalidate(g) \/ Crash(g)
      PROVE  /\ registry' \in [Gateways -> Sessions \cup {None}]
             /\ \A h \in Gateways : registry'[h] \in {None, registry[h]}
  BY <1>4 DEF Revalidate, Crash, TypeOK
<1>5. CASE \/ UNCHANGED vars \/ LoseSocket \/ Restart \/ RouteGoes \/ Revoke
           \/ \E j \in Jobs : \/ Begin(j) \/ Finish(j) \/ CallStep(j)
                              \/ \E g \in Gateways : Select(j, g)
           \/ \E s \in Sessions : \/ RecvJob(s) \/ RecvCancel(s) \/ RecvResult(s) \/ Claim(s)
                                  \/ Welcome(s) \/ Release(s) \/ \E g \in Gateways : Dial(s, g)
  <2>1. UNCHANGED registry
    BY <1>5 DEF vars, LoseSocket, Restart, RouteGoes, Revoke, Begin, Finish, CallStep, Resolve,
      ResolveFails, PeerReceive, PeerDispatch, PeerResponse, PeerGiveUp, Timeout, Select,
      RecvJob, RecvCancel, RecvResult, Claim, Welcome, Release, Dial, session
  <2>2. QED
    BY <1>1, <2>1
<1>6. QED
  BY <1>2, <1>3, <1>4, <1>5 DEF Next, SessionStep

\* A route is taken by a session that says hello.
LEMMA NextRoute ==
  ASSUME TypeOK, Placed, [Next]_vars
  PROVE  /\ route' \in Sessions \cup {None}
         /\ route' \in {None, route} \/ link'[route'].hello # "none"
<1>1. ASSUME NEW s \in Sessions, Claim(s)
      PROVE  /\ route' \in Sessions \cup {None}
             /\ route' \in {None, route} \/ link'[route'].hello # "none"
  <2>1. CASE UNCHANGED route
    BY <2>1 DEF TypeOK
  <2>2. CASE route' = s /\ link' = [link EXCEPT ![s].hello = "claimed"]
    BY <2>2 DEF TypeOK, Link
  <2>3. QED
    BY <1>1, <2>1, <2>2 DEF Claim
<1>2. CASE RouteGoes \/ \E s \in Sessions : Release(s)
  <2>1. route' \in {None, route}
    BY <1>2 DEF RouteGoes, Release
  <2>2. QED
    BY <2>1 DEF TypeOK
<1>3. CASE \/ UNCHANGED vars \/ LoseSocket \/ Restart \/ Revoke
           \/ \E j \in Jobs : \/ Begin(j) \/ Finish(j) \/ CallStep(j)
                              \/ \E g \in Gateways : Select(j, g)
           \/ \E s \in Sessions : \/ RecvJob(s) \/ RecvCancel(s) \/ RecvResult(s) \/ Register(s)
                                  \/ Welcome(s) \/ BackOut(s) \/ OnClose(s)
                                  \/ \E g \in Gateways : Dial(s, g)
           \/ \E g \in Gateways : Revalidate(g) \/ Crash(g)
  <2>1. UNCHANGED route
    BY <1>3 DEF vars, LoseSocket, Restart, Revoke, Begin, Finish, CallStep, Resolve,
      ResolveFails, PeerReceive, PeerDispatch, PeerResponse, PeerGiveUp, Timeout, Select,
      RecvJob, RecvCancel, RecvResult, Register, Welcome, BackOut, OnClose, Dial, Revalidate,
      Crash, session
  <2>2. QED
    BY <2>1 DEF TypeOK
<1>4. QED
  BY <1>1, <1>2, <1>3 DEF Next, SessionStep

\* The types of the records, the links and the table are kept.
LEMMA NextConsistent ==
  ASSUME TypeOK, Placed, [Next]_vars, run' \in [Jobs -> Run]
  PROVE  TypeOK' /\ Placed'
<1> USE JobDispatchAssumption
<1>1. LinksGrow
  BY NextLinks
<1>2. WorkTyped /\ \A k \in Jobs : JobStep(k)
  BY NextJobs
<1>3. revoked' \in BOOLEAN /\ current' \in Sessions \cup {None} /\ faults' \in Nat
  <2>1. CASE UNCHANGED vars
    BY <2>1 DEF vars, TypeOK
  <2>2. CASE Next
    <3>1. revoked' \in BOOLEAN
      BY <2>2 DEF TypeOK, Next, LoseSocket, Restart, RouteGoes, Revoke, Begin, Finish, CallStep,
        Resolve, ResolveFails, PeerReceive, PeerDispatch, PeerResponse, PeerGiveUp, Timeout,
        Select, RecvJob, RecvCancel, RecvResult, SessionStep, Claim, Register, Welcome, BackOut,
        OnClose, Release, Dial, Revalidate, Crash, session
    <3>2. current' \in {current, None} \cup Sessions
      BY <2>2 DEF Next, LoseSocket, Restart, RouteGoes, Revoke, Begin, Finish, CallStep,
        Resolve, ResolveFails, PeerReceive, PeerDispatch, PeerResponse, PeerGiveUp, Timeout,
        Select, RecvJob, RecvCancel, RecvResult, SessionStep, Claim, Register, Welcome, BackOut,
        OnClose, Release, Dial, Revalidate, Crash, session, Leaves
    <3>3. faults' \in {faults, faults + 1}
      BY <2>2 DEF Next, LoseSocket, Restart, RouteGoes, Revoke, Begin, Finish, CallStep,
        Resolve, ResolveFails, PeerReceive, PeerDispatch, PeerResponse, PeerGiveUp, Timeout,
        Select, RecvJob, RecvCancel, RecvResult, SessionStep, Claim, Register, Welcome, BackOut,
        OnClose, Release, Dial, Revalidate, Crash, Fault
    <3>4. QED
      BY <3>1, <3>2, <3>3 DEF TypeOK
  <2>3. QED
    BY <2>1, <2>2
<1>4. \A g \in Gateways : registry'[g] # None =>
        link'[registry'[g]].gw = g /\ link'[registry'[g]].hello \notin {"none", "claimed"}
  <2> SUFFICES ASSUME NEW g \in Gateways, registry'[g] # None
               PROVE  /\ link'[registry'[g]].gw = g
                      /\ link'[registry'[g]].hello \notin {"none", "claimed"}
    OBVIOUS
  <2>1. CASE registry'[g] = registry[g]
    <3>1. /\ registry[g] \in Sessions /\ link[registry[g]].gw = g
          /\ link[registry[g]].hello \notin {"none", "claimed"}
      BY <2>1 DEF TypeOK
    <3>2. QED
      BY <1>1, <2>1, <3>1 DEF LinksGrow, Grows
  <2>2. QED
    BY <2>1, NextRegistry
<1>5. \A j \in Jobs : pending'[j] # NoEntry =>
        /\ pending'[j].via # None /\ link'[pending'[j].via].gw = pending'[j].gw
        /\ link'[pending'[j].via].hello \notin {"none", "claimed"}
  <2> SUFFICES ASSUME NEW j \in Jobs, pending'[j] # NoEntry
               PROVE  /\ pending'[j].via # None /\ link'[pending'[j].via].gw = pending'[j].gw
                      /\ link'[pending'[j].via].hello \notin {"none", "claimed"}
    OBVIOUS
  <2>1. CASE pending'[j] = pending[j]
    <3>1. /\ pending[j].via \in Sessions /\ link[pending[j].via].gw = pending[j].gw
          /\ link[pending[j].via].hello \notin {"none", "claimed"}
      BY <2>1 DEF TypeOK, Entry
    <3>2. QED
      BY <1>1, <2>1, <3>1 DEF LinksGrow, Grows
  <2>2. ASSUME NEW g \in Gateways, Written(j, g)
        PROVE  /\ pending'[j].via # None /\ link'[pending'[j].via].gw = pending'[j].gw
               /\ link'[pending'[j].via].hello \notin {"none", "claimed"}
    <3>1. pending'[j].gw = g /\ pending'[j].via = registry[g]
      BY <2>2 DEF Written
    <3>2. /\ registry[g] \in Sessions /\ link[registry[g]].gw = g
          /\ link[registry[g]].hello \notin {"none", "claimed"}
      BY <2>2 DEF TypeOK, Written
    <3>3. QED
      BY <1>1, <3>1, <3>2 DEF LinksGrow, Grows
  <2>3. pending'[j] \in {NoEntry, pending[j]} \/ \E g \in Gateways : Written(j, g)
    <3>1. JobStep(j)
      BY <1>2
    <3>2. QED
      BY <3>1 DEF JobStep, Selected, GivenUp, SentHere, Asked, PeerRefuses, SentThere,
        Responded, Answered, Died, SameEntry, Written
  <2>4. QED
    BY <2>1, <2>2, <2>3
<1>6. TypeOK'
  BY <1>1, <1>2, <1>3, <1>4, <1>5, NextRegistry, NextRoute DEF TypeOK, LinksGrow, WorkTyped
<1>7. \A s \in Sessions :
        /\ link'[s].gw = None <=> link'[s].end = "unused"
        /\ link'[s].end = "unused" => link'[s].hello = "none"
  <2>1. \A s \in Sessions : Grows(link[s], link'[s])
    BY <1>1 DEF LinksGrow
  <2>2. QED
    BY <2>1 DEF Grows
<1>8. route' # None => link'[route'].hello # "none"
  BY <1>1, NextRoute DEF LinksGrow, Grows, Placed, TypeOK
<1>9. ASSUME NEW j \in Jobs
      PROVE  /\ call'[j].state \in {"selected", "waiting", "asking"} => call'[j].gw # None
             /\ peer'[j].state # "none" =>
                  peer'[j].session # None /\ link'[peer'[j].session].hello # "none"
  <2>1. JobStep(j)
    BY <1>2
  <2>2. \A s \in Sessions : link[s].hello # "none" =>
          link'[s].hello # "none" /\ link'[s].gw = link[s].gw
    BY <1>1 DEF LinksGrow, Grows
  <2>3. /\ call[j].state \in {"selected", "waiting", "asking"} => call[j].gw \in Gateways
        /\ peer[j].state # "none" =>
             peer[j].session \in Sessions /\ link[peer[j].session].gw \in Gateways
    BY CallIsSomewhere
  <2>4. call'[j].state \in {"selected", "waiting", "asking"} => call'[j].gw # None
    BY <2>1, <2>3 DEF JobStep, Selected, GivenUp, SentHere, Asked, PeerRefuses, SentThere,
      Responded, Answered, Died, SameCall, CallIs
  <2>5. peer'[j].state # "none" =>
          peer'[j].session # None /\ link'[peer'[j].session].hello # "none"
    <3>1. route # None => route \in Sessions /\ link'[route].hello # "none"
      BY <2>2 DEF Placed, TypeOK
    <3>2. peer[j].state # "none" => peer[j].session # None /\ link'[peer[j].session].hello # "none"
      BY <2>2, <2>3 DEF Placed
    <3>3. QED
      BY <2>1, <3>1, <3>2 DEF JobStep, Selected, GivenUp, SentHere, Asked, PeerRefuses, SentThere,
        Responded, Answered, Died, SamePeer, PeerIs
  <2>6. QED
    BY <2>4, <2>5
<1>10. Placed'
  BY <1>7, <1>8, <1>9 DEF Placed
<1>11. QED
  BY <1>6, <1>10

-----------------------------------------------------------------------------
(* Frames: where cancels and reports of success come from.                 *)

CancelOn(l, j)  == \E i \in 1..Len(l.down) : l.down[i] = [kind |-> "cancel", job |-> j]
SuccessOn(l, j) == \E i \in 1..Len(l.up) : l.up[i] = [job |-> j, ok |-> TRUE]

Quiet(l, m) ==
  /\ m.down \in {l.down, <<>>} \/ (l.down # <<>> /\ m.down = Tail(l.down))
  /\ m.up \in {l.up, <<>>} \/ (l.up # <<>> /\ m.up = Tail(l.up))

FrameStep(t) ==
  \/ Quiet(link[t], link'[t])
  \/ /\ link'[t].up = link[t].up
     /\ \E f \in Frames : /\ link'[t].down = Append(link[t].down, f)
                          /\ f.kind = "cancel" => Timeout(f.job)
  \/ /\ link'[t].down = link[t].down
     /\ \E r \in Results : /\ link'[t].up = Append(link[t].up, r)
                           /\ r.ok => run'[r.job].state = "done" /\ run'[r.job].ok

\* A quiet link has no frame that it did not have before.
LEMMA QuietFrames ==
  ASSUME NEW l \in Link, NEW m, Quiet(l, m), NEW j
  PROVE  /\ CancelOn(m, j) => CancelOn(l, j)
         /\ SuccessOn(m, j) => SuccessOn(l, j)
<1>1. l.down \in Seq(Frames) /\ l.up \in Seq(Results)
  BY DEF Link
<1>2. ASSUME CancelOn(m, j)
      PROVE  CancelOn(l, j)
  <2>1. PICK i \in 1..Len(m.down) : m.down[i] = [kind |-> "cancel", job |-> j]
    BY <1>2 DEF CancelOn
  <2>2. CASE m.down = l.down
    BY <2>1, <2>2 DEF CancelOn
  <2>3. CASE m.down = <<>>
    BY <2>1, <2>3
  <2>4. CASE l.down # <<>> /\ m.down = Tail(l.down)
    <3>1. i + 1 \in 1..Len(l.down) /\ l.down[i + 1] = m.down[i]
      BY <1>1, <2>1, <2>4
    <3>2. QED
      BY <2>1, <3>1 DEF CancelOn
  <2>5. QED
    BY <2>2, <2>3, <2>4 DEF Quiet
<1>3. ASSUME SuccessOn(m, j)
      PROVE  SuccessOn(l, j)
  <2>1. PICK i \in 1..Len(m.up) : m.up[i] = [job |-> j, ok |-> TRUE]
    BY <1>3 DEF SuccessOn
  <2>2. CASE m.up = l.up
    BY <2>1, <2>2 DEF SuccessOn
  <2>3. CASE m.up = <<>>
    BY <2>1, <2>3
  <2>4. CASE l.up # <<>> /\ m.up = Tail(l.up)
    <3>1. i + 1 \in 1..Len(l.up) /\ l.up[i + 1] = m.up[i]
      BY <1>1, <2>1, <2>4
    <3>2. QED
      BY <2>1, <3>1 DEF SuccessOn
  <2>5. QED
    BY <2>2, <2>3, <2>4 DEF Quiet
<1>4. QED
  BY <1>2, <1>3

\* A frame that was not there before is the one appended.
LEMMA AppendedFrame ==
  ASSUME NEW S, NEW q \in Seq(S), NEW f \in S, NEW i \in 1..Len(Append(q, f)),
         NEW x, Append(q, f)[i] = x, f # x
  PROVE  \E k \in 1..Len(q) : q[k] = x
BY SMT

\* The steps of a call write at most one frame, and a cancel only by the timer.
LEMMA CallFrames ==
  ASSUME TypeOK, Placed, NEW j \in Jobs, CallStep(j)
  PROVE  \A t \in Sessions : FrameStep(t)
<1>1. CASE UNCHANGED link
  BY <1>1 DEF FrameStep, Quiet
<1>2. ASSUME NEW s \in Sessions, NEW f \in Frames, link' = Carried(s, f),
             f.kind = "cancel" => Timeout(f.job)
      PROVE  \A t \in Sessions : FrameStep(t)
  BY <1>2, CarriedStep DEF FrameStep, Quiet
<1>3. ASSUME NEW g \in Gateways, Sends(j, g)
      PROVE  \A t \in Sessions : FrameStep(t)
  <2> DEFINE f == [kind |-> "job", job |-> j]
  <2>1. registry[g] \in Sessions /\ f \in Frames /\ f.kind = "job"
    BY <1>3 DEF Sends, TypeOK, Frames
  <2>2. link' = Carried(registry[g], f)
    BY <1>3 DEF Sends
  <2> HIDE DEF f
  <2>3. QED
    BY <1>2, <2>1, <2>2
<1>4. CASE Timeout(j)
  <2> DEFINE f == [kind |-> "cancel", job |-> j]
  <2>1. pending[j].via \in Sessions /\ f \in Frames /\ f.job = j
    BY <1>4 DEF Timeout, TypeOK, Entry, Frames
  <2>2. link' = Carried(pending[j].via, f)
    BY <1>4 DEF Timeout
  <2> HIDE DEF f
  <2>3. QED
    BY <1>2, <1>4, <2>1, <2>2
<1>5. CASE Resolve(j)
  <2>1. call[j].gw \in Gateways
    BY <1>5, CallIsSomewhere DEF Resolve
  <2>2. UNCHANGED link \/ Sends(j, call[j].gw)
    BY <1>5 DEF Resolve, CannotSend
  <2>3. QED
    BY <1>1, <1>3, <2>1, <2>2
<1>6. CASE PeerDispatch(j)
  <2>1. link[peer[j].session].gw \in Gateways
    BY <1>6, CallIsSomewhere DEF PeerDispatch
  <2>2. UNCHANGED link \/ Sends(j, link[peer[j].session].gw)
    BY <1>6 DEF PeerDispatch, CannotSend
  <2>3. QED
    BY <1>1, <1>3, <2>1, <2>2
<1>7. CASE ResolveFails(j) \/ PeerReceive(j) \/ PeerResponse(j) \/ PeerGiveUp(j)
  BY <1>1, <1>7 DEF ResolveFails, PeerReceive, PeerResponse, PeerGiveUp, session
<1>8. QED
  BY <1>4, <1>5, <1>6, <1>7 DEF CallStep

\* The agent reports the success of a run that has just ended well.
LEMMA FinishFrames ==
  ASSUME TypeOK, NEW j \in Jobs, Finish(j)
  PROVE  \A t \in Sessions : FrameStep(t)
<1> DEFINE s == run[j].session
<1>1. PICK ok \in BOOLEAN :
        /\ run' = [run EXCEPT ![j].state = "done", ![j].ok = ok]
        /\ link' = IF current = s /\ link[s].end = "open"
                     THEN [link EXCEPT ![s].up = Append(@, [job |-> j, ok |-> ok])]
                     ELSE link
  BY DEF Finish
<1> DEFINE r == [job |-> j, ok |-> ok]
           m == [link[s] EXCEPT !.up = Append(@, r)]
<1>2. r \in Results /\ r.job = j /\ r.ok = ok
  BY DEF Results
<1>3. run'[j].state = "done" /\ run'[j].ok = ok
  BY <1>1 DEF TypeOK, Run
<1> SUFFICES ASSUME NEW t \in Sessions
             PROVE  FrameStep(t)
  OBVIOUS
<1>4. CASE t = s /\ link'[t] = m
  <2>1. m.down = link[t].down /\ m.up = Append(link[t].up, r)
    BY <1>4 DEF TypeOK, Link
  <2> HIDE DEF m, r
  <2>2. link'[t].down = link[t].down /\ link'[t].up = Append(link[t].up, r)
    BY <1>4, <2>1
  <2>3. QED
    BY <1>2, <1>3, <2>2 DEF FrameStep
<1>5. CASE link'[t] = link[t]
  BY <1>5 DEF FrameStep, Quiet
<1>6. QED
  <2>1. link \in [Sessions -> Link]
    BY DEF TypeOK
  <2>2. QED
    BY <1>1, <1>4, <1>5, <2>1

\* The other steps move no frame, or read or lose some.
LEMMA QuietSteps ==
  ASSUME TypeOK, NEW t \in Sessions,
         \/ UNCHANGED vars \/ LoseSocket \/ Restart \/ RouteGoes \/ Revoke
         \/ \E j \in Jobs : Begin(j) \/ \E g \in Gateways : Select(j, g)
         \/ \E s \in Sessions : \/ RecvJob(s) \/ RecvCancel(s) \/ RecvResult(s) \/ Claim(s)
                                \/ Register(s) \/ Welcome(s) \/ BackOut(s) \/ OnClose(s)
                                \/ Release(s) \/ \E g \in Gateways : Dial(s, g)
         \/ \E g \in Gateways : Revalidate(g) \/ Crash(g)
  PROVE  Quiet(link[t], link'[t])
<1>1. link \in [Sessions -> Link] /\ link[t] \in Link
  BY DEF TypeOK
<1>2. CASE \/ UNCHANGED vars \/ RouteGoes \/ Revoke
           \/ \E j \in Jobs : Begin(j) \/ \E g \in Gateways : Select(j, g)
  <2>1. UNCHANGED link
    BY <1>2 DEF vars, RouteGoes, Revoke, Begin, Select, session
  <2>2. QED
    BY <2>1 DEF Quiet
<1>3. CASE LoseSocket \/ Restart
  <2>1. link' = [s \in Sessions |-> IF s = current THEN [link[s] EXCEPT !.down = <<>>] ELSE link[s]]
    BY <1>3 DEF LoseSocket, Restart, Leaves
  <2>2. QED
    BY <1>1, <2>1 DEF Quiet, Link
<1>4. ASSUME NEW s \in Sessions, RecvJob(s) \/ RecvCancel(s)
      PROVE  Quiet(link[t], link'[t])
  <2>1. link[s].down # <<>> /\ link' = [link EXCEPT ![s].down = Tail(@)]
    BY <1>4 DEF RecvJob, RecvCancel
  <2>2. QED
    BY <1>1, <2>1 DEF Quiet, Link
<1>5. ASSUME NEW s \in Sessions, RecvResult(s)
      PROVE  Quiet(link[t], link'[t])
  <2>1. link[s].up # <<>> /\ link' = [link EXCEPT ![s].up = Tail(@)]
    BY <1>5 DEF RecvResult
  <2>2. QED
    BY <1>1, <2>1 DEF Quiet, Link
<1>6. ASSUME NEW s \in Sessions, \/ Claim(s) \/ Welcome(s) \/ BackOut(s) \/ OnClose(s)
                                 \/ Release(s) \/ \E g \in Gateways : Dial(s, g)
      PROVE  Quiet(link[t], link'[t])
  <2>1. CASE Claim(s)
    <3>1. \/ link' = [link EXCEPT ![s].hello = "claimed"]
          \/ link' = [link EXCEPT ![s] = Closing([@ EXCEPT !.hello = "over"])]
      BY <2>1 DEF Claim
    <3>2. CASE link' = [link EXCEPT ![s].hello = "claimed"]
      BY <1>1, <3>2 DEF Quiet, Link
    <3>3. CASE link' = [link EXCEPT ![s] = Closing([@ EXCEPT !.hello = "over"])]
      BY <1>1, <3>3 DEF Closing, Quiet, Link
    <3>4. QED
      BY <3>1, <3>2, <3>3
  <2>2. CASE Welcome(s) \/ Release(s)
    <3>1. CASE Welcome(s)
      BY <1>1, <3>1 DEF Welcome, Quiet, Link
    <3>2. CASE Release(s)
      BY <1>1, <3>2 DEF Release, Quiet, Link
    <3>3. QED
      BY <2>2, <3>1, <3>2
  <2>3. CASE BackOut(s)
    BY <1>1, <2>3 DEF BackOut, Closing, Quiet, Link
  <2>4. CASE OnClose(s)
    BY <1>1, <2>4 DEF OnClose, Quiet, Link
  <2>5. ASSUME NEW g \in Gateways, Dial(s, g)
        PROVE  Quiet(link[t], link'[t])
    BY <1>1, <2>5 DEF Dial, Quiet, Link
  <2>6. QED
    BY <1>6, <2>1, <2>2, <2>3, <2>4, <2>5
<1>7. ASSUME NEW s \in Sessions, Register(s)
      PROVE  Quiet(link[t], link'[t])
  BY <1>1, <1>7 DEF Register, Closing, Quiet, Link
<1>8. ASSUME NEW g \in Gateways, Revalidate(g)
      PROVE  Quiet(link[t], link'[t])
  BY <1>1, <1>8 DEF Revalidate, Closing, Quiet, Link
<1>9. ASSUME NEW g \in Gateways, Crash(g)
      PROVE  Quiet(link[t], link'[t])
  <2>1. link'[t] = IF link[t].gw = g
                     THEN [NewLink EXCEPT !.gw = g, !.end = "closed", !.hello = "over"]
                     ELSE link[t]
    BY <1>9 DEF Crash
  <2>2. QED
    BY <2>1 DEF Quiet, NewLink
<1>10. QED
  BY <1>2, <1>3, <1>4, <1>5, <1>6, <1>7, <1>8, <1>9

\* Every step.
LEMMA NextFrames ==
  ASSUME TypeOK, Placed, [Next]_vars
  PROVE  \A t \in Sessions : FrameStep(t)
<1>1. ASSUME NEW t \in Sessions, Quiet(link[t], link'[t])
      PROVE  FrameStep(t)
  BY <1>1 DEF FrameStep
<1>2. QED
  BY <1>1, CallFrames, FinishFrames, QuietSteps DEF Next, SessionStep

-----------------------------------------------------------------------------
(* The agent's runs, and the inductive step.                               *)

RunStep(k) ==
  /\ run[k].state = "done" => run'[k].state = "done" /\ run'[k].ok = run[k].ok
  /\ run'[k].aborted => Cancelled(k)

\* A run that is over stays so, and one is aborted only by a cancel frame.
LEMMA NextRun ==
  ASSUME TypeOK, [Next]_vars
  PROVE  run' \in [Jobs -> Run] /\ \A k \in Jobs : RunStep(k)
<1>1. run \in [Jobs -> Run] /\ \A s \in Sessions : link[s] \in Link
  BY DEF TypeOK
<1>2. CASE UNCHANGED run
  BY <1>1, <1>2 DEF RunStep, Cancelled
<1>3. ASSUME NEW s \in Sessions, RecvJob(s)
      PROVE  run' \in [Jobs -> Run] /\ \A k \in Jobs : RunStep(k)
  <2> DEFINE f == Head(link[s].down)
             r == [run[f.job] EXCEPT !.state = "checking", !.session = s]
  <2>1. run' = run \/ (run[f.job].state = "none" /\ run' = [run EXCEPT ![f.job] = r])
    BY <1>1, <1>3 DEF RecvJob
  <2>2. link[s].down \in Seq(Frames) /\ link[s].down # <<>>
    BY <1>1, <1>3 DEF RecvJob, Link
  <2>3. f.job \in Jobs
    <3>1. f \in Frames
      BY <2>2
    <3>2. QED
      BY <3>1 DEF Frames
  <2>4. r \in Run /\ r.aborted = run[f.job].aborted
    BY <1>1, <2>3 DEF Run
  <2> HIDE DEF f, r
  <2>5. QED
    BY <1>1, <1>2, <2>1, <2>3, <2>4 DEF RunStep, Cancelled
<1>4. ASSUME NEW s \in Sessions, RecvCancel(s)
      PROVE  run' \in [Jobs -> Run] /\ \A k \in Jobs : RunStep(k)
  <2> DEFINE f == Head(link[s].down)
             r == [run[f.job] EXCEPT !.aborted = TRUE]
  <2>1. run' = run \/ (run[f.job].state = "executing" /\ run' = [run EXCEPT ![f.job] = r])
    BY <1>1, <1>4 DEF RecvCancel
  <2>2. link[s].down \in Seq(Frames) /\ link[s].down # <<>> /\ f.kind = "cancel"
    BY <1>1, <1>4 DEF RecvCancel, Link
  <2>3. f \in Frames /\ f = link[s].down[1] /\ 1 \in 1..Len(link[s].down)
    BY <2>2
  <2>4. f.job \in Jobs /\ f = [kind |-> "cancel", job |-> f.job]
    BY <2>2, <2>3 DEF Frames
  <2>5. Cancelled(f.job)
    BY <2>3, <2>4 DEF Cancelled
  <2>6. r \in Run /\ r.state = run[f.job].state
    BY <1>1, <2>4 DEF Run
  <2> HIDE DEF f, r
  <2>7. QED
    BY <1>1, <1>2, <2>1, <2>4, <2>5, <2>6 DEF RunStep, Cancelled
<1>5. ASSUME NEW j \in Jobs, Begin(j)
      PROVE  run' \in [Jobs -> Run] /\ \A k \in Jobs : RunStep(k)
  <2> DEFINE r == [run[j] EXCEPT !.state = "executing"]
  <2>1. run[j].state = "checking" /\ run' = [run EXCEPT ![j] = r]
    BY <1>1, <1>5 DEF Begin
  <2>2. r \in Run /\ r.aborted = run[j].aborted
    BY <1>1 DEF Run
  <2> HIDE DEF r
  <2>3. QED
    BY <1>1, <2>1, <2>2 DEF RunStep, Cancelled
<1>6. ASSUME NEW j \in Jobs, Finish(j)
      PROVE  run' \in [Jobs -> Run] /\ \A k \in Jobs : RunStep(k)
  <2>1. PICK ok \in BOOLEAN : run' = [run EXCEPT ![j].state = "done", ![j].ok = ok]
    BY <1>6 DEF Finish
  <2> DEFINE r == [run[j] EXCEPT !.state = "done", !.ok = ok]
  <2>2. run[j].state \in {"checking", "executing"} /\ run' = [run EXCEPT ![j] = r]
    BY <1>1, <1>6, <2>1 DEF Finish
  <2>3. r \in Run /\ r.aborted = run[j].aborted
    BY <1>1 DEF Run
  <2> HIDE DEF r
  <2>4. QED
    BY <1>1, <2>2, <2>3 DEF RunStep, Cancelled
<1>7. CASE Restart
  <2> DEFINE r(k) == [run[k] EXCEPT !.state = "done"]
  <2>1. run' = [k \in Jobs |-> IF run[k].state = "none" THEN run[k] ELSE r(k)]
    BY <1>7 DEF Restart
  <2>2. ASSUME NEW k \in Jobs
        PROVE  /\ r(k) \in Run /\ r(k).state = "done"
               /\ r(k).ok = run[k].ok /\ r(k).aborted = run[k].aborted
    BY <1>1 DEF Run
  <2> HIDE DEF r
  <2>3. QED
    BY <1>1, <2>1, <2>2 DEF RunStep, Cancelled
<1>8. CASE \/ UNCHANGED vars \/ LoseSocket \/ RouteGoes \/ Revoke
           \/ \E j \in Jobs : CallStep(j) \/ \E g \in Gateways : Select(j, g)
           \/ \E s \in Sessions : RecvResult(s) \/ SessionStep(s)
           \/ \E g \in Gateways : Revalidate(g) \/ Crash(g)
  <2>1. UNCHANGED run
    BY <1>8 DEF vars, LoseSocket, RouteGoes, Revoke, CallStep, Resolve, ResolveFails,
      PeerReceive, PeerDispatch, PeerResponse, PeerGiveUp, Timeout, Select, RecvResult,
      SessionStep, Claim, Register, Welcome, BackOut, OnClose, Release, Dial, Revalidate,
      Crash, work
  <2>2. QED
    BY <1>2, <2>1
<1>9. QED
  BY <1>3, <1>4, <1>5, <1>6, <1>7, <1>8 DEF Next

\* What a step keeps of one job: a waiter for its entry, one frame, one attempt.
LEMMA NextAttempt ==
  ASSUME IInv, [Next]_vars
  PROVE  PendingHasWaiter' /\ DeliveredOnce' /\ OneAttempt'
<1> USE JobDispatchAssumption
<1> SUFFICES ASSUME NEW k \in Jobs
             PROVE  /\ pending'[k] # NoEntry <=>
                         call'[k].state = "waiting" \/ peer'[k].state = "waiting"
                    /\ ~(call'[k].state = "waiting" /\ peer'[k].state = "waiting")
                    /\ sent'[k] <= 1
                    /\ call'[k].state \in {"idle", "selected"} =>
                         peer'[k].state = "none" /\ sent'[k] = 0
                    /\ call'[k].state = "waiting" => peer'[k].state = "none"
                    /\ peer'[k].state \in {"request", "opening"} => sent'[k] = 0
                    /\ pending'[k] # NoEntry => sent'[k] = 1
                    /\ call'[k].state # "over" => call'[k].outcome = "none"
                    /\ peer'[k].state # "response" => peer'[k].answer = "none"
                    /\ peer'[k].state # "none" => call'[k].outcome # "success"
                    /\ call'[k].state = "waiting" => pending'[k].gw = call'[k].gw
                    /\ peer'[k].state = "waiting" =>
                         pending'[k].gw = link'[peer'[k].session].gw
  BY DEF PendingHasWaiter, DeliveredOnce, OneAttempt
<1>1. /\ pending[k] # NoEntry <=> call[k].state = "waiting" \/ peer[k].state = "waiting"
      /\ ~(call[k].state = "waiting" /\ peer[k].state = "waiting")
      /\ sent[k] \in Nat /\ sent[k] <= 1
      /\ call[k].state \in {"idle", "selected"} => peer[k].state = "none" /\ sent[k] = 0
      /\ call[k].state = "waiting" => peer[k].state = "none"
      /\ peer[k].state \in {"request", "opening"} => sent[k] = 0
      /\ pending[k] # NoEntry => sent[k] = 1
      /\ call[k].state # "over" => call[k].outcome = "none"
      /\ peer[k].state # "response" => peer[k].answer = "none"
      /\ peer[k].state # "none" => call[k].outcome # "success"
      /\ call[k].state = "waiting" => pending[k].gw = call[k].gw
      /\ peer[k].state = "waiting" => pending[k].gw = link[peer[k].session].gw
  BY DEF IInv, TypeOK, PendingHasWaiter, DeliveredOnce, OneAttempt
<1>2. JobStep(k)
  BY NextJobs DEF IInv
<1>3. peer[k].state # "none" => link'[peer[k].session].gw = link[peer[k].session].gw
  <2>1. peer[k].state # "none" =>
          peer[k].session \in Sessions /\ link[peer[k].session].hello # "none"
    BY CallIsSomewhere DEF IInv, Placed
  <2>2. LinksGrow
    BY NextLinks DEF IInv
  <2>3. QED
    BY <2>1, <2>2 DEF LinksGrow, Grows
<1>4. CASE SameCall(k) /\ SamePeer(k) /\ SameEntry(k)
  BY <1>1, <1>3, <1>4 DEF SameCall, SamePeer, SameEntry
<1>5. CASE Selected(k)
  BY <1>1, <1>3, <1>5 DEF Selected, SamePeer, SameEntry
<1>6. CASE GivenUp(k)
  BY <1>1, <1>3, <1>6 DEF GivenUp, CallIs, SamePeer, SameEntry
<1>7. CASE SentHere(k)
  BY <1>1, <1>3, <1>7 DEF SentHere, CallIs, SamePeer, Written, NoEntry
<1>8. CASE Asked(k)
  BY <1>1, <1>3, <1>8 DEF Asked, CallIs, SameEntry
<1>9. CASE PeerRefuses(k)
  BY <1>1, <1>3, <1>9 DEF PeerRefuses, PeerIs, SameCall, SameEntry
<1>10. CASE SentThere(k)
  BY <1>1, <1>3, <1>10 DEF SentThere, PeerIs, SameCall, Written, NoEntry
<1>11. CASE Responded(k)
  BY <1>1, <1>3, <1>11 DEF Responded, CallIs, SameCall, SameEntry
<1>12. CASE Answered(k)
  BY <1>1, <1>3, <1>12 DEF Answered, CallIs, PeerIs, SameCall, SamePeer
<1>13. ASSUME NEW g \in Gateways, Died(k, g)
       PROVE  /\ pending'[k] # NoEntry <=>
                   call'[k].state = "waiting" \/ peer'[k].state = "waiting"
              /\ ~(call'[k].state = "waiting" /\ peer'[k].state = "waiting")
              /\ sent'[k] <= 1
              /\ call'[k].state \in {"idle", "selected"} =>
                   peer'[k].state = "none" /\ sent'[k] = 0
              /\ call'[k].state = "waiting" => peer'[k].state = "none"
              /\ peer'[k].state \in {"request", "opening"} => sent'[k] = 0
              /\ pending'[k] # NoEntry => sent'[k] = 1
              /\ call'[k].state # "over" => call'[k].outcome = "none"
              /\ peer'[k].state # "response" => peer'[k].answer = "none"
              /\ peer'[k].state # "none" => call'[k].outcome # "success"
              /\ call'[k].state = "waiting" => pending'[k].gw = call'[k].gw
              /\ peer'[k].state = "waiting" => pending'[k].gw = link'[peer'[k].session].gw
  BY <1>1, <1>3, <1>13, CallIsSomewhere DEF IInv, Died, CallIs, SameCall, SamePeer, NoEntry
<1>14. QED
  BY <1>2, <1>4, <1>5, <1>6, <1>7, <1>8, <1>9, <1>10, <1>11, <1>12, <1>13 DEF JobStep

\* A new cancel frame is the timer's, which has taken the entry out and told
\* the waiter so; after it nothing can be sent or answered any more.
LEMMA NextCancelled ==
  ASSUME IInv, [Next]_vars
  PROVE  CancelledIsOver'
<1> SUFFICES ASSUME NEW k \in Jobs, Cancelled(k)'
             PROVE  /\ sent'[k] = 1 /\ pending'[k] = NoEntry
                    /\ call'[k].outcome # "success" /\ peer'[k].answer # "success"
  BY DEF CancelledIsOver
<1>1. TypeOK /\ Placed
  BY DEF IInv
<1>2. JobStep(k) /\ RunStep(k)
  BY <1>1, NextJobs, NextRun
<1>3. CASE Cancelled(k)
  <2>1. /\ sent[k] = 1 /\ pending[k] = NoEntry
        /\ call[k].outcome # "success" /\ peer[k].answer # "success"
    BY <1>3 DEF IInv, CancelledIsOver
  <2>2. /\ call[k].state \notin {"selected", "waiting"}
        /\ peer[k].state \notin {"opening", "waiting"}
    BY <2>1 DEF IInv, OneAttempt, PendingHasWaiter
  <2>3. QED
    BY <1>2, <2>1, <2>2 DEF JobStep, Selected, GivenUp, SentHere, Asked, PeerRefuses, SentThere,
      Responded, Answered, Died, SameCall, SamePeer, SameEntry, CallIs, PeerIs
<1>4. CASE Timeout(k)
  <2>1. pending[k] # NoEntry /\ sent[k] = 1
    BY <1>4 DEF Timeout, NoEntry, IInv, OneAttempt
  <2>2. /\ call[k].state # "over" => call[k].outcome = "none"
        /\ peer[k].state # "none" => call[k].outcome # "success"
        /\ call[k].state = "waiting" \/ peer[k].state = "waiting"
        /\ peer[k].state # "response" => peer[k].answer = "none"
        /\ call[k].state = "waiting" => peer[k].state = "none"
    BY <2>1 DEF IInv, OneAttempt, PendingHasWaiter
  <2>3. Answer({k}, "timeout") /\ UNCHANGED sent
    BY <1>4 DEF Timeout
  <2>4. {k} \in SUBSET Jobs /\ "timeout" \in Outcomes
    BY DEF Outcomes
  <2>5. QED
    BY <1>1, <2>1, <2>2, <2>3, <2>4, AnswerStep
<1>5. CASE ~Cancelled(k)
  <2>1. PICK s \in Sessions : CancelOn(link'[s], k)
    BY <1>2, <1>5 DEF RunStep, Cancelled, CancelOn
  <2>2. ~CancelOn(link[s], k) /\ link[s] \in Link
    BY <1>1, <1>5 DEF Cancelled, CancelOn, TypeOK
  <2>3. FrameStep(s)
    BY <1>1, NextFrames
  <2>4. ~Quiet(link[s], link'[s]) /\ link'[s].down # link[s].down
    BY <2>1, <2>2, QuietFrames DEF CancelOn
  <2>5. PICK f \in Frames : /\ link'[s].down = Append(link[s].down, f)
                            /\ f.kind = "cancel" => Timeout(f.job)
    BY <2>3, <2>4 DEF FrameStep
  <2> DEFINE x == [kind |-> "cancel", job |-> k]
  <2>6. f = x
    <3>1. link[s].down \in Seq(Frames)
      BY <2>2 DEF Link
    <3>2. PICK i \in 1..Len(link'[s].down) : link'[s].down[i] = x
      BY <2>1 DEF CancelOn
    <3>3. ~ \E i1 \in 1..Len(link[s].down) : link[s].down[i1] = x
      BY <2>2 DEF CancelOn
    <3> HIDE DEF x
    <3>4. QED
      BY <2>5, <3>1, <3>2, <3>3, AppendedFrame
  <2>7. Timeout(k)
    BY <2>5, <2>6
  <2>8. QED
    BY <1>4, <2>7
<1>6. QED
  BY <1>3, <1>5

\* Success travels from the run to the frame, to the peer, to the call, and is
\* made up nowhere on the way.
LEMMA NextReports ==
  ASSUME IInv, [Next]_vars
  PROVE  ReportsAreReal'
<1> SUFFICES ASSUME NEW k \in Jobs, Reports(k)'
             PROVE  run'[k].state = "done" /\ run'[k].ok
  BY DEF ReportsAreReal
<1>1. TypeOK /\ Placed
  BY DEF IInv
<1>2. JobStep(k) /\ RunStep(k)
  BY <1>1, NextJobs, NextRun
<1>3. CASE Reports(k)
  BY <1>2, <1>3 DEF IInv, ReportsAreReal, RunStep
<1>4. CASE call'[k].outcome = "success" \/ peer'[k].answer = "success"
  <2>1. call[k].outcome = "success" \/ peer[k].answer = "success" \/ Frame(k)
    BY <1>2, <1>4 DEF JobStep, Selected, GivenUp, SentHere, Asked, PeerRefuses, SentThere,
      Responded, Answered, Died, SameCall, SamePeer, CallIs, PeerIs
  <2>2. QED
    BY <1>3, <2>1 DEF Reports, Frame
<1>5. ASSUME NEW s \in Sessions, SuccessOn(link'[s], k)
      PROVE  run'[k].state = "done" /\ run'[k].ok
  <2>1. FrameStep(s) /\ link[s] \in Link
    BY <1>1, NextFrames DEF TypeOK
  <2>2. CASE SuccessOn(link[s], k)
    BY <1>3, <2>2 DEF Reports, SuccessOn
  <2>3. CASE ~SuccessOn(link[s], k)
    <3>1. ~Quiet(link[s], link'[s]) /\ link'[s].up # link[s].up
      BY <1>5, <2>1, <2>3, QuietFrames DEF SuccessOn
    <3>2. PICK r \in Results : /\ link'[s].up = Append(link[s].up, r)
                               /\ r.ok => run'[r.job].state = "done" /\ run'[r.job].ok
      BY <2>1, <3>1 DEF FrameStep
    <3> DEFINE x == [job |-> k, ok |-> TRUE]
    <3>3. r = x
      <4>1. link[s].up \in Seq(Results)
        BY <2>1 DEF Link
      <4>2. PICK i \in 1..Len(link'[s].up) : link'[s].up[i] = x
        BY <1>5 DEF SuccessOn
      <4>3. ~ \E i1 \in 1..Len(link[s].up) : link[s].up[i1] = x
        BY <2>3 DEF SuccessOn
      <4> HIDE DEF x
      <4>4. QED
        BY <3>2, <4>1, <4>2, <4>3, AppendedFrame
    <3>4. QED
      BY <3>2, <3>3
  <2>4. QED
    BY <2>2, <2>3
<1>6. QED
  BY <1>4, <1>5 DEF Reports, SuccessOn

\* IInv is inductive.
LEMMA NextIInv == IInv /\ [Next]_vars => IInv'
<1> SUFFICES ASSUME IInv, [Next]_vars
             PROVE  IInv'
  OBVIOUS
<1>1. TypeOK /\ Placed
  BY DEF IInv
<1>2. TypeOK' /\ Placed'
  BY <1>1, NextRun, NextConsistent
<1>3. QED
  BY <1>2, NextAttempt, NextCancelled, NextReports DEF IInv

-----------------------------------------------------------------------------
(* What follows for every behaviour.                                       *)

LEMMA IInvAlways == Spec => []IInv
BY InitIInv, NextIInv, PTL DEF Spec

\* Every variable has its type in every reachable state; a replica registers
\* only its own sockets, and an entry names a socket that was registered.
THEOREM TypeCorrect == Spec => []TypeOK
<1>1. IInv => TypeOK
  BY DEF IInv
<1>2. QED
  BY <1>1, IInvAlways, PTL

\* No entry leaks and no waiter is forgotten (dispatch.ts): a job has an entry
\* exactly while a call or a peer handler waits for it, and never both.
THEOREM EveryEntryHasItsWaiter == Spec => []PendingHasWaiter
<1>1. IInv => PendingHasWaiter
  BY DEF IInv
<1>2. QED
  BY <1>1, IInvAlways, PTL

\* A call writes at most one job frame, whatever is lost, times out or moves
\* (routed-dispatch.ts, peer-handler.ts, dispatch.ts).
THEOREM EveryJobDeliveredOnce == Spec => []DeliveredOnce
<1>1. IInv => DeliveredOnce
  BY DEF IInv
<1>2. QED
  BY <1>1, IInvAlways, PTL

\* A call that reports success had its own job run to a successful end.
THEOREM ReportedSuccessIsReal == Spec => []SuccessIsReal
<1>1. IInv => SuccessIsReal
  BY DEF IInv, ReportsAreReal, Reports, SuccessIsReal
<1>2. QED
  BY <1>1, IInvAlways, PTL

\* The agent is told to stop only a job that nobody waits for any more.
THEOREM CancelledJobsAreAbandoned == Spec => []CancelledIsAbandoned
<1>1. IInv => CancelledIsAbandoned
  BY DEF IInv, CancelledIsOver, Cancelled, CancelledIsAbandoned
<1>2. QED
  BY <1>1, IInvAlways, PTL

\* A socket gives up only its own replica's slot.
LEMMA OnlyItsOwnSlot ==
  ASSUME TypeOK, NEW s \in Sessions, NEW g \in Gateways, link[s].gw = g,
         Registered(s)
  PROVE  registry[g] = s /\ \A h \in Gateways \ {g} : registry[h] # s
BY JobDispatchAssumption DEF Registered, TypeOK

\* Jobs that are failed by a close or a revocation go with their own socket.
LEMMA FailSparesOthers ==
  ASSUME IInv, NEW j \in Jobs, NEW s \in Sessions, NEW g \in Gateways,
         NEW o \in {"disconnected", "revoked"}, FailDevice(g, o),
         registry' = [registry EXCEPT ![g] = None],
         pending[j].via = s, Registered(s), Registered(s)'
  PROVE  call'[j] = call[j] /\ peer'[j] = peer[j]
<1>1. TypeOK /\ s # None
  BY JobDispatchAssumption DEF IInv
<1>2. link[s].gw = pending[j].gw
  BY <1>1 DEF TypeOK, NoEntry
<1>3. pending[j].gw # g
  <2>1. ASSUME pending[j].gw = g
        PROVE  FALSE
    <3>1. registry[g] = s /\ \A h \in Gateways \ {g} : registry[h] # s
      BY <1>1, <1>2, <2>1, OnlyItsOwnSlot
    <3>2. registry'[g] = None /\ \A h \in Gateways \ {g} : registry'[h] = registry[h]
      BY <1>1 DEF TypeOK
    <3>3. QED
      BY <1>1, <3>1, <3>2 DEF Registered
  <2>2. QED
    BY <2>1
<1> DEFINE S == {k \in Jobs : pending[k].gw = g}
<1>4. S \in SUBSET Jobs /\ j \notin S /\ o \in Outcomes /\ Answer(S, o)
  BY <1>3 DEF Outcomes, FailDevice
<1> HIDE DEF S
<1>5. QED
  BY <1>1, <1>4, AnswerStep

\* One step: neither waiter of a job is told of a lost device while the socket
\* that the job went out on stays registered.
LEMMA StepSparesJobs ==
  ASSUME IInv, [Next]_vars, NEW j \in Jobs, NEW s \in Sessions,
         pending[j].via = s, Registered(s), Registered(s)'
  PROVE  /\ call'[j].outcome \in {"disconnected", "revoked"} => call'[j] = call[j]
         /\ peer'[j].answer \in {"disconnected", "revoked"} => peer'[j] = peer[j]
<1> DEFINE Spared ==
      /\ call'[j].outcome \in {"disconnected", "revoked"} => call'[j] = call[j]
      /\ peer'[j].answer \in {"disconnected", "revoked"} => peer'[j] = peer[j]
<1>1. TypeOK /\ s # None /\ pending[j] # NoEntry
  BY JobDispatchAssumption DEF IInv, NoEntry
<1>2. /\ call[j].state \notin {"idle", "selected"}
      /\ peer[j].state \notin {"request", "opening"}
      /\ ~(call[j].state = "asking" /\ peer[j].state = "response")
  BY <1>1 DEF IInv, PendingHasWaiter, OneAttempt
<1>3. ASSUME call'[j] = call[j], peer'[j] = peer[j]
      PROVE  Spared
  BY <1>3
<1>4. ASSUME NEW S \in SUBSET Jobs, NEW o \in Outcomes \ {"disconnected", "revoked"}, Answer(S, o)
      PROVE  Spared
  <2>1. o \in Outcomes /\ o \notin {"disconnected", "revoked"} /\ Answer(S, o)
    BY <1>4
  <2>2. /\ call'[j] = call[j] \/ call'[j].outcome = o
        /\ peer'[j] = peer[j] \/ peer'[j].answer = o
    <3>1. IF j \in S /\ call[j].state = "waiting" THEN call'[j].outcome = o
                                                 ELSE call'[j] = call[j]
      BY <1>1, <2>1, AnswerStep
    <3>2. IF j \in S /\ peer[j].state = "waiting" THEN peer'[j].answer = o
                                                 ELSE peer'[j] = peer[j]
      BY <1>1, <2>1, AnswerStep
    <3>3. QED
      BY <3>1, <3>2
  <2>3. QED
    BY <2>1, <2>2
<1>5. ASSUME NEW k \in Jobs, CallStep(k)
      PROVE  Spared
  <2>1. CASE Timeout(k)
    BY <1>4, <2>1 DEF Timeout, Outcomes
  <2>2. CASE PeerGiveUp(k)
    <3>1. End(k, "upstream") /\ "upstream" \in Outcomes /\ UNCHANGED peer
      BY <2>2 DEF PeerGiveUp, Outcomes
    <3>2. QED
      BY <1>1, <3>1, EndStep
  <2>3. CASE \/ Resolve(k) \/ ResolveFails(k) \/ PeerReceive(k) \/ PeerDispatch(k) \/ PeerResponse(k)
    <3>1. CASE k = j
      <4>1. /\ ~Resolve(j) /\ ~ResolveFails(j) /\ ~PeerReceive(j) /\ ~PeerDispatch(j)
            /\ peer[j].state = "response"
        BY <1>2, <2>3, <3>1 DEF Resolve, ResolveFails, PeerReceive, PeerDispatch, PeerResponse
      <4>2. call'[j] = call[j] /\ peer'[j].answer = "none"
        BY <1>1, <1>2, <2>3, <3>1, <4>1 DEF PeerResponse, TypeOK
      <4>3. QED
        BY <4>2
    <3>2. CASE k # j
      <4>1. call'[j] = call[j] /\ peer'[j] = peer[j]
        BY <1>1, <2>3, <3>2 DEF TypeOK, Resolve, ResolveFails, PeerReceive, PeerDispatch,
          PeerResponse, End
      <4>2. QED
        BY <1>3, <4>1
    <3>3. QED
      BY <3>1, <3>2
  <2>4. QED
    BY <1>5, <2>1, <2>2, <2>3 DEF CallStep
<1>6. ASSUME NEW k \in Jobs, NEW g \in Gateways, Select(k, g)
      PROVE  Spared
  <2>1. k # j
    BY <1>2, <1>6 DEF Select
  <2>2. call'[j] = call[j] /\ peer'[j] = peer[j]
    BY <1>1, <1>6, <2>1 DEF Select, End, TypeOK
  <2>3. QED
    BY <1>3, <2>2
<1>7. ASSUME NEW t \in Sessions, RecvResult(t)
      PROVE  Spared
  <2> DEFINE r == Head(link[t].up)
  <2>1. Answer(Settled(t, r), Reported(r))
    BY <1>7 DEF RecvResult
  <2>2. /\ Settled(t, r) \in SUBSET Jobs
        /\ Reported(r) \in Outcomes \ {"disconnected", "revoked"}
    BY DEF Settled, Reported, Outcomes
  <2> HIDE DEF r
  <2>3. QED
    BY <1>4, <2>1, <2>2
<1>8. ASSUME NEW t \in Sessions, OnClose(t)
      PROVE  Spared
  <2>1. CASE GivesUp(t) /\ FailDevice(link[t].gw, "disconnected")
    <3>1. PICK g \in Gateways : registry[g] = t
      BY <2>1 DEF GivesUp, Registered
    <3>2. link[t].gw = g
      BY <1>1, <3>1, JobDispatchAssumption DEF TypeOK
    <3>3. registry' = [registry EXCEPT ![g] = None]
      BY <1>1, <1>8, <3>1, <3>2 DEF OnClose, TypeOK
    <3>4. QED
      BY <1>3, <2>1, <3>2, <3>3, FailSparesOthers
  <2>2. CASE UNCHANGED <<call, peer>>
    BY <1>3, <2>2
  <2>3. QED
    BY <1>8, <2>1, <2>2 DEF OnClose
<1>9. ASSUME NEW g \in Gateways, Revalidate(g)
      PROVE  Spared
  BY <1>3, <1>9, FailSparesOthers DEF Revalidate
<1>10. ASSUME NEW g \in Gateways, Crash(g)
       PROVE  Spared
  <2>1. call'[j] = IF call[j].gw = g /\ call[j].state # "over"
                     THEN [call[j] EXCEPT !.state = "over", !.outcome = "lost"] ELSE call[j]
    BY <1>10 DEF Crash
  <2>2. \/ peer'[j] = [state |-> "none", session |-> None, answer |-> "none"]
        \/ peer'[j] = peer[j]
    BY <1>10 DEF Crash
  <2>3. call[j] \in Call
    BY <1>1 DEF TypeOK
  <2>4. call'[j] = call[j] \/ call'[j].outcome = "lost"
    BY <2>1, <2>3 DEF Call
  <2>5. QED
    BY <2>2, <2>4
<1>11. CASE \/ UNCHANGED vars \/ LoseSocket \/ Restart \/ RouteGoes \/ Revoke
            \/ \E k \in Jobs : Begin(k) \/ Finish(k)
            \/ \E t \in Sessions : \/ RecvJob(t) \/ RecvCancel(t) \/ Claim(t) \/ Register(t)
                                   \/ Welcome(t) \/ BackOut(t) \/ Release(t)
                                   \/ \E g \in Gateways : Dial(t, g)
  <2>1. UNCHANGED <<call, peer>>
    BY <1>11 DEF vars, LoseSocket, Restart, RouteGoes, Revoke, Begin, Finish, RecvJob, RecvCancel,
      Claim, Register, Welcome, BackOut, Release, Dial, work
  <2>2. QED
    BY <1>3, <2>1
<1>12. QED
  BY <1>5, <1>6, <1>7, <1>8, <1>9, <1>10, <1>11 DEF Next, SessionStep

\* A late close of an old socket fails no job that was sent over a socket which
\* is still registered (relay.ts, close; sockets.ts, remove).
THEOREM LateClosesSpareJobs == Spec => StaleCloseSparesJobs
<1>1. IInv /\ [Next]_vars =>
        [\A j \in Jobs, s \in Sessions :
           pending[j].via = s /\ Registered(s) /\ Registered(s)' =>
             /\ call'[j].outcome \in {"disconnected", "revoked"} => call'[j] = call[j]
             /\ peer'[j].answer \in {"disconnected", "revoked"} => peer'[j] = peer[j]]_vars
  BY StepSparesJobs
<1>2. QED
  BY <1>1, IInvAlways, PTL DEF Spec, StaleCloseSparesJobs

=============================================================================
