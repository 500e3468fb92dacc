----------------------------- MODULE Credentials -----------------------------
(***************************************************************************)
(* The credential of one connection, and the gateway calls that need it.   *)
(* An expiring OAuth token is renewed by whichever call first notices,     *)
(* under a lease in the connection's row (convex service/connections.ts,   *)
(* gateway store/connections.ts), while its owner may reconnect or remove  *)
(* the connection (features/connections/mutations.ts).                     *)
(*                                                                         *)
(* A provider that rotates refresh tokens accepts each of them once: a     *)
(* refresh token is its grant (one per reconnect) and its place in the     *)
(* grant's rotation.  An access token ages from fresh, over due (inside    *)
(* the renewal skew) to over.  The lease's twenty seconds exceed the ten   *)
(* of the request it covers: it lapses under a call that still works only  *)
(* if something stalled, which is one of the MaxFaults.                    *)
(***************************************************************************)
EXTENDS Naturals, FiniteSets

CONSTANTS
  CredCalls,      \* calls that resolve the credential; also their lease ids
  CredGateway,    \* the gateway process each call runs in
  Nobody,         \* no call
  CredGrants,     \* bound: grants the provider issues
  MaxRotations,   \* bound: renewals of one grant
  MaxPasses,      \* MAX_WAIT_PASSES
  MaxCredFaults   \* bound: lost answers, stalls and provider failures

ASSUME CredentialsAssumption ==
  /\ Nobody \notin CredCalls
  /\ CredGrants \in Nat \ {0}
  /\ MaxRotations \in Nat
  /\ MaxPasses \in Nat \ {0}
  /\ MaxCredFaults \in Nat

VARIABLES
  conn,       \* the connection row
  provider,   \* per grant, what the authorization server knows of it
  call,       \* per call, where resolveCredential has got to
  credFaults  \* how many of the MaxCredFaults have happened

credVars == <<conn, provider, call, credFaults>>

Grants == 1..CredGrants
Ages   == {"fresh", "due", "over"}
Leases == CredCalls \cup {Nobody}

\* The row; a reconnect keeps its id, an insert after a removal has a new one.
ConnRow ==
  [id      : 0..CredGrants,
   status  : {"active", "expired", "removed"},
   grant   : Grants,
   place   : 0..MaxRotations,   \* rotation of the stored refresh token
   age     : Ages,              \* of the stored access token
   renewable : BOOLEAN,         \* there is a renewalCipher
   version : Nat,
   lease   : Leases,
   lapsed  : BOOLEAN]           \* refreshLeaseUntil is past

\* The stretches of resolveExpiring and renewOwnedLease, one per await.
Leading == {"begun", "waiting", "renewing", "committing", "lost race", "aborting"}

CredStates == Leading \cup {"idle", "deciding", "joined", "answered"}

CredCall ==
  [state   : CredStates,
   key     : 0..CredGrants,     \* connection id of its entry in the in-flight map
   leader  : Leases,            \* whose promise a joined call awaits
   id      : 0..CredGrants,     \* of the stored credential it read
   grant   : Grants,
   place   : 0..MaxRotations,   \* refresh token it read, then the rotated one
   version : Nat,
   passes  : 0..MaxPasses,
   permanent : BOOLEAN]         \* how an abort is flagged

NewCall ==
  [state |-> "idle", key |-> 0, leader |-> Nobody, id |-> 0, grant |-> 1, place |-> 0, version |-> 0,
   passes |-> 0, permanent |-> FALSE]

CredInit ==
  /\ conn = [id |-> 1, status |-> "active", grant |-> 1, place |-> 0, age |-> "due",
             renewable |-> TRUE, version |-> 1, lease |-> Nobody, lapsed |-> FALSE]
  /\ provider = [g \in Grants |-> [issued |-> g = 1, place |-> 0, dead |-> FALSE]]
  /\ call = [c \in CredCalls |-> NewCall]
  /\ credFaults = 0

-----------------------------------------------------------------------------
CredFault == credFaults < MaxCredFaults /\ credFaults' = credFaults + 1

\* exactActiveConnection: the owner's active row, if it still has that id.
ActiveWith(id) == conn.status = "active" /\ conn.id = id

\* The CAS of finishRefresh and abortRefresh.
Owns(c) ==
  /\ ActiveWith(call[c].id)
  /\ conn.version = call[c].version
  /\ conn.lease = c

Unleased(row) == [row EXCEPT !.lease = Nobody, !.lapsed = FALSE]

\* What a call remembers of the credential it was just sent.
Stored(c, state) ==
  [call[c] EXCEPT !.state = state, !.id = conn.id, !.grant = conn.grant,
                  !.place = conn.place, !.version = conn.version]

Answered == [NewCall EXCEPT !.state = "answered"]

\* Mutant of Settle: the calls that share the promise are not told.
SettleAlone(c) == call' = [call EXCEPT ![c] = Answered]

\* The call's promise settles, with a credential, with null or with an error,
\* and with it the calls that share it; leaving the Leading states is what
\* takes its entry out of the in-flight map.
Settle(c) ==
  call' = [k \in CredCalls |-> IF k = c \/ call[k].leader = c THEN Answered ELSE call[k]]

\* The renewal a process already has under way for that connection.
InFlight(p, id) ==
  {k \in CredCalls : CredGateway[k] = p /\ call[k].state \in Leading /\ call[k].key = id}

-----------------------------------------------------------------------------
(* gateway store/connections.ts: resolveCredential and what it awaits.     *)

\* The query reads the active row; null without one, and a fresh token is the
\* answer.
ResolveQuery(c) ==
  /\ call[c].state = "idle"
  /\ IF conn.status # "active" \/ conn.age = "fresh"
       THEN Settle(c)
       ELSE call' = [call EXCEPT ![c].state = "deciding", ![c].id = conn.id]
  /\ UNCHANGED <<conn, provider, credFaults>>

\* Of a token that needs renewal: the call joins the renewal under way in its
\* process for that connection, or leads one with a lease id of its own.
ResolveDecide(c) ==
  LET shared == InFlight(CredGateway[c], call[c].id) IN
  /\ call[c].state = "deciding"
  /\ call' = [call EXCEPT ![c] =
       IF shared = {} THEN [@ EXCEPT !.state = "begun", !.key = call[c].id]
       ELSE [NewCall EXCEPT !.state = "joined", !.leader = CHOOSE k \in shared : TRUE]]
  /\ UNCHANGED <<conn, provider, credFaults>>

\* beginRefresh: nobody else's lease is still valid.
LeaseFree(c) == conn.lease \in {Nobody, c} \/ conn.lapsed

\* beginRefresh, the row: an expired token that cannot be renewed ends the
\* connection, a renewable one is leased to the call.
BegunRow(c) ==
  IF ~ActiveWith(call[c].id) \/ conn.age = "fresh" THEN conn
  ELSE IF ~conn.renewable
    THEN IF conn.age = "due" THEN conn ELSE [Unleased(conn) EXCEPT !.status = "expired"]
  ELSE IF LeaseFree(c) THEN [conn EXCEPT !.lease = c, !.lapsed = FALSE] ELSE conn

\* beginRefresh, and what the call does about its decision: refresh, wait, or
\* an answer (ready or missing).
BeginRefresh(c) ==
  /\ call[c].state = "begun"
  /\ conn' = BegunRow(c)
  /\ IF ~ActiveWith(call[c].id) \/ conn.age = "fresh" \/ ~conn.renewable
       THEN Settle(c)
       ELSE call' = [call EXCEPT ![c] =
              IF LeaseFree(c) THEN Stored(c, "renewing") ELSE [@ EXCEPT !.state = "waiting"]]
  /\ UNCHANGED <<provider, credFaults>>

\* The mutation fails, or commits and its answer is lost.
BeginFails(c) ==
  /\ call[c].state = "begun"
  /\ conn' \in {conn, BegunRow(c)}
  /\ Settle(c)
  /\ CredFault
  /\ UNCHANGED provider

\* After the sleep the row is queried again; the loop gives up after its passes.
Requery(c) ==
  /\ call[c].state = "waiting"
  /\ IF conn.status # "active" \/ conn.age = "fresh" \/ call[c].passes + 1 = MaxPasses
       THEN Settle(c)
       ELSE call' = [call EXCEPT ![c].state = "begun", ![c].id = conn.id, ![c].passes = @ + 1]
  /\ UNCHANGED <<conn, provider, credFaults>>

\* A query fails: of the winner it is one more reason to abort.
QueryFails(c) ==
  /\ \/ call[c].state \in {"idle", "waiting"} /\ Settle(c)
     \/ /\ call[c].state = "lost race"
        /\ call' = [call EXCEPT ![c].state = "aborting", ![c].permanent = FALSE]
  /\ CredFault
  /\ UNCHANGED <<conn, provider>>

-----------------------------------------------------------------------------
(* store/token-refresh.ts and the authorization server.                    *)

\* The server knows the presented refresh token as its grant's current one.
Accepts(c) ==
  LET g == provider[call[c].grant] IN
  g.issued /\ ~g.dead /\ g.place = call[c].place

\* The request is answered with a new access token; a rotating server also
\* returns the next refresh token and forgets this one.
RefreshGranted(c) ==
  /\ call[c].state = "renewing" /\ Accepts(c)
  /\ \E next \in {call[c].place, call[c].place + 1} \cap 0..MaxRotations :
       /\ provider' = [provider EXCEPT ![call[c].grant].place = next]
       /\ call' = [call EXCEPT ![c].place = next, ![c].state = "committing"]
  /\ UNCHANGED <<conn, credFaults>>

\* A token the server no longer knows is refused for good (invalid_grant).
RefreshRefused(c) ==
  /\ call[c].state = "renewing" /\ ~Accepts(c)
  /\ call' = [call EXCEPT ![c].state = "aborting", ![c].permanent = TRUE]
  /\ UNCHANGED <<conn, provider, credFaults>>

\* The attempt fails: the sealed document does not open (transient) or parse
\* (permanent), the request times out (transient) or is redirected (permanent),
\* the answer is unusable (transient) or narrows the scope (permanent).  The
\* server may have rotated all the same; the new token is lost with the answer.
RefreshFails(c) ==
  /\ call[c].state = "renewing"
  /\ \/ UNCHANGED provider
     \/ /\ Accepts(c) /\ call[c].place < MaxRotations
        /\ provider' = [provider EXCEPT ![call[c].grant].place = @ + 1]
  /\ \E permanent \in BOOLEAN :
       call' = [call EXCEPT ![c].state = "aborting", ![c].permanent = permanent]
  /\ CredFault
  /\ UNCHANGED conn

\* The server withdraws the grant.
GrantRevoked(g) ==
  /\ provider[g].issued /\ ~provider[g].dead
  /\ provider' = [provider EXCEPT ![g].dead = TRUE]
  /\ CredFault
  /\ UNCHANGED <<conn, call>>

-----------------------------------------------------------------------------
(* finishRefresh, abortRefresh and what renewOwnedLease does about them.   *)

Renewed(c) ==
  [Unleased(conn) EXCEPT !.place = call[c].place, !.grant = call[c].grant,
                         !.age = "fresh", !.version = @ + 1]

\* Mutant of MayFinish: whoever renewed last writes.
MayFinishAnyone(c) == ActiveWith(call[c].id)

MayFinish(c) == Owns(c)

\* The commit succeeds, or another generation won.
FinishRefresh(c) ==
  /\ call[c].state = "committing"
  /\ IF MayFinish(c)
       THEN conn' = Renewed(c) /\ Settle(c)
       ELSE /\ call' = [call EXCEPT ![c].state = "lost race"]
            /\ UNCHANGED <<conn>>
  /\ UNCHANGED <<provider, credFaults>>

\* The commit fails, or its answer is lost: either way the lease is aborted.
FinishFails(c) ==
  /\ call[c].state = "committing"
  /\ conn' \in {conn} \cup {Renewed(k) : k \in {x \in {c} : MayFinish(x)}}
  /\ call' = [call EXCEPT ![c].state = "aborting", ![c].permanent = FALSE]
  /\ CredFault
  /\ UNCHANGED <<provider>>

\* The winner's credential is used only if it is fresh.
QueryWinner(c) ==
  /\ call[c].state = "lost race"
  /\ Settle(c)
  /\ UNCHANGED <<conn, provider, credFaults>>

\* abortRefresh; its failure is swallowed and leaves the lease to lapse.
AbortRefresh(c) ==
  /\ call[c].state = "aborting"
  /\ conn' = IF ~Owns(c) THEN conn
             ELSE Unleased(IF call[c].permanent THEN [conn EXCEPT !.status = "expired"] ELSE conn)
  /\ Settle(c)
  /\ UNCHANGED <<provider, credFaults>>

AbortFails(c) ==
  /\ call[c].state = "aborting"
  /\ Settle(c)
  /\ CredFault
  /\ UNCHANGED <<conn, provider>>

-----------------------------------------------------------------------------
(* The clock, the owner and crashes.                                       *)

Ageing ==
  /\ conn.age # "over" /\ conn.status = "active"
  /\ conn' = [conn EXCEPT !.age = IF @ = "fresh" THEN "due" ELSE "over"]
  /\ UNCHANGED <<provider, call, credFaults>>

Working(c) == call[c].state \in {"renewing", "committing", "aborting"}

\* Twenty seconds are over: for a call that is still at work only after a stall.
LeaseLapses ==
  /\ conn.lease # Nobody /\ ~conn.lapsed
  /\ conn' = [conn EXCEPT !.lapsed = TRUE]
  /\ IF Working(conn.lease) THEN CredFault ELSE UNCHANGED credFaults
  /\ UNCHANGED <<provider, call>>

\* The row a reconnect leaves: the newest grant, no lease, the next version.
Reconnected(g, renewable) ==
  LET fresh == [Unleased(conn) EXCEPT !.status = "active", !.grant = g, !.place = 0,
                                      !.age = "fresh", !.renewable = renewable] IN
  IF conn.status = "removed" THEN [fresh EXCEPT !.id = @ + 1, !.version = 1]
                             ELSE [fresh EXCEPT !.version = @ + 1]

\* upsert: the owner consented again and the dashboard stores the new grant.
Reconnect ==
  \E g \in Grants, renewable \in BOOLEAN :
      /\ ~provider[g].issued /\ \A h \in Grants : h < g => provider[h].issued
    /\ provider' = [provider EXCEPT ![g].issued = TRUE]
    /\ conn' = Reconnected(g, renewable)
    /\ UNCHANGED <<call, credFaults>>

Remove ==
  /\ conn.status # "removed"
  /\ conn' = [Unleased(conn) EXCEPT !.status = "removed"]
  /\ UNCHANGED <<provider, call, credFaults>>

\* A gateway process dies with its calls; what they wrote stays.
GatewayCrash(p) ==
  LET dying == {c \in CredCalls : CredGateway[c] = p /\ call[c].state \notin {"idle", "answered"}} IN
  /\ dying # {}
  /\ call' = [c \in CredCalls |->
       IF c \in dying THEN Answered ELSE call[c]]
  /\ CredFault
  /\ UNCHANGED <<conn, provider>>

-----------------------------------------------------------------------------
CallRuns(c) ==
  \/ ResolveDecide(c) \/ QueryFails(c) \/ BeginRefresh(c) \/ BeginFails(c) \/ Requery(c)
  \/ RefreshGranted(c) \/ RefreshRefused(c) \/ RefreshFails(c)
  \/ FinishRefresh(c) \/ FinishFails(c) \/ QueryWinner(c)
  \/ AbortRefresh(c) \/ AbortFails(c)

CredNext ==
  \/ \E c \in CredCalls : ResolveQuery(c) \/ CallRuns(c)
  \/ \E g \in Grants : GrantRevoked(g)
  \/ \E c \in CredCalls : GatewayCrash(CredGateway[c])
  \/ Ageing \/ LeaseLapses \/ Reconnect \/ Remove

CredSpec == CredInit /\ [][CredNext]_credVars

\* The event loop resumes every await that is answered, and every await is:
\* the control plane and the token endpoint answer or their time-outs fire.
CredFairness == \A c \in CredCalls : WF_credVars(CallRuns(c))

CredFairSpec == CredSpec /\ CredFairness

-----------------------------------------------------------------------------
\* Every variable has its type; a joined call awaits a call of its own process,
\* and one process renews a connection once at a time.
CredTypeOK ==
  /\ conn \in ConnRow
  /\ provider \in [Grants -> [issued : BOOLEAN, place : 0..MaxRotations, dead : BOOLEAN]]
  /\ call \in [CredCalls -> CredCall]
  /\ credFaults \in 0..MaxCredFaults
  /\ \A c \in CredCalls : call[c].state = "joined" =>
       call[c].leader \in {k \in CredCalls : call[k].state \in Leading /\ CredGateway[k] = CredGateway[c]}
  /\ \A c, k \in CredCalls :
       c \in InFlight(CredGateway[c], call[c].key) /\ k \in InFlight(CredGateway[c], call[c].key) => c = k

\* "Two gateway instances cannot overwrite one another's rotated refresh token"
\* (service/connections.ts): a row's credential never goes back, to an earlier
\* grant or to an earlier place of its grant, whatever stale attempts commit.
CredentialsOnlyAdvance ==
  [][\/ conn'.grant > conn.grant
     \/ conn'.grant = conn.grant /\ conn'.place >= conn.place]_credVars

\* As long as nothing is lost and nothing stalls, the row holds the refresh
\* token the server accepts, or the call that holds the lease is about to store
\* it: the connection never comes to need its owner by itself.
StaysRenewable ==
  credFaults = 0 /\ conn.status = "active" =>
    \/ provider[conn.grant].place = conn.place
    \/ \E c \in CredCalls :
         /\ call[c].state = "committing" /\ Owns(c)
         /\ call[c].place = provider[conn.grant].place

\* A connection is marked expired only over the very credential it holds: an
\* attempt that was refused with an older one changes nothing.
ExpiresOverItsOwn ==
  [][conn.status = "active" /\ conn'.status = "expired" =>
       \/ ~conn.renewable /\ conn.age = "over"
       \/ \E c \in CredCalls : /\ call[c].state = "aborting" /\ call[c].permanent
                               /\ call[c].grant = conn.grant /\ call[c].place = conn.place]_credVars

\* What a row holds is never undone by an attempt that has lost it.
CredentialsStand == CredentialsOnlyAdvance /\ ExpiresOverItsOwn

\* Renewal keeps the connection renewable as long as nothing is lost, a finished
\* renewal stands, and no stale attempt undoes a later one, a reconnection or a
\* removal (store/connections.ts, service/connections.ts).
CredentialsSound == []StaysRenewable /\ CredentialsStand

\* Every call is answered, whoever crashes, loses a race or holds the lease.
CallsAnswered ==
  \A c \in CredCalls : call[c].state = "deciding" ~> call[c].state = "answered"

=============================================================================
