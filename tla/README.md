# Connectors gateway: a TLA+ verification project

TLA+ models of the concurrent core of the connectors gateway, the TLC
configurations that check them on small instances, and TLAPS proofs of what
matters most for every value of the constants.

The gateway executes actions of "connectors" on behalf of users. A call comes
in over MCP or REST, is decided on by policy, perhaps waits for a human
approval, and runs either in the cloud or on a *local agent*, a process on the
user's machine that keeps a WebSocket to one of several gateway replicas. All
durable state lives in a Convex control plane whose mutations are serializable
transactions. Everything between two mutations is concurrent: replicas,
handlers that await, timers, sockets, the agent and the people involved.

## 1. Inventory

### Parts, their state and operations

| Part | Where | State | Operations |
| --- | --- | --- | --- |
| Approval store | `convex/service/approvals.ts`, `features/approvals/mutations.ts`, gateway `pipeline/execute.ts`, `store/approvals.ts` | `approvals` rows: status, request hash, `requestedAt`, `expiresAt` | claim, request (insert, refresh, evict), approve, deny, sweep |
| Device session | gateway `relay/relay.ts`, `hello.ts`, `sockets.ts`; `convex/service/relay_routes.ts`, `devices.ts`; agent `session.ts`, `session-inbound.ts` | the device row's status, the `relayRoutes` row, each replica's socket registry, each socket's state, the agent's generation | hello handshake, presence refresh, close, revalidate, revoke and forget, reconnect |
| Job dispatch | gateway `relay/dispatch.ts`, `routed-dispatch.ts`, `peer-handler.ts`; `executor/src/local.ts`; agent `jobs.ts` | pending map per replica, peer requests, the agent's in-flight table | dispatch, settle, time out, cancel, fail a device, run |
| Replay guards | agent `replay-store.ts`, `protocol/src/replay.ts` | remembered (id, expiry) pairs, in SQLite or memory | remember, prune, evict |
| Connection credentials | `convex/service/connections.ts`, `features/connections/mutations.ts`, gateway `store/connections.ts`, `token-refresh.ts` | connection row with credential version and refresh lease; each process's map of renewals under way; the provider's rotation | resolve, begin, finish and abort a refresh, connect, remove |
| Gateway lease | `convex/service/gateway_lease.ts`, gateway `store/gateway-lease.ts` | one lease row; per process what it was confirmed | acquire, renew, release, stop |
| OAuth server and API keys | `convex/service/oauth.ts`, `features/oauth`, `features/api_keys`, `maintenance/oauth_sweep.ts` | clients, codes, keys and tokens | register, approve, redeem, issue, revoke, sweep |
| Pairing | `convex/service/pairing.ts`, `features/pairing`, agent `pairing.ts`, gateway `pair-*.ts` | challenge rows, devices, the polling agent | start, approve, claim, give up |
| Connecting a service | web `connections/actions.ts`, `oauth/callback/route.ts`, `lib/oauth/*` | one sealed cookie per browser, flows at the provider | start, consent, callback, exchange |
| Execution path and policy | gateway `pipeline/*`, `catalog.ts`, `packages/policy`, `convex/features/policy` | rules, account, one audit row per call | authenticate, decide, execute, record |
| Rate limits and front door | gateway `http/*`, `convex/service/rate_limits.ts` | counters per window | consume, sweep |
| MCP envelope | gateway `mcp/*` | the cached skill | validate, list, call |
| Signing keys | agent `key-store.ts`, `protocol/src/key-rotation.ts`, gateway `config.ts` | pin, verifier, disk copy; per replica key and previous key | greet, pin, rotate, verify |
| Agent local state | agent `config.ts`, `credential-store.ts`, `commands.ts`, `replay-store.ts` | `config.json`, OS vault entries, the replay file | pair, run, revoke-local; create, open, check |
| Remote MCP adapter | `adapters/remote-mcp` | circuit breaker per upstream | call, retry; review of the shipped endpoints |
| Blender adapter | `adapters/blender` | the add-on's job queue, socket threads, timer | post, pump, register, unregister |
| Deployment | `scripts/setup-convex-env.mjs`, `scripts/vercel-build.mjs`, `packages/auth/src/derive.ts`, web `lib/gateway/runtime.ts` | Convex environment, live build, instance | build, provision, roll back, boot |
| Dashboard | `apps/web/app`, `components`, `slices/devices` | per tab: dialog, panel, pending forms, banner; live query results | open, confirm, dismiss, press, reload |
| Registry, schemas, sdk, observability, audit views | `packages/*`, `apps/web/slices/audit-log` | none of their own that another part depends on | |

### How they interact

`executeAction` asks the policy; `REQUIRE_APPROVAL` makes it *claim* an
approval and, if there is none, *request* one, in two mutations. A cleared
local action is signed as a job and handed to the dispatcher of its replica,
which reads the device's route: its own socket, or another replica's, reached
over an HTTP request between replicas. The owner of the route is whichever
replica the agent's last hello reached; the agent reconnects at will, so
handshakes, heartbeats, close events and jobs of several sessions of one device
are in flight at once, on several replicas, and meet only in the route and
device rows.

The services around this core meet through rows of the control plane too, but
hardly with each other: a renewal and a reconnection in the connection row, a
redemption and the sweep in the code and client rows, a claim and an approval in
the challenge row, two builds in the Convex environment. `executeAction` reads
from most of them, one await each, and in between their owner changes them.

### What is hard here

* **Awaits between check and act.** `execute.ts` claims, then requests;
  `onHello` registers a socket two awaits after it looked at it; the peer
  handler checks the session, then opens the sealed job, then dispatches; a
  close handler releases the route, then writes presence.
* **Late events.** A socket's close event arrives after its replacement is up;
  results and cancels arrive on sessions that are over.
* **Lost answers.** Any mutation may commit and its answer be lost.
* **Timers against answers.** Hello deadline, heartbeat sweep, job timer, HTTP
  budget between replicas.
* **Crashes** that skip every close handler and leave rows to their expiry.
* **Terminal states** that late writers must not overwrite: revoked devices,
  denied requests, removed connections.
* **Two writes that belong together** with nothing that makes them one: the file
  and the vault, the two halves of the login's key pair, the code and its token.
* **One place for several flows**: one cookie per browser, one breaker per
  upstream, one queue per Blender, one panel per connections page.

The complete list, at the lines where each hazard bites, is `hazards` in
`PROJECT.json`.

### What makes each part correct

* *Approvals*: a gated call runs only on its own owner's approval of exactly
  its own request, each approval is spent once and while it is fresh, a denial
  stands, the table is bounded.
* *Device session*: the route follows the latest claim, survives whatever stale
  sessions do and is gone once its session or replica is, a revoked device never
  comes back and is disconnected everywhere, a displaced session leaves, presence
  heals, no handshake hangs.
* *Job dispatch*: a job is delivered at most once, every pending entry has its
  waiter, success is never invented, only abandoned jobs are cancelled, closing
  an old socket does not fail jobs of its replacement.
* *Replay guards*: a job id is executed at most once while its envelope is
  valid, across restarts and processes for the durable guard; an expired
  envelope is never executed; every frame is answered; a running job can be
  cancelled.
* *Credentials*: a renewal never takes a row back to an older credential, a
  connection stays renewable while nothing fails, each call is answered.
* *Lease*: one process serves. *Grants*: one live token, of the first and right
  presentation of a code. *Pairing*: a device belongs to whoever read its code.
* *Connecting*: a code goes to the server that issued it, and is not replayed.
* *Execution*: a refusal that stands is not walked past; the audit row is true.
* *Keys*: the pin moves one rotation at a time and is what jobs are checked with.
* *Agent state*: a machine holds its own device's credential; starts forget no job.
* *Adapters*: no upstream is given up for good, nothing unsafe is sent twice, a
  reported success was a run.
* *Front door*: every handler was metered, what is announced is what runs, what a
  tab says happened did.
* *Deployment*: the two keys are a pair; an instance presents the token Convex
  compares with.

## 2. Modules

| Module | Models | State |
| --- | --- | --- |
| `Approvals` | the approval store and the calls that spend from it | clock, table, calls, history of approvals given |
| `DeviceRelay` | the session of one device over several replicas | device row, route row, registry, revalidation passes, sockets, agent |
| `JobDispatch` | a call from device selection to its answer | the session state a job can notice, calls, peer requests, pending entries, runs |
| `AgentJobs` | the agent's job pipeline, and the replay cache its processes share | clock, cache rows, in-flight tables, deliveries |
| `ReplayWindow` | what a replay guard promises (abstract) | clock, acceptances |
| `Credentials` | renewal of a connection's credential across processes | row, provider, calls |
| `GatewayLease` | the singleton lease | clock, row, holders, requests and answers under way |
| `ApiAccess` | OAuth clients, codes and tokens, API keys | the three tables |
| `Pairing` | how a machine becomes a device | challenges, agents, stray claims, devices, readers |
| `ConnectFlow` | connecting a service from the dashboard | cookie, flows, callback requests, stored connections |
| `Execution` | `executeAction` with the policy, the catalog and the audit row | account, rules, calls |
| `EdgeLimits` | budgets a request draws on before its handler | bucket rows, requests |
| `McpEnvelope` | what becomes of one POST to the MCP endpoint | request, cached skill |
| `KeyTrust` | the agent's pinned key while a fleet rotates | replicas, store, welcomes, verifications |
| `LocalCredential` | `config.json` and the OS vault | file, vault, commands |
| `ReplayFile` | the file behind the replay cache | files, name, processes |
| `RemoteCalls` | the breaker, retry and deadline of a remote tool | breaker, calls |
| `EndpointReview` | the review of the shipped endpoints | manifests, review, exit code |
| `BlenderBridge` | the add-on's queue and threads | calls, queue, timer, server |
| `Deployment` | a build that provisions itself | builds, environment, instance |
| `Dashboard` | the forms of one tab | rows, what the tab has seen, components, clicks |
| `MCApprovals`, `MCDeviceRelay`, `MCJobDispatch`, `MCAgentJobs` | symmetry sets for TLC | |
| `MCTakeover` | an older and a newer connection of `DeviceRelay`, for liveness | |
| `MCServices` | composes the sixteen services side by side | which one runs |
| `ApprovalsProofs`, `DeviceRelayProofs`, `JobDispatchProofs`, `AgentJobsProofs` | theorems about the module of that name | |
| `AccessProofs` | theorems about `Pairing`, `ApiAccess`, `ConnectFlow`, `McpEnvelope`, `EdgeLimits` | |
| `SecretsProofs` | theorems about `Credentials`, `KeyTrust`, `Deployment`, `LocalCredential` | |
| `CallsProofs` | theorems about `Execution`, `RemoteCalls`, `BlenderBridge`, `EndpointReview` | |
| `ServicesProofs` | theorems about `GatewayLease`, `ReplayFile`, `Dashboard`, and about the composition `MCServices` | |

Conventions. A Convex mutation is one action. A handler is split at its awaits,
and each stretch is one action with everything it does to the state. A call to
the control plane succeeds, fails, or commits and loses its answer; the last
two spend one of the `MaxFaults`. A time-out is an action that may happen
whenever its timer is armed, except where the clock is what a property is about
(`Approvals` has a clock). Every map and row of the relay is keyed by the
device, so one device is the whole story. Names of the services' modules carry
their component (`CredNext`, `leaseVars`), since one module extends them all.
Definitions called "Mutant of ..." are
plausible bugs, never used by a specification; each property of a passing run
is shown to fail under one of them.

### Approvals

`approvals` is the table; a missing row has status `"none"`. `Decide`,
`ClaimGranted`/`ClaimRefused`/`ClaimAnswerLost`, `Request`, `CallFails` and
`Execute` are the stretches of `executeAction`; `Approve` and `Deny` are the
dashboard's mutations, open to every signed-in user; `Sweep` is the hourly job.
`RequestRow` is the whole request mutation: a live pending or denied row
stands, any other existing row is turned back to pending, a new row is inserted
after `Evictions` made room. The index scan (`take(MAX + 1)`) returns some of
the owner's pending rows, since insertion order is not kept. The history
variable `given` numbers the approvals people gave so that the properties can
say *which* one a call ran on. The policy's decision is an input.

### DeviceRelay

A socket record holds `SocketState`, where `onHello` has got to (`hello`), the
refresh in flight, the close handler's chain (`cleanup`) and a release nobody
waits for (`dropping`). `RecvHello`, `Authenticate`, `Claim`, `Register`,
`Welcome` and their failures are the handshake; `Heartbeat`, `Refresh`,
`RefreshStamp` the presence refresh; `OnClose`, `Release`, `MarkOffline` the
close handler; `RevalidateRead` and `RevalidateAct` the two halves of
`revalidate`; `RouteLapses` and `SweepRoute` the row's expiry. The agent dials,
goes online once the welcome's key is pinned, halts on 4001 and 4003, and
reconnects otherwise.

### JobDispatch

`Select`, `Resolve`, `PeerReceive`, `PeerDispatch`, `PeerResponse`,
`PeerGiveUp` are the path of a call through its own replica and the route
owner's; `Sends` is `dispatch` (entry, timer, frame), `Answer` every way an
entry ends, `Timeout` the entry's timer, `RecvResult` is `settle`. `RecvJob`,
`Begin`, `Finish`, `RecvCancel` are the agent's runner; a result leaves on the
session its job came on, if that is still the current one. Of the session only
what a job can notice is kept: claim before registration, displacement, a late
close, revocation, crash. Job ids are fresh UUIDs, so an id already in flight
does not occur.

### AgentJobs and ReplayWindow

`JobDispatch` stops at the socket; `AgentJobs` is what happens to a signed
envelope behind it, with a clock. A delivery is one job frame; the same envelope
may arrive several times, at several processes of the device, which share one
SQLite file. `Verify` is `verifyJob` (the clock is read after the signature was
checked), `AskCache` is `assertFresh` reading the clock for the time to live,
`Claim` the cache transaction (`Insert` or `Ignore`, after the prune `Kept` and
with the eviction `Youngest`), `Begin` and `Finish` the two ends of `execute`.
The transaction's timestamp is read before its write lock is granted, so it may
be any time since `AskCache`, and another process may have had the lock in
between; in its own process nothing else runs meanwhile (`Responsive`), since
the database call is synchronous. `rows` keeps every row ever inserted at its
AUTOINCREMENT sequence number and `held` says which are still in the table; that
makes the cache's promise a statement about `rows` alone. `Restart` loses a
process and what it had in flight, and no row. `ReplayWindow` is the promise:
an id is accepted only if none of the latest `MaxEntries` acceptances is of that
id with its window still open. `GuardsReplays` is the refinement, with
`accepted <- rows`.

### The services

*Credentials*. One connection row, the provider's rotation (`provider`), and one
record per call of `resolveCredential`. `BeginRefresh`, `FinishRefresh` and
`AbortRefresh` are whole mutations; `RefreshGranted`, `RefreshRefused`,
`RefreshFails` the request to the provider, which has rotated the token in the
first case whatever becomes of the call. A second call of the same process joins
the first one's promise; one of another process waits, in passes
(`MAX_WAIT_PASSES`). `CredentialsSound` says the row never goes back, is marked
expired only over the credential it holds, and stays renewable while nothing
fails or stalls.

*GatewayLease*. A holder awaits one answer at a time; a request that was given up
may still be served later and an answer may come after the holder has stopped.
`OneServes` is what the lease is for; `ServesUnderLease` is why it holds.

*ApiAccess*. `Redeem` is the whole exchange: the code is deleted first, then every
check, then the client's prior grants are revoked in a bounded scan
(`MaxScanned`), then the token is inserted unless the cap is reached. `Sweep`
takes the earliest rows in batches.

*Pairing*. A challenge row's life, the agent's poll and deadline, and stray claims
whose agent is dead or whose answer was lost. `readers` remembers who read which
screen; a code two machines show is what `CodeFree` rules out.

*ConnectFlow*. A request carries the cookie it was sent with and its answer sets
or deletes the cookie when it arrives, so tabs, reloads and slow answers
interleave.

*Execution*. Each read of `executeAction` is an action, and `Changes` are the
owner's mutations in between: the key, the rules (`SetRule` with the scan limit
of the read), the machine, the connections. `standing` collects the reasons to
refuse that held from the call's arrival on; `StandingRefusalHolds` says none of
them was walked past, `AuditTellsTheTruth` that the row is the call.

*EdgeLimits*. A request draws on the edge's counter and then on its handler's, one
mutation each. *McpEnvelope* is one POST: the verdict on caller, envelope, headers
and method, in the code's order, for both protocol revisions. *KeyTrust* splits the
key store at its imports; keys are numbered along the rotation. *LocalCredential*
splits every command at its system calls, *ReplayFile* the start of an agent at
its file operations. *RemoteCalls* has the breaker's three outcomes at whatever
time the calls end; *EndpointReview* follows one manifest at a time and lets the
servers answer anything. *BlenderBridge* has the client, the socket thread and the
main thread of each call apart, because each gives up on its own. *Deployment*
splits the build at its commands, which may fail, take effect and report a
failure, or be the last before the build is killed.

*Dashboard*. A click is a record that goes from sent over committed or refused to
settled, and `heard` says what is left of the tab to hear its answer: the form
that sent it, only the page (the card that held its dialog is gone), or nobody. A
confirmation is open, confirm, dismiss (`Confirmation`); the tables and forms are
`Press` under the conditions of their buttons; `LiveQuery` delivers the rows,
`Elsewhere` is another tab. The Convex client resends a mutation until it is
answered; a sign-in, and the mutation inside a server action that connects a
service, are sent once, so that their answers can be lost (`Once`).

*MCServices* is the composition. The sixteen share no variable, so a behaviour
of theirs together is a shuffle of one of each; the module runs one of them and
leaves the others in their initial states. The state spaces then add up instead
of multiplying, and a property of one component is checked over all its
behaviours. The `VIEW` drops the variables of the idle components, which are
constant.

## 3. Runs

| Run | Instance | Shows |
| --- | --- | --- |
| `MCApprovals_store` | one owner, one stranger, 3 requests, 4 calls, TTL 2, cap 1, clock to 3, 1 approval given | types, consent is one's own, spent once and fresh, denials stand, an insert makes room |
| `MCApprovals_walkback` (violation) | one owner, one request, 2 calls | an approval given between claim and request is turned back to pending |
| `MCDeviceRelay_liveness` | 1 socket, 2 replicas, 2 faults, revocation | types; revoked is terminal and disconnects, dead routes go, handshakes end |
| `MCTakeover_liveness` | an older socket on one replica, a newer one on another, no fault, no revocation | nothing late of one session takes the other's route; one whose route was taken, or whose row expired or was swept, leaves; an online session ends up owning the route and reading online |
| `MCDeviceRelay_displaced` (violation) | 2 sockets, 2 replicas, 1 fault, revocation | a late handshake displaces the live socket |
| `MCJobDispatch_calls` | 1 job, 2 sessions, 2 replicas, 1 fault | types, entry and waiter, one delivery, honest success, cancels, stale closes |
| `MCJobDispatch_displaced` (violation) | same | a displaced socket's close leaves the job's entry behind |
| `MCAgentJobs_pipeline` | 2 jobs, 2 processes, 2 deliveries, cache of 1, clock to 2 | types, repeats only at expiry, no expired execution, the cache implements `ReplayWindow`, every frame is answered |
| `MCAgentJobs_once` (violation) | 1 job, 1 process, 2 deliveries | a job runs twice at its expiry |
| `MCServices_safety` | the sixteen services, one at a time, each with the instance below | types and twelve statements, each about one service or about a few that meet at one client |
| `MCServices_liveness` | credentials with 3 calls of 2 processes, one renewal, 2 passes, 2 faults; the bridge with 2 calls | every call that needs a renewal and every call the add-on accepted is answered |
| `LocalCredential_forgotten` (violation) | 3 commands, 2 devices, 1 fault | a running agent writes back the file that `revoke-local` deleted |

The instances of `MCServices_safety`: *credentials* 2 calls of 2 processes, 2
grants, 1 rotation of each, 2 passes, 2 faults (calls that join one another are in
the liveness run); *lease* 2 processes, TTL 2, clock
to 3; *access* 1 user, 2 clients, 2 codes, 4 keys, a scan of 2, a cap of 2;
*pairing* 2 attempts, 2 users, 2 codes, 1 stray claim, 1 fault; *connect* 2 flows
to 2 connectors, 2 callback requests; *execution* 1 call, one local and one cloud
action, 2 rule changes, 1 fault; *keys* 2 replicas, 2 keys, 2 welcomes, 1 job;
*vault* 3 commands, 2 devices, 1 fault; *replay file* 2 processes, 2 files;
*edge* 3 requests over 3 routes, budgets of 1 and 2, clock to 2; *mcp* 3 actions
of which two share a name; *review* 2 manifests; *deployment* 2 builds, 1 fault;
*remote* 3 calls, one of them safe to retry, threshold 2; *bridge* 2 calls;
*dashboard* 2 rows, 2 clicks, 1 change in another tab, 1 reload.

**Why the bounds suffice.** Two sessions are what it takes for one to be stale
while the other is live, and two replicas for a route to be taken where the older
one's replica cannot see it: `MCTakeover_liveness` has every order of their
handshakes, heartbeats, revalidations and closes. What revocation has to overtake (a
handshake, a heartbeat, a close of the session that was checked before it) is one
session's, so `MCDeviceRelay_liveness` has one, with both faults. Two sessions with
revocation or faults are too many for a liveness run: of those the safety is proved
for any number (`RevocationIsTerminal`, `LiveSessionsKeepTheirRoute`), and that a
revalidation which finds another socket in its slot still leaves nobody connected
is not checked. Sessions are used once, which bounds reconnects;
a third session would only repeat what the second does to the first. Jobs do
not interact except through the pending map, whose entries are per job, so one
job with every session interleaving shows more than several with few; the
theorems below cover any number. In `Approvals` three requests against a cap of
one reach an over-full table (a refresh of an expired row is not capped, see
below) and four calls let an approval be claimed, lost, retried and raced.
In `AgentJobs` two
deliveries are a replay, to the same process or another, or two jobs competing
for a cache of one row; with the clock at 2 an envelope can be fresh, at its
expiry and past it, and a transaction can be late. In `Approvals` `MaxTime`
exceeds the TTL, so rows expire, are swept and come back. One
approval is enough for spending races, and `EveryApprovalSpentOnce` is proved
for any number. Runs with `CHECK_DEADLOCK FALSE` are systems that may really
stop: every call answered, all sockets used.

Of each service the instance has two of whatever races (processes, requests,
builds, tabs), one fault where the code has to survive one, and limits one below
what the clients can ask for. In `Execution` the table never exceeds what the
scan reads; rows beyond the five hundredth are an observation below. The calls
of `Execution` do not interact except through the account and its rules, which
change freely, so one call meets everything another could do to it; those
changes stop when the call is over.

**Symmetry** is used in safety runs only, over sets whose members the
specification never tells apart.

**Fairness** (`DeviceRelay!Fairness`, in `FairSpec` and in `MCTakeover`). Weak
fairness is assumed of what the event loop and its timers always get to: the
handlers that are due (a control-plane call returns or fails; the client has a
time-out), the heartbeats, the hello deadline, the sweep's revalidation, close
events of sockets that were closed or abandoned, frames on a connection that
stays up. `Refresh` has strong fairness: an agent that heartbeats for ever tries
it for ever, and the control plane does not fail it each time. Nothing obliges
the network to drop a connection, a process to die, the agent to dial, or the
owner to revoke. Time passes: a route that no session refreshes lapses
(`RouteLapses`; as long as its session still heartbeats it may lapse only while
the refreshes fail or starve), and the hourly `SweepRoute` deletes it. `MCTakeover`
leaves out steps that nothing obliges to happen (dials in another order or to
another replica, forgetting the device), so that every behaviour of its
specification is one of `FairSpec`; what it checks is checked of those. Faults are
finite in number (`MaxFaults`), which is the usual assumption that failures stop for
long enough.

`AgentJobs!FairSpec` assumes weak fairness of the pipeline steps of each
delivery (`Run(d)`): WebCrypto answers, SQLite answers or gives up after its
busy time-out, and the timer of `raceTimeout` fires, which is what ends a
running job whose adapter never returns. Frames, cancels, restarts and the
clock are not obliged to happen.

`MCServices!ServicesFairSpec` assumes weak fairness of each call's steps
(`CallRuns`: an await that was answered is resumed, the provider's request ends
by its own ten-second time-out, the wait between passes ends) and of each socket
thread (`ThreadRuns`: the operating system schedules it, and `done.wait` ends
after its three hundred seconds). Leases need not lapse, Blender's timer need not
fire, the client need not give up.

## 4. Proofs

TLAPS checks the following for every value of the constants. Every invariant and
every safety action property that a passing run checks is stated by a theorem; the
inductive invariants were checked by TLC on the runs' instances before they were
proved.

### The core

`ApprovalsProofs`: `TypeCorrect`, `EveryApprovalSpentOnce`,
`GatedCallsHoldTheirApproval`, `DenialsStand`, `ConsentIsFresh`,
`PendingKeepsItsCap`. `SpentOnce` and `RunsOnOwnApproval` are not inductive: they
speak of calls, while the danger lies in what the table promises the next claim.
The invariant adds `RowsCarryTheirApproval` (an approved row carries an approval
its own user gave for it, which no call holds, and expires within one TTL of it)
and `CallsHoldTheirApproval`. `PendingKeepsItsCap` counts rows, so it needs that an
owner's pending rows are finite in number (`PendingIsFinite`, since only a request
makes a row pending, one at a time) and what an eviction removes
(`EvictionsMakeRoom`).

`DeviceRelayProofs`: `TypeCorrect`, `RouteIsTheLatestClaims`,
`LiveSessionsKeepTheirRoute`, `RevocationIsTerminal`, the last two action
properties. `RouteNamesLatestClaim`, stated beside its proof and checked by no run,
is what the claim mutation alone guarantees, and inductive with the types. That
a live session keeps it is not: a close handler that is late releases by session,
and what has to be known is that whoever is about to release (`Releasing`) runs for
a socket that is out of every registry and past its claim, so that it is never
registered anew (`SocketsOK`).

`JobDispatchProofs`: `TypeCorrect`, `EveryEntryHasItsWaiter`,
`EveryJobDeliveredOnce`, `ReportedSuccessIsReal`, `CancelledJobsAreAbandoned`,
`LateClosesSpareJobs`, the last an action property. `IInv` adds to the checked
invariants: `Placed` (routes and peer requests name sessions that some replica
accepted), `OneAttempt` (nothing is written before dispatch, an answered call
has nothing open, an entry is on its waiter's replica), `CancelledIsOver` (from
the moment a cancel frame is *sent*, the job is abandoned) and `ReportsAreReal`
(success in a frame, at the peer or at the call stems from the run). The proof
describes once what a step may do to a link (`LinksGrow`), to a job
(`JobStep`), to the frames under way (`FrameStep`) and to a run (`RunStep`);
each invariant then needs only these.

`AgentJobsProofs`: `TypeCorrect`, `NoRepeatBeforeExpiry`,
`ExecutionsAreCancellable`, `CacheIsAReplayWindow`, `ExpiredEnvelopesNeverRun`.
`ExecutionsAreCancellable` proves `RunningIsCancellable`, stated there: a job whose
id was accepted once can be cancelled for as long as it runs.
`RepeatsOnlyAtExpiry` speaks of the rows inserted so far; what decides the next
insert is which of them the table still has. `IInv` therefore adds `WindowHeld`
(every row of the promised window whose time is not over is still in the table: a
prune with a late timestamp deletes only what is over, and the eviction takes the
oldest), `RowsLast` (a row lasts at least as long as its envelope, which is where
the clock reading of `assertFresh` and the one of the cache meet), `RepeatsAreLate`
and `DeliveriesAgree`. From `WindowHeld` both the refinement step
(`NextCacheStep`) and the repeats follow. `YoungestFits` and
`YoungestKeepsWindow` are the two facts about the eviction; the first needs the
well-ordering of the naturals. `ExpiredEnvelopesNeverRun` is of the form
`[](P => []Q)`: its proof shows that no step makes a delivery viable again that is
`Hopeless`, that is over, or still to be verified with its envelope expired.

### The services

Each has one inductive invariant; what it adds to the property is the point of it.

* *Pairing* (`PairInv`): `PairLedger` ties a challenge row to its devices and
  readers. An approval is of somebody who read the code, only a claimed row has a
  device, and it is its approver's. Codes are unique because rows are never deleted.
* *API access* (`ApiInv`): a code that is still in the table was never presented
  (`CodesOK`), a token points to a deleted code whose first presentation was right
  and which no other token points to, and its client is used, which keeps the sweep
  off it (`KeyLedger`).
* *Connecting* (`FlowInv`): `VisitLedger`. A request that sent a code carried that
  code's own flow, and once it is answered that flow is out of the cookie for good,
  so that whatever is sent later carries another.
* *MCP* (`McpInv`): an envelope that got past the validation agrees with its headers
  (`Agrees`) and is not a notification; only those are answered with 200.
* *Budgets* (`EdgeInv`): `RowCounts` says a row has counted whoever its window let
  through, and that earlier windows are a window's length behind; a swept row leaves
  nobody whose window is open. `Metered` says that what a request has passed it was
  let through. The set of those let through is finite, which the counting needs.
* *Credentials* (`CredInv`): as long as the row is of the generation an attempt read
  (`Matches`) it holds what was read, because every change is a new version or a new
  id (`CallOK`). Without faults, an attempt has its lease and the token the provider
  accepts, or its grant is no longer the row's (`Held`, `Faultless`); that makes
  `StaysRenewable` inductive.
* *Keys* (`KeyInv`): an import is of the pinned key unless a rotation overtook it; a
  key about to be adopted is the first or the one after the key that was pinned when
  it was announced. `OneAtATime` holds without faults only.
* *Deployment* (`DeployInv`): while builds are serial and none was torn, a half
  written pair is of the build that is writing it, and otherwise the halves match;
  the token is the one of the last build that reported success. That a half pair was
  reported, torn or not, needs more (`ReportInv`): whoever is between the two writes
  has replaced the key of every build that ran alone (`Apart`), and one that got past
  them without a failure wrote both (`Reported`).
* *Local credential* (`LocalInv`): what a command holds between vault and file is in
  the vault unless a `revoke-local` went there (`HoldsOK`); a command that ran alone
  finds the file as it left it, through the handle it opened (`AloneOK`).
* *Execution* (`ExecInv`): a reason that stands has been in force since the call
  arrived, so that the read that looks for it finds it (`RunOK`); one row is written,
  with the outcome settled before (`RowsOK`). That two rows of the policy are never
  about the same subject rests on `setRule` being an upsert within what it reads.
* *Remote tools* (`RemoteInv`): attempts and sends (`AttemptsOK`), the probe.
* *Blender* (`BridgeInv`): a call is in its socket thread, in the queue, on the main
  thread, or has run, and the queue has it once (`RunsOnce`).
* *Review* (`ReviewInv`): what a manifest's servers have said at each document
  (`ChainOK`).
* *Lease* (`LeaseInv`): a confirmation a process still holds, or is about to be
  handed, and that is not over, is one the row still grants (`ServesUnderLease`,
  `Covered`); it needs `GrantedAhead`, because a renewal must not confirm less than
  an earlier answer still on its way. A process that is stopped is exempt: its
  release may already have emptied the row.
* *Replay file* (`ReplayFileInv`): files are numbered as they are created and only
  the latest has the name (`FilesOK`); an agent opens the file it identified or a
  later one, so that a file that passes the recheck is the one it has open
  (`OpenOK`).
* *Dashboard* (`DashboardInv`): what a click came to and what was said of it
  (`OutcomeOK`), that a click which waits belongs to what the tab shows
  (`WaitsOnScreen`), and that no two wait from one dialog or one page's grant
  (`ApartOK`).

`ServicesAreTheirComponents` shows that the composition TLC runs implements the
specification of each of the sixteen, so that these theorems hold of it, and
`ServicesTyped` puts their types together. Three statements of `MCServices_safety`
gather the parts of services that belong together, and a theorem states each as
the run does: `RemoteToolsAreSound` (`RemoteToolsSound`: remote tools and the
review of an endpoint), `FrontDoorIsSound` (`FrontDoorSound`: rate limits, the
MCP envelope, the dashboard's forms) and `AgentStateIsKept` (`AgentStateSound`: the
agent's vault and its replay file).

The attempt to prove the dashboard found a fault of the model: an answer closed the
dialog of its card even when that card had gone and come back, with a dialog of its
own, since the ref belongs to the instance (`remove-connection-dialog.tsx`).
`Toast` now asks whether the click's own form is still there (`Mounted`).

### Assumptions

The named `ASSUME`s of the modules, and nothing else. The distinguished values
(`None`, `Nobody`, `NoHolder`, `NoPost`, `NoUser`, `NoViewer`, `NoKey`, `Ref`, `NoDevice`,
`Nothing`) are none of the objects they stand beside. TTLs, caps, budgets, window
lengths and the bounds that give a table its rows are positive. Sets without which
there is nothing to speak of are not empty (`PairCodes`, `ApiUsers`, `FlowTargets`,
`ExecActions`, `Peers`, `Things`). Owners are users, the served routes are among the
routes, a root secret is neither "none" nor "short". No two ids that `tool-names.ts`
accepts flatten to one tool name, since it accepts none with an underscore, which is
what the dots become. `GatewayLease` reads
one clock everywhere, which is an assumption about the deployment the code makes too.

### Only model-checked

Liveness, which is outside this prover's reach with `ENABLED`:
`RevokedIsDisconnected`, `StaleOwnerLeaves`, `DeadRouteGoes`, `HandshakeEnds`,
`PresenceHeals`, `EveryDeliveryAnswered`, `EveryCallAnswered`. Induction over data and RECURSIVE
operators are outside it too; the modules that are proved about use none of them.

## 5. Findings and observations

Five statements of the source are violated, each by a run:

* `DecisionNotWalkedBack`: `service/approvals.ts:94-95` says a retry loop cannot
  walk a decision backwards; a person who approves between a call's claim and
  its request is walked back to pending (`:98`).
* `ReconnectWins`: `service/relay_routes.ts:60-61` says a reconnect always wins
  and the previous owner closes only its stale socket; an abandoned connection's
  handshake that finishes last registers its dead socket over the live one
  (`relay.ts:97`), and the agent halts on the 4001 it is sent.
* `SocketCloseDeletesEntry`: `relay/dispatch.ts:6-7` says every path deletes its
  pending entry, socket close included; the close of a displaced socket does not
  (`relay.ts:223`), and the caller waits for the job's timer.
* `ExecutedOnce`: `apps/agent/src/jobs.ts:6` says a job id is executable exactly
  once; an envelope still verifies at its `expiresAt` (`sign.ts:64`), while the
  cache forgets it in that same millisecond (`replay-store.ts:125`), so a second
  delivery verified just then runs again. Before that instant a repeat takes a
  flood of `MaxEntries` other ids (`NoRepeatBeforeExpiry`).
* `ForgottenStaysForgotten`: `commands.ts:97` says `revoke-local` forgets the
  credential on this machine; an agent still running writes its configuration
  back when it learns a key (`:62`).

Met while modelling, without a run of their own:

* `relay.ts:230`: presence "offline" may be written after a replacement session
  has come online; the next heartbeat repairs it (`PresenceHeals`).
* `relay.ts:97`: a socket that closed during the handshake's awaits stays
  registered until the sweep closes it or a newer one displaces it.
* `relay.ts:168`, `:186`: an outage that lets a route lapse, and a slow hello,
  both end in close code 4001, on which the agent stops instead of retrying.
* `session-inbound.ts:95`: the agent declares itself online after awaiting the
  key store even if that socket is gone by then.
* `service/approvals.ts:98`: refreshing an expired row is not subject to the cap
  that `docs/09-policy-and-approvals.md:38` states.
* `peer-handler.ts:34-45`: the session is checked before an await and the job
  dispatched after it to whichever socket is registered then.
* `jobs.ts:127`: the in-flight entry is deleted by job id. Of two executions of an
  id accepted twice (`ExecutedOnce`) the first to end deletes the other's entry, and
  a cancel frame no longer finds the one that runs on.
* `execute.ts`/`dispatch.ts`: a job that failed because its socket closed after
  it was sent is reported with the same retryable code as one never sent.

Met in the services, likewise without a run of their own:

* *Approvals are not wired.* `execute.ts:128-131` and `docs/09` describe approvals
  that are consulted; `createApp` (`app.ts:217`) builds its dependencies without
  `approvals` (optional in `pipeline/types.ts:23`, built in `store/convex.ts:54`), so
  `execute.ts:154` refuses every call that requires one with nothing queued.
* *Credentials*: calls of another process wait twelve passes of at most a second,
  less than the twenty-second lease of a holder that died, and fail though the
  connection is fine.
* *Lease*: `store/convex.ts` creates it, nobody acquires it; a `stop` during an
  acquire in flight never releases.
* *Keys*: `trust` looks at the pin before its await and assigns after it
  (`key-store.ts:84`), so that of two first announcements that overlap the second
  replaces the first. `verifierFor` caches what it awaited without looking again
  (`:54`), so that a verify overtaken by a rotation puts the old key's verifier back,
  and jobs of the new key are refused until the next rotation or restart.
  `KeysSound` excepts these two (`overtaken`, `keyFaults`).
* *Remote tools*: a time-out is recorded as non-transient and closes the breaker,
  although `reliability.ts:69-70` takes such outcomes as proof that the transport is
  reachable; late outcomes of calls from before it opened close or reopen a
  half-open one. A request that may be repeated is sent twice.
* *Review*: a server may answer each request differently; verified means that each
  answer agreed when it was asked.
* *Blender*: a job whose caller timed out still runs later, so a retry runs it
  twice; `unregister` leaves the queue to the next `register`, which starts the
  timer before it binds the port; a handler that failed may have changed the scene.
* *Access*: the sweep reads the earliest rows and can be kept busy by rows it must
  keep; a client may be swept between consent and exchange; a lost answer to an
  exchange burns the code and leaves a token nobody knows; a key revoked while its
  hash is computed still admits that request; tokens that expired stay `active`
  and count against the cap.
* *Pairing*: a claim whose answer is lost leaves a device without an agent; rows are
  never swept, so that codes stay taken; the `expired` that approving a late code
  patches is rolled back by the error that follows.
* *Connecting*: a second start overwrites the first flow's cookie and the first
  one's callback clears the second's; a flow names no user; two callbacks sent at
  once both read the cookie; the slower exchange of an older flow may overwrite a
  newer connection.
* *Execution*: `setRule` has no cap, so that rules past the five hundredth are
  stored and never read (`features/policy/mutations.ts:38`); an MCP call whose
  catalog cannot be read leaves no audit row (`mcp/server.ts:290`); the header of
  `distributed-rate-limit.ts` says it is not wired, `app.ts:227-231` wires it.
* *Agent state*: re-pairing leaves the old device's secret in the vault; a torn
  `config.json` blocks `revoke-local`; a running agent's persist brings back a
  configuration that was paired anew (`commands.ts:62`); `revoke-local`
  may remove a newer pairing's file; without a vault a kill during the write loses
  the only copy. The wall clock of the machine may be set back: a cache row then
  outlives its envelope, or an envelope is valid again after its row was pruned.
* *MCP*: `skill.ts:80` caches a rejected load for good; the `Mcp-Name` of
  `skills/get` is not checked although `protocol.ts:110` speaks of every duplicated
  source of truth; one illegal or colliding action id fails the whole list;
  `matchRoute` decodes outside `handleHttp`'s try; `body.ts:27-28` calls
  `URLSearchParams.get` last-wins, it returns the first.
* *Budgets*: a lost answer counts against the peer without admitting it.
* *Deployment*: only a failure of the second key write is rolled back
  (`setup-convex-env.mjs:144`). A first write that took effect and reported a failure,
  a build killed between the two, a roll back that failed and a second build in
  between leave half a pair, or two halves; a read that fails (`:51`) says there is
  none, and a pair in use is replaced although `:15-16` says that one is never
  regenerated. Of all these `HalvesAreReported` says that the build whose key is left
  without its half did not run alone and report success. `failed ||= !envSet(...)`
  (`setup-convex-env.mjs:178`) does not even try the token once the login's keys failed; half a pair is taken for provisioned
  from then on; a token without a root secret is pushed untrimmed while `loadConfig` trims;
  a failed `SITE_URL` is not counted; a build that sets a new token and then fails
  strands the running deployment.
* *Dashboard*: Cancel on the consent page is not held back while an approval is
  under way, so the application can be sent both a refusal and a code; "Nothing was
  authorised" (`approvals-table.tsx:39`) is said also when another tab approved the
  row; a sign-up whose answer is lost is shown as failed although the account
  exists, and so is a server action that stored a connection and lost the control
  plane's answer (`save_failed`); issuing a second key takes the first, never to be shown again, off the
  screen; the rename field of a card can be closed and opened anew while a rename
  is pending, and its answer then closes the new one.

## 6. Plan

1. *Done*: `Approvals`, `DeviceRelay`, `JobDispatch`, `AgentJobs` implementing
   `ReplayWindow`, the sixteen services, composed by `MCServices`.
2. *Done*: proofs of every invariant and every safety action property that the runs
   check, and that `MCServices` implements each of its components.
3. Abstract specifications of what further components promise, and the proof that
   the detailed ones implement them: an approval as a one-time permit, a session as a
   sequence of claims (whose steps `JobDispatch` uses), the pinned key as a counter.
4. `Execution` with `Approvals` and `Credentials` in the place of its inputs.

## 7. Not modelled

Cryptography (signatures, seals and hashes are assumed to do their job), wording
and formats of messages, schema validation, redaction and the rules for endpoint
URLs: pure functions over strings that no interleaving reaches. The in-memory
replay guard and rate limiter, which the wired application does not use. The
audit log's views, the dashboard's layout, its rename field, the notice in the
callback's query string, and a browser that closes a modal dialog on a second Esc
whatever the page says. The scene edits of Blender's handlers. Of the device
session the agent's keepalive clock, capability frames and renaming.

Two open hazards are left to the models' edges. A cancel frame that overtakes the
start of its job (`session-inbound.ts:65`) is in `JobDispatch`, but what it does,
running a job whose caller was told TIMEOUT, the code permits. A clock that is set
back is in none: the code has no defence to state a property about.

`PROJECT.json` lists every component with its status and reason.
