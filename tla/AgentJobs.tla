------------------------------ MODULE AgentJobs ------------------------------
(***************************************************************************)
(* The job pipeline of the agent (apps/agent/src/jobs.ts) and the replay   *)
(* cache its processes share (apps/agent/src/replay-store.ts): verify the  *)
(* envelope, remember its id, authorize, execute, answer.  A signed        *)
(* envelope may be delivered more than once, to any agent process of the   *)
(* device; the pipeline is split where it awaits, and where a cache        *)
(* transaction waits for another process.  JobDispatch has the other end   *)
(* of a delivery.                                                          *)
(*                                                                         *)
(* The cache is a SQLite table whose sequence column is AUTOINCREMENT:     *)
(* rows holds every row ever inserted, at its sequence number, and held    *)
(* the sequence numbers of those that are still in the table.              *)
(***************************************************************************)
EXTENDS Integers, Sequences, FiniteSets

CONSTANTS
  Jobs,       \* signed envelopes; an envelope is also its job id
  Agents,     \* agent processes of the device
  Deliveries, \* job frames that may arrive
  MaxEntries, \* capacity of the cache
  MaxTime,    \* bound: how far the clock goes
  None        \* no job, no process, no delivery

ASSUME AgentJobsAssumption ==
  /\ None \notin Jobs \cup Agents \cup Deliveries
  /\ MaxEntries \in Nat \ {0}
  /\ MaxTime \in Nat \ {0}

VARIABLES
  now,       \* the clock of the machine the agents run on
  expiresAt, \* the expiry signed into each envelope
  rows,      \* the rows inserted into replay_entries
  held,      \* the sequence numbers of the rows still there
  inflight,  \* per process, the execution each job id maps to
  delivery   \* per job frame, how far the pipeline got with it

vars == <<now, expiresAt, rows, held, inflight, delivery>>

Row == [job : Jobs, until : Nat, at : Nat]   \* at: history, when it was inserted

Steps == {"unused", "verifying", "verified", "claiming", "fresh", "running", "over"}

Delivery ==
  [job     : Jobs \cup {None},
   agent   : Agents \cup {None},  \* the process that has it, while one has
   step    : Steps,
   at      : Nat,      \* the clock reading the ttl was computed from
   row     : Nat,      \* the row inserted for it, 0 if none
   aborted : BOOLEAN]  \* its AbortController

NoDelivery ==
  [job |-> None, agent |-> None, step |-> "unused", at |-> 0, row |-> 0, aborted |-> FALSE]

Init ==
  /\ now = 0
  /\ expiresAt \in [Jobs -> 1..MaxTime]
  /\ rows = <<>> /\ held = {}
  /\ inflight = [a \in Agents |-> [j \in Jobs |-> None]]
  /\ delivery = [d \in Deliveries |-> NoDelivery]

Larger(x, y) == IF x >= y THEN x ELSE y

Goes(d, from, to) ==
  /\ delivery[d].step = from
  /\ delivery' = [delivery EXCEPT ![d].step = to]

\* What is left of a delivery that was answered, or lost with its process.
Over(dl) == [NoDelivery EXCEPT !.step = "over", !.job = dl.job, !.row = dl.row]

Answers(d, from) ==
  /\ delivery[d].step = from
  /\ delivery' = [delivery EXCEPT ![d] = Over(@)]

-----------------------------------------------------------------------------
(* The pipeline of one delivery.                                           *)

\* The cache is synchronous: while a process asks it, nothing else runs there.
Responsive(a) == \A d \in Deliveries : delivery[d].agent = a => delivery[d].step # "claiming"

Deliver(d, j, a) ==
  /\ Responsive(a)
  /\ delivery[d].step = "unused"
  /\ delivery' = [delivery EXCEPT ![d] =
       [NoDelivery EXCEPT !.job = j, !.agent = a, !.step = "verifying"]]
  /\ UNCHANGED <<now, expiresAt, rows, held, inflight>>

\* Mutant of Valid: an expired envelope passes.
ValidAlways(j) == TRUE

\* verifyJob's last check: the envelope has not expired.
Valid(j) == now <= expiresAt[j]

\* The signature was checked, which takes a while, then the expiry.
Verify(d) ==
  /\ Goes(d, "verifying", "verified")
  /\ Valid(delivery[d].job)
  /\ UNCHANGED <<now, expiresAt, rows, held, inflight>>

\* Expired, not signed with the pinned key, or no key is pinned yet.
VerifyFails(d) ==
  /\ Answers(d, "verifying")
  /\ UNCHANGED <<now, expiresAt, rows, held, inflight>>

\* assertFresh reads the clock and asks the cache.
AskCache(d) ==
  /\ delivery[d].step = "verified"
  /\ delivery' = [delivery EXCEPT ![d].step = "claiming", ![d].at = now]
  /\ UNCHANGED <<now, expiresAt, rows, held, inflight>>

\* The time to live assertFresh asks for.
Ttl(d) == Larger(1, expiresAt[delivery[d].job] - delivery[d].at)

\* Mutant of Kept: the prune goes by the time to live of the newcomer.
KeptTooShort(t) == {k \in held : rows[k].until > t + 1}

\* The rows a prune at time t leaves.
Kept(t) == {k \in held : rows[k].until > t}

\* The rows the eviction leaves: the overflow is taken from the oldest.
Youngest(S) == {k \in S : Cardinality({m \in S : m > k}) < MaxEntries}

\* The UNIQUE insert finds no row with this id.
Insert(d, t) ==
  /\ \A k \in Kept(t) : rows[k].job # delivery[d].job
  /\ rows' = Append(rows, [job |-> delivery[d].job, until |-> t + Ttl(d), at |-> now])
  /\ held' = Youngest(Kept(t) \cup {Len(rows) + 1})
  /\ delivery' = [delivery EXCEPT ![d].step = "fresh", ![d].row = Len(rows) + 1, ![d].at = 0]

\* The insert is ignored: the id is there.
Ignore(d, t) ==
  /\ \E k \in Kept(t) : rows[k].job = delivery[d].job
  /\ held' = Kept(t)
  /\ Answers(d, "claiming")
  /\ UNCHANGED rows

\* The claim transaction.  Its time t was read after the ttl was computed and
\* before the write lock was granted; another process may have had the lock
\* meanwhile.
Claim(d) ==
  /\ delivery[d].step = "claiming"
  /\ \E t \in delivery[d].at..now : Insert(d, t) \/ Ignore(d, t)
  /\ UNCHANGED <<now, expiresAt, inflight>>

\* The lock is not granted in time, or the cache file is not what it was.
ClaimFails(d) ==
  /\ Answers(d, "claiming")
  /\ UNCHANGED <<now, expiresAt, rows, held, inflight>>

\* The action is allowed here: an AbortController is entered under the job id
\* and the adapter starts.
Begin(d) ==
  /\ Goes(d, "fresh", "running")
  /\ inflight' = [inflight EXCEPT ![delivery[d].agent][delivery[d].job] = d]
  /\ UNCHANGED <<now, expiresAt, rows, held>>

\* The local allowlist refuses the action.
NotAllowed(d) ==
  /\ Answers(d, "fresh")
  /\ UNCHANGED <<now, expiresAt, rows, held, inflight>>

\* Mutant of Freed: the entry stays.
FreedNever(d) == inflight

\* The finally block: whatever is entered under the job id goes.
Freed(d) == [inflight EXCEPT ![delivery[d].agent][delivery[d].job] = None]

\* Mutant of Finish: only an adapter that was told to stop is given up.
FinishAborted(d) ==
  /\ delivery[d].aborted
  /\ Answers(d, "running")
  /\ inflight' = Freed(d)
  /\ UNCHANGED <<now, expiresAt, rows, held>>

\* The adapter returns or throws, or raceTimeout gives it up.
Finish(d) ==
  /\ Answers(d, "running")
  /\ inflight' = Freed(d)
  /\ UNCHANGED <<now, expiresAt, rows, held>>

\* A cancel frame aborts the execution entered under its job id, if there is one.
Cancel(a, j) ==
  /\ Responsive(a)
  /\ inflight[a][j] # None
  /\ ~delivery[inflight[a][j]].aborted
  /\ delivery' = [delivery EXCEPT ![inflight[a][j]].aborted = TRUE]
  /\ UNCHANGED <<now, expiresAt, rows, held, inflight>>

\* Mutant of Remembered: the cache does not outlive the process.
RememberedInRam == {}

\* What a restart leaves of the cache: all of it.
Remembered == held

\* An agent process dies and is started again.
Restart(a) ==
  /\ \E d \in Deliveries : delivery[d].agent = a
  /\ delivery' = [d \in Deliveries |->
       IF delivery[d].agent = a THEN Over(delivery[d]) ELSE delivery[d]]
  /\ inflight' = [inflight EXCEPT ![a] = [j \in Jobs |-> None]]
  /\ held' = Remembered
  /\ UNCHANGED <<now, expiresAt, rows>>

Tick ==
  /\ now < MaxTime
  /\ now' = now + 1
  /\ UNCHANGED <<expiresAt, rows, held, inflight, delivery>>

Run(d) ==
  \/ Claim(d) \/ ClaimFails(d)
  \/ /\ Responsive(delivery[d].agent)
     /\ \/ Verify(d) \/ VerifyFails(d) \/ AskCache(d)
        \/ Begin(d) \/ NotAllowed(d) \/ Finish(d)

Next ==
  \/ \E d \in Deliveries : Run(d) \/ \E j \in Jobs, a \in Agents : Deliver(d, j, a)
  \/ \E a \in Agents : Restart(a) \/ \E j \in Jobs : Cancel(a, j)
  \/ Tick

Spec == Init /\ [][Next]_vars

-----------------------------------------------------------------------------
\* What is sure to happen: crypto and the cache answer or fail, and the timer of
\* raceTimeout fires.  No adapter has to return, no frame has to arrive, no
\* process has to die.
Fairness == \A d \in Deliveries : WF_vars(Run(d))

FairSpec == Spec /\ Fairness

-----------------------------------------------------------------------------
(* Properties that hold.                                                   *)

Running(d) == delivery[d].step = "running"

\* Every variable has its type; the cache never outgrows its capacity, and an
\* in-flight entry is of an execution of that job which is still running.
TypeOK ==
  /\ now \in 0..MaxTime
  /\ expiresAt \in [Jobs -> 1..MaxTime]
  /\ rows \in Seq(Row)
  /\ held \subseteq DOMAIN rows /\ Cardinality(held) <= MaxEntries
  /\ inflight \in [Agents -> [Jobs -> Deliveries \cup {None}]]
  /\ delivery \in [Deliveries -> Delivery]
  /\ \A a \in Agents, j \in Jobs : inflight[a][j] # None =>
       LET d == inflight[a][j] IN Running(d) /\ delivery[d].job = j /\ delivery[d].agent = a

\* Row k is an acceptance of a job id the cache had accepted at row i and has
\* not accepted MaxEntries other rows since.
Repeats(i, k) == i < k /\ k - i <= MaxEntries /\ rows[k].job = rows[i].job

\* A job id is accepted again only once its envelope's lifetime is over,
\* whatever clocks the transactions of different processes were started with
\* and whoever was restarted (replay-store.ts: "remembering its id only in RAM
\* means an agent restart could execute the same envelope twice").
RepeatsOnlyAtExpiry ==
  \A i, k \in DOMAIN rows : Repeats(i, k) => rows[k].at >= expiresAt[rows[i].job]

\* An envelope that has expired when its frame arrives, or while its signature
\* is being checked, is never executed (sign.ts, verifyJob).
ExpiredNeverRuns ==
  \A d \in Deliveries :
    [](delivery[d].step = "verifying" /\ now > expiresAt[delivery[d].job] => []~Running(d))

\* Every frame is answered unless its process dies: no wait of the pipeline is
\* endless, not even for an adapter that ignores its signal (timeout.ts).
EveryDeliveryAnswered ==
  \A d \in Deliveries :
    delivery[d].step # "unused" ~> delivery[d].step = "over"

\* The cache keeps the promise of a replay guard: the table with its prune,
\* UNIQUE insert and eviction, shared by processes that start and stop,
\* implements the window of the latest MaxEntries acceptances.
Window == INSTANCE ReplayWindow WITH accepted <- rows, Times <- 0..(2 * MaxTime)
GuardsReplays == Window!Spec

-----------------------------------------------------------------------------
(* What a comment says and the code does not keep.                         *)

\* "A job id is executable exactly once" (jobs.ts, line 6): no job id is being
\* executed twice.
ExecutedOnce ==
  \A d, e \in Deliveries : Running(d) /\ Running(e) /\ d # e => delivery[d].job # delivery[e].job

=============================================================================
