------------------------------- MODULE KeyTrust -------------------------------
(***************************************************************************)
(* The job-signing key an agent trusts: pinned on first use, replaced only *)
(* along a statement signed with the key it replaces (agent key-store.ts,  *)
(* session-inbound.ts, protocol key-rotation.ts), while a fleet of gateway *)
(* replicas is moved from key to key with an overlap window (gateway       *)
(* app.ts, config.ts).  What the key is for is checking jobs: a job is     *)
(* signed by the replica that was called and may reach the agent over      *)
(* another one's socket.                                                   *)
(*                                                                         *)
(* Keys are numbered along the rotation; 0 is the key of a gateway that is *)
(* not of this fleet.  A signature is its key.  Handlers run to their next *)
(* await; the imports of keys and checks of signatures are the awaits.     *)
(***************************************************************************)
EXTENDS Naturals

CONSTANTS
  KeyGateways,   \* replicas
  KeyJobs,       \* jobs that reach the agent
  NoKey,         \* none was learned yet
  MaxKey,        \* bound: keys of the fleet
  MaxGreetings,  \* bound: sessions
  MaxKeyFaults   \* bound: stalled greetings and failed writes

ASSUME KeyTrustAssumption ==
  /\ MaxKey \in Nat \ {0}
  /\ {MaxGreetings, MaxKeyFaults} \subseteq Nat
  /\ NoKey \notin 0..MaxKey

VARIABLES
  fleet,      \* per replica, its key and whether JOB_SIGNING_PREVIOUS_* is set
  keyStore,   \* the agent's store, and its copy in the credential file
  greeting,   \* per session, what handling its welcome has come to
  checking,   \* per job, what verifying it has come to
  overtaken,  \* a rotation was accepted while a job was importing the key before
  keyFaults   \* how many of the MaxKeyFaults have happened

keyVars == <<fleet, keyStore, greeting, checking, overtaken, keyFaults>>

FleetKeys == 0..MaxKey
Pins      == FleetKeys \cup {NoKey}
Greetings == 1..MaxGreetings

Greeting == [state : {"unsent", "proof", "import", "done"}, key : FleetKeys, proof : BOOLEAN, by : Pins]

Checking == [state : {"idle", "import", "accepted", "refused"}, key : FleetKeys, by : Pins]

KeyInit ==
  /\ fleet = [g \in KeyGateways |-> [key |-> 1, previous |-> FALSE]]
  /\ keyStore = [pinned |-> NoKey, verifier |-> NoKey, disk |-> NoKey]
  /\ greeting = [w \in Greetings |-> [state |-> "unsent", key |-> 0, proof |-> FALSE, by |-> NoKey]]
  /\ checking = [j \in KeyJobs |-> [state |-> "idle", key |-> 0, by |-> NoKey]]
  /\ overtaken = FALSE
  /\ keyFaults = 0

KeyFault == keyFaults < MaxKeyFaults /\ keyFaults' = keyFaults + 1

-----------------------------------------------------------------------------
(* The fleet: a replica is deployed with a key, and with the one before it *)
(* for as long as the window lasts; a deployment may be rolled back.       *)

Deploy(g) ==
  /\ \E key \in (fleet[g].key - 1)..(fleet[g].key + 1) \cap 1..MaxKey, previous \in BOOLEAN :
       /\ previous => key > 1
       /\ fleet' = [fleet EXCEPT ![g] = [key |-> key, previous |-> previous]]
  /\ fleet' # fleet
  /\ UNCHANGED <<keyStore, greeting, checking, overtaken, keyFaults>>

-----------------------------------------------------------------------------
(* handleWelcome and trust, from await to await.                           *)

\* What trust does about an announcement before its first await.
Announced(key, proof) ==
  LET pin == keyStore.pinned IN
  [state |-> IF pin = NoKey THEN "import"
             ELSE IF key = pin \/ ~proof THEN "done"
             ELSE "proof",
   key |-> key, proof |-> proof, by |-> pin]

\* A session opens on a replica, which greets the agent with its key; sessions
\* are opened in turn, and the handler of the last one is through unless it
\* stalled for longer than the agent waits before it connects again.
Greet(w) ==
  /\ greeting[w].state = "unsent"
  /\ \A v \in Greetings : v < w => greeting[v].state # "unsent"
  /\ IF \A v \in Greetings : v < w => greeting[v].state = "done" THEN UNCHANGED keyFaults ELSE KeyFault
  /\ \/ \E g \in KeyGateways : greeting' = [greeting EXCEPT ![w] = Announced(fleet[g].key, fleet[g].previous)]
     \/ greeting' = [greeting EXCEPT ![w] = Announced(0, FALSE)]
  /\ UNCHANGED <<fleet, keyStore, checking, overtaken>>

\* Mutant of Authorized: that there is a statement is enough.
AuthorizedByAny(w) == TRUE

\* The statement is signed with the key that was pinned when it came, and
\* replaces the one that is pinned now.
Authorized(w) ==
  LET previous == greeting[w].key - 1 IN
  previous = greeting[w].by /\ previous = keyStore.pinned

CheckProof(w) ==
  /\ greeting[w].state = "proof"
  /\ greeting' = [greeting EXCEPT ![w].state = IF Authorized(w) THEN "import" ELSE "done"]
  /\ UNCHANGED <<fleet, keyStore, checking, overtaken, keyFaults>>

\* The new verifier is there: it and the pin are replaced in one go, whatever
\* they have become meanwhile, and persisted; a write that fails is only logged.
Adopt(w) ==
  LET key == greeting[w].key IN
  /\ greeting[w].state = "import"
  /\ greeting' = [greeting EXCEPT ![w].state = "done"]
  /\ \/ /\ keyStore' = [pinned |-> key, verifier |-> key, disk |-> key]
        /\ UNCHANGED keyFaults
     \/ /\ keyStore' = [keyStore EXCEPT !.pinned = key, !.verifier = key]
        /\ KeyFault
  /\ overtaken' = (overtaken \/ \E j \in KeyJobs : checking[j].state = "import" /\ checking[j].by # key)
  /\ UNCHANGED <<fleet, checking>>

-----------------------------------------------------------------------------
(* verify.                                                                 *)

\* verifyJob, as far as the key goes.
Verdict(key, by) == IF key = by THEN "accepted" ELSE "refused"

\* A job comes, signed by some replica; without a verifier the pinned key is
\* imported first.
JobArrives(j) ==
  /\ checking[j].state = "idle"
  /\ \E g \in KeyGateways :
       checking' = [checking EXCEPT ![j] =
         [key |-> fleet[g].key, by |-> keyStore.pinned,
          state |-> IF keyStore.pinned = NoKey THEN "refused"
                    ELSE IF keyStore.verifier = NoKey THEN "import"
                    ELSE Verdict(fleet[g].key, keyStore.verifier)]]
  /\ UNCHANGED <<fleet, keyStore, greeting, overtaken, keyFaults>>

\* verifierFor resumes and assigns what it made, whatever is there by now.
JobImported(j) ==
  /\ checking[j].state = "import"
  /\ keyStore' = [keyStore EXCEPT !.verifier = checking[j].by]
  /\ checking' = [checking EXCEPT ![j].state = Verdict(checking[j].key, checking[j].by)]
  /\ UNCHANGED <<fleet, greeting, overtaken, keyFaults>>

\* The agent is restarted: it starts with the key of its credential file.
AgentRestarts ==
  /\ keyStore' = [keyStore EXCEPT !.pinned = keyStore.disk, !.verifier = NoKey]
  /\ greeting' = [w \in Greetings |->
       IF greeting[w].state = "unsent" THEN greeting[w] ELSE [greeting[w] EXCEPT !.state = "done"]]
  /\ checking' = [j \in KeyJobs |->
       IF checking[j].state = "import" THEN [checking[j] EXCEPT !.state = "refused"] ELSE checking[j]]
  /\ overtaken' = FALSE
  /\ UNCHANGED <<fleet, keyFaults>>

KeyNext ==
  \/ \E g \in KeyGateways : Deploy(g)
  \/ \E w \in Greetings : Greet(w) \/ CheckProof(w) \/ Adopt(w)
  \/ \E j \in KeyJobs : JobArrives(j) \/ JobImported(j)
  \/ AgentRestarts

KeySpec == KeyInit /\ [][KeyNext]_keyVars

-----------------------------------------------------------------------------
\* Every variable has its type, and what a verifier checks with was pinned.
KeyTypeOK ==
  /\ fleet \in [KeyGateways -> [key : 1..MaxKey, previous : BOOLEAN]]
  /\ keyStore \in [pinned : Pins, verifier : Pins, disk : Pins]
  /\ greeting \in [Greetings -> Greeting]
  /\ checking \in [KeyJobs -> Checking]
  /\ overtaken \in BOOLEAN
  /\ keyFaults \in 0..MaxKeyFaults
  /\ keyStore.pinned = NoKey => keyStore.verifier = NoKey

\* Jobs are checked with the key that is pinned, unless a rotation overtook a
\* job that was still importing the key before: only that leaves a verifier
\* that refuses every job of the key just accepted, until the next rotation or
\* restart.
VerifierIsPinned == keyStore.verifier \in {NoKey, keyStore.pinned} \/ overtaken

\* "A different one announced later is refused, not adopted" (key-store.ts), "an
\* older proof cannot downgrade an agent" (key-rotation.ts): from first use on
\* the pin moves one rotation ahead at a time, whichever replica of a fleet in
\* the middle of its deployments, or which other gateway, greets the agent.
PinMovesAhead ==
  [][LET from == keyStore.pinned
         to   == keyStore'.pinned
     IN keyFaults' = 0 => to = from \/ from = NoKey \/ (from >= 1 /\ to = from + 1)]_keyVars

\* The trust anchor is what its holder last agreed to, and is what jobs meet.
KeysSound == []VerifierIsPinned /\ PinMovesAhead

=============================================================================
