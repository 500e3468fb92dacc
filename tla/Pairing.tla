------------------------------- MODULE Pairing -------------------------------
(***************************************************************************)
(* How a machine becomes a device: its agent asks for a pairing code, a    *)
(* signed-in user approves the code in the dashboard, and the agent, which *)
(* has been polling, exchanges the challenge for its credential (agent     *)
(* pairing.ts, gateway pair-start.ts, pair-claim.ts and store/pairing.ts,  *)
(* convex service/pairing.ts and features/pairing/mutations.ts).           *)
(*                                                                         *)
(* An attempt is one run of `agent pair` and the challenge it was given.   *)
(* Every mutation is one transaction.  Attempts are numbered in the order  *)
(* of their challenges; rows are never deleted, so a code is taken forever.*)
(***************************************************************************)
EXTENDS Naturals, FiniteSets

CONSTANTS
  PairUsers,    \* signed-in users of the dashboard
  NoUser,
  MaxAttempts,  \* bound: runs of `agent pair`
  PairCodes,    \* the codes newly drawn codes come from
  MaxStray,     \* bound: claim requests of an attempt still under way without it
  MaxPairFaults \* bound: lost requests and answers, dead agents

ASSUME PairingAssumption ==
  /\ NoUser \notin PairUsers
  /\ PairCodes # {}
  /\ {MaxAttempts, MaxStray, MaxPairFaults} \subseteq Nat

VARIABLES
  challenge,   \* the pairingChallenges table
  pairing,     \* per attempt, what its agent does
  stray,       \* per attempt, claims whose answer nobody awaits
  devices,     \* the devices registered: a bag of <<attempt, owner>>, as a function
  readers,     \* per attempt, the users who read its code off its screen and typed it
  pairFaults   \* how many of the MaxPairFaults have happened

pairVars == <<challenge, pairing, stray, devices, readers, pairFaults>>

Attempts == 1..MaxAttempts

ChallengeRow ==
  [status : {"none", "pending", "approved", "claimed", "expired"},
   code   : PairCodes,
   user   : PairUsers \cup {NoUser},
   lapsed : BOOLEAN]                \* expiresAt is past

AgentStates == {"idle", "polling", "asking", "paired", "gave up"}

PairInit ==
  /\ challenge = [a \in Attempts |-> [status |-> "none", code |-> CHOOSE k \in PairCodes : TRUE,
                                      user |-> NoUser, lapsed |-> FALSE]]
  /\ pairing = [a \in Attempts |-> [state |-> "idle", late |-> FALSE]]
  /\ stray = [a \in Attempts |-> 0]
  /\ devices = [a \in Attempts |-> [u \in PairUsers |-> 0]]
  /\ readers = [a \in Attempts |-> {}]
  /\ pairFaults = 0

-----------------------------------------------------------------------------
PairFault == pairFaults < MaxPairFaults /\ pairFaults' = pairFaults + 1

\* challengeByCode: the first row with that code.
ByCode(k) ==
  {a \in Attempts : /\ challenge[a].status # "none" /\ challenge[a].code = k
                    /\ \A b \in Attempts : b < a /\ challenge[b].status # "none" => challenge[b].code # k}

Moved(a, state) == [pairing EXCEPT ![a].state = state]

\* Mutant of CodeFree: a collision is not looked for.
CodeFreeAlways(k) == TRUE

CodeFree(k) == ByCode(k) = {}

\* /v1/pair/start and createChallenge, which refuses a colliding code.  The
\* agent starts polling unless the answer is lost: then it ends.
StartPairing(a) ==
  /\ challenge[a].status = "none" /\ \A b \in Attempts : b < a => challenge[b].status # "none"
  /\ \E k \in PairCodes :
       /\ CodeFree(k)
       /\ challenge' = [challenge EXCEPT ![a].status = "pending", ![a].code = k]
  /\ \/ pairing' = Moved(a, "polling") /\ UNCHANGED pairFaults
     \/ pairing' = Moved(a, "gave up") /\ PairFault
  /\ UNCHANGED <<stray, devices, readers>>

\* Approve's conditions: nobody else's, not expired, still pending.  Of an
\* expired row the patch is rolled back with the error that follows it.
MayBind(u, c) == c.user \in {NoUser, u} /\ ~c.lapsed /\ c.status = "pending"

\* A user reads the code on the screen of attempt a and approves it: whichever
\* challenge the code finds is bound to the user.
ApproveCode(u, a) ==
  /\ pairing[a].state \in {"polling", "asking"}
  /\ readers' = [readers EXCEPT ![a] = @ \cup {u}]
  /\ LET found == {b \in ByCode(challenge[a].code) : MayBind(u, challenge[b])} IN
       challenge' = [b \in Attempts |->
         IF b \in found THEN [challenge[b] EXCEPT !.status = "approved", !.user = u] ELSE challenge[b]]
  /\ UNCHANGED <<pairing, stray, devices, pairFaults>>

\* runPairing: the deadline is checked before each sleep, then a claim is posted.
PollClaim(a) ==
  /\ pairing[a].state = "polling"
  /\ pairing' = Moved(a, IF pairing[a].late THEN "gave up" ELSE "asking")
  /\ UNCHANGED <<challenge, stray, devices, readers, pairFaults>>

Claimable(c) == c.status = "approved" /\ c.user # NoUser

\* claim, in one transaction: a lapsed challenge is marked, a live one becomes
\* a device with the credential minted for this request.
ClaimCommits(a) ==
  LET c == challenge[a]
      gained == Claimable(c) /\ ~c.lapsed IN
  /\ challenge' = [challenge EXCEPT ![a].status =
       IF ~Claimable(c) THEN @ ELSE IF c.lapsed THEN "expired" ELSE "claimed"]
  /\ devices' = IF gained THEN [devices EXCEPT ![a][c.user] = @ + 1] ELSE devices

Granted(a) == Claimable(challenge[a]) /\ ~challenge[a].lapsed

\* The claim is answered: with the credential, which the agent saves, or with
\* APPROVAL_REQUIRED, after which it polls on.
ClaimAnswered(a) ==
  /\ pairing[a].state = "asking"
  /\ ClaimCommits(a)
  /\ pairing' = Moved(a, IF Granted(a) THEN "paired" ELSE "polling")
  /\ UNCHANGED <<stray, readers, pairFaults>>

\* The request is lost, or only its answer is: the agent polls on (a network
\* error or its time-out is retryable).  A timed-out claim may still be under
\* way in the gateway.
ClaimLost(a) ==
  /\ pairing[a].state = "asking"
  /\ pairing' = Moved(a, "polling")
  /\ \/ UNCHANGED <<challenge, devices, stray>>
     \/ ClaimCommits(a) /\ UNCHANGED stray
     \/ /\ stray[a] < MaxStray /\ stray' = [stray EXCEPT ![a] = @ + 1]
        /\ UNCHANGED <<challenge, devices>>
  /\ PairFault
  /\ UNCHANGED readers

StrayCommits(a) ==
  /\ stray[a] > 0
  /\ stray' = [stray EXCEPT ![a] = @ - 1]
  /\ ClaimCommits(a)
  /\ UNCHANGED <<pairing, readers, pairFaults>>

\* The agent is interrupted, or cannot save what it was given.
AgentDies(a) ==
  /\ pairing[a].state \in {"polling", "asking"}
  /\ pairing' = Moved(a, "gave up")
  /\ \/ UNCHANGED <<challenge, devices>>
     \/ pairing[a].state = "asking" /\ ClaimCommits(a)
  /\ PairFault
  /\ UNCHANGED <<stray, readers>>

\* The five minutes pass on the clock of the control plane, and on the agent's.
ChallengeLapses(a) ==
  /\ challenge[a].status \in {"pending", "approved"} /\ ~challenge[a].lapsed
  /\ challenge' = [challenge EXCEPT ![a].lapsed = TRUE]
  /\ UNCHANGED <<pairing, stray, devices, readers, pairFaults>>

DeadlineReached(a) ==
  /\ pairing[a].state \in {"polling", "asking"} /\ ~pairing[a].late
  /\ pairing' = [pairing EXCEPT ![a].late = TRUE]
  /\ UNCHANGED <<challenge, stray, devices, readers, pairFaults>>

PairNext ==
  \E a \in Attempts :
    \/ StartPairing(a) \/ PollClaim(a) \/ ClaimAnswered(a) \/ ClaimLost(a) \/ StrayCommits(a)
    \/ AgentDies(a) \/ ChallengeLapses(a) \/ DeadlineReached(a)
    \/ \E u \in PairUsers : ApproveCode(u, a)

PairSpec == PairInit /\ [][PairNext]_pairVars

-----------------------------------------------------------------------------
\* Every variable has its type, and no two challenges ever have one code.
PairTypeOK ==
  /\ challenge \in [Attempts -> ChallengeRow]
  /\ pairing \in [Attempts -> [state : AgentStates, late : BOOLEAN]]
  /\ stray \in [Attempts -> 0..MaxStray]
  /\ devices \in [Attempts -> [PairUsers -> Nat]]
  /\ readers \in [Attempts -> SUBSET PairUsers]
  /\ pairFaults \in 0..MaxPairFaults
  /\ \A a, b \in Attempts :
       challenge[a].status # "none" /\ challenge[b].status # "none" /\ challenge[a].code = challenge[b].code => a = b

DeviceCount(a) == {u \in PairUsers : devices[a][u] > 0}

\* A device belongs to a user who approved the code on that very machine's
\* screen, and an approval makes one device, whatever is lost, repeated or
\* approved by another user at the same time: "a colliding code would let one
\* agent claim another agent's approval" (service/pairing.ts).
PairedToItsReader ==
  \A a \in Attempts :
    /\ DeviceCount(a) \subseteq readers[a]
    /\ Cardinality(DeviceCount(a)) <= 1 /\ \A u \in PairUsers : devices[a][u] <= 1
    /\ pairing[a].state = "paired" => DeviceCount(a) = {challenge[a].user}

=============================================================================
