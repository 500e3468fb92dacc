----------------------------- MODULE AccessProofs -----------------------------
(***************************************************************************)
(* Theorems about the ways in: pairing a machine (Pairing), what lets an   *)
(* AI client call (ApiAccess), connecting a connector (ConnectFlow), the   *)
(* envelope of a call (McpEnvelope) and the budgets before every handler   *)
(* (EdgeLimits), for any number of users, attempts, clients, codes, keys,  *)
(* flows and requests, any catalog and any budgets.                        *)
(***************************************************************************)
EXTENDS Pairing, ApiAccess, ConnectFlow, EdgeLimits, McpEnvelope, FiniteSetTheorems, TLAPS

-----------------------------------------------------------------------------
(* Pairing.                                                                 *)

\* What an attempt's row says of its devices and readers: an approval is its
\* reader's, and only a claimed row has a device, one, its approver's.
PairLedger(a) ==
  /\ challenge[a].status \in {"approved", "claimed"} =>
       challenge[a].user \in PairUsers /\ challenge[a].user \in readers[a]
  /\ \A u \in PairUsers :
       devices[a][u] = IF challenge[a].status = "claimed" /\ u = challenge[a].user THEN 1 ELSE 0
  /\ pairing[a].state = "paired" => challenge[a].status = "claimed"
  /\ pairing[a].state # "idle" => challenge[a].status # "none"

PairInv == PairTypeOK /\ \A a \in Attempts : PairLedger(a)

\* Nobody has a code that is free: the look-up by code finds the first row.
LEMMA FreeCode ==
  ASSUME PairTypeOK, NEW k \in PairCodes, CodeFree(k), NEW b \in Attempts, challenge[b].status # "none"
  PROVE  challenge[b].code # k
<1>1. SUFFICES ASSUME challenge[b].code = k
               PROVE  FALSE
  OBVIOUS
<1>2. \A c \in Attempts : c < b /\ challenge[c].status # "none" => challenge[c].code # k
  BY <1>1 DEF PairTypeOK, Attempts
<1>3. b \in ByCode(k)
  BY <1>1, <1>2 DEF ByCode
<1>4. QED
  BY <1>3 DEF CodeFree

\* The code on a screen finds the challenge of that very screen.
LEMMA FoundIsItsOwn ==
  ASSUME PairTypeOK, NEW a \in Attempts, challenge[a].status # "none",
         NEW b \in ByCode(challenge[a].code)
  PROVE  b = a
BY DEF PairTypeOK, ByCode

\* One claim, whoever awaits its answer: it moves the row's status alone, and
\* counts a device only when the row becomes claimed.
LEMMA ClaimRow ==
  ASSUME PairInv, NEW a \in Attempts, ClaimCommits(a)
  PROVE  /\ challenge' \in [Attempts -> ChallengeRow]
         /\ devices' \in [Attempts -> [PairUsers -> Nat]]
         /\ \A b \in Attempts :
              /\ challenge'[b].code = challenge[b].code
              /\ challenge'[b].user = challenge[b].user
              /\ challenge'[b].status = "none" <=> challenge[b].status = "none"
              /\ challenge[b].status = "claimed" => challenge'[b].status = "claimed"
              /\ challenge'[b].status \in {"approved", "claimed"} =>
                   challenge'[b].user \in PairUsers /\ challenge'[b].user \in readers[b]
              /\ \A u \in PairUsers :
                   devices'[b][u] = IF challenge'[b].status = "claimed" /\ u = challenge'[b].user THEN 1 ELSE 0
         /\ Granted(a) => challenge'[a].status = "claimed"
<1> DEFINE next == IF ~Claimable(challenge[a]) THEN challenge[a].status
                   ELSE IF challenge[a].lapsed THEN "expired" ELSE "claimed"
<1>1. challenge \in [Attempts -> ChallengeRow] /\ devices \in [Attempts -> [PairUsers -> Nat]]
  BY DEF PairInv, PairTypeOK
<1>2. next \in {"none", "pending", "approved", "claimed", "expired"} /\ (next = "none" <=> challenge[a].status = "none")
  BY <1>1 DEF ChallengeRow, Claimable
<1>3. challenge' = [challenge EXCEPT ![a].status = next]
  BY DEF ClaimCommits
<1>4. next = "claimed" <=> challenge[a].status = "claimed" \/ Granted(a)
  BY <1>1 DEF Granted, Claimable, ChallengeRow
<1>5. next \in {"approved", "claimed"} => challenge[a].status \in {"approved", "claimed"}
  BY DEF Claimable
<1> HIDE DEF next
<1>6. challenge' \in [Attempts -> ChallengeRow]
  BY <1>1, <1>2, <1>3 DEF ChallengeRow
<1>7. \A b \in Attempts : /\ challenge'[b].code = challenge[b].code /\ challenge'[b].user = challenge[b].user
                          /\ challenge'[b].status = IF b = a THEN next ELSE challenge[b].status
  BY <1>1, <1>3 DEF ChallengeRow
<1>8. \A b \in Attempts : PairLedger(b)
  BY DEF PairInv
<1>9. ASSUME Granted(a)
      PROVE  challenge[a].user \in PairUsers /\ \A u \in PairUsers : devices[a][u] = 0
  BY <1>8, <1>9 DEF PairLedger, Granted, Claimable
<1>10. devices' = IF Granted(a) THEN [devices EXCEPT ![a][challenge[a].user] = @ + 1] ELSE devices
  BY DEF ClaimCommits, Granted
<1>11. devices' \in [Attempts -> [PairUsers -> Nat]]
  BY <1>1, <1>9, <1>10
<1>12. \A b \in Attempts, u \in PairUsers :
         devices'[b][u] = IF challenge'[b].status = "claimed" /\ u = challenge'[b].user THEN 1 ELSE 0
  <2>1. CASE ~Granted(a)
    BY <1>4, <1>7, <1>8, <1>10, <2>1 DEF PairLedger
  <2>2. CASE Granted(a)
    <3>1. \A b \in Attempts \ {a}, u \in PairUsers : devices'[b][u] = devices[b][u]
      BY <1>1, <1>10, <2>2
    <3>2. \A u \in PairUsers : devices'[a][u] = IF u = challenge[a].user THEN 1 ELSE 0
      BY <1>1, <1>9, <1>10, <2>2
    <3>3. QED
      BY <1>4, <1>7, <1>8, <2>2, <3>1, <3>2 DEF PairLedger
  <2>3. QED
    BY <2>1, <2>2
<1>13. QED
  BY <1>2, <1>4, <1>5, <1>6, <1>7, <1>8, <1>11, <1>12 DEF PairLedger

LEMMA PairInitInv == PairInit => PairInv
<1> SUFFICES ASSUME PairInit
             PROVE  PairInv
  OBVIOUS
<1>1. PairTypeOK
  BY PairingAssumption DEF PairInit, PairTypeOK, ChallengeRow, AgentStates
<1>2. ASSUME NEW a \in Attempts
      PROVE  PairLedger(a)
  BY DEF PairInit, PairLedger
<1>3. QED
  BY <1>1, <1>2 DEF PairInv

LEMMA PairTyped ==
  ASSUME PairInv
  PROVE  /\ challenge \in [Attempts -> ChallengeRow]
         /\ pairing \in [Attempts -> [state : AgentStates, late : BOOLEAN]]
         /\ stray \in [Attempts -> 0..MaxStray]
         /\ devices \in [Attempts -> [PairUsers -> Nat]]
         /\ readers \in [Attempts -> SUBSET PairUsers]
         /\ pairFaults \in 0..MaxPairFaults
BY DEF PairInv, PairTypeOK

\* A fault is one more of those allowed.
LEMMA PairFaultCounts ==
  ASSUME PairInv, PairFault
  PROVE  pairFaults' \in 0..MaxPairFaults
BY PairTyped, PairingAssumption DEF PairFault

\* Moving an agent moves nothing else of anybody's.
LEMMA MovedAgent ==
  ASSUME PairInv, NEW a \in Attempts, NEW q \in AgentStates, pairing' = Moved(a, q)
  PROVE  /\ pairing' \in [Attempts -> [state : AgentStates, late : BOOLEAN]]
         /\ \A b \in Attempts : pairing'[b].state = IF b = a THEN q ELSE pairing[b].state
BY PairTyped DEF Moved

LEMMA StartKeeps ==
  ASSUME PairInv, NEW a \in Attempts, StartPairing(a)
  PROVE  PairInv'
<1>1. PICK k \in PairCodes : /\ CodeFree(k)
                             /\ challenge' = [challenge EXCEPT ![a].status = "pending", ![a].code = k]
  BY DEF StartPairing
<1>2. /\ challenge' \in [Attempts -> ChallengeRow]
      /\ \A b \in Attempts : b # a => challenge'[b] = challenge[b]
      /\ challenge'[a].status = "pending" /\ challenge'[a].code = k
  <2> DEFINE row == [challenge[a] EXCEPT !.status = "pending", !.code = k]
  <2>1. row \in ChallengeRow /\ row.status = "pending" /\ row.code = k
    BY PairTyped DEF ChallengeRow
  <2>2. challenge' = [challenge EXCEPT ![a] = row]
    BY <1>1, PairTyped DEF ChallengeRow
  <2> HIDE DEF row
  <2>3. QED
    BY <2>1, <2>2, PairTyped
<1>3. \A b \in Attempts : challenge[b].status # "none" => challenge[b].code # k
  BY <1>1, FreeCode DEF PairInv
<1>4. pairFaults' \in 0..MaxPairFaults
  BY PairFaultCounts, PairTyped DEF StartPairing
<1>5. PICK q \in {"polling", "gave up"} : pairing' = Moved(a, q)
  BY DEF StartPairing
<1>6. q \in AgentStates
  BY DEF AgentStates
<1>7. /\ pairing' \in [Attempts -> [state : AgentStates, late : BOOLEAN]]
      /\ \A b \in Attempts : pairing'[b].state = IF b = a THEN q ELSE pairing[b].state
  BY <1>5, <1>6, MovedAgent
<1>8. UNCHANGED <<stray, devices, readers>> /\ challenge[a].status = "none"
  BY DEF StartPairing
<1>9. PairTypeOK'
  <2>1. ASSUME NEW b \in Attempts, NEW c \in Attempts, challenge'[b].status # "none", challenge'[c].status # "none",
               challenge'[b].code = challenge'[c].code
        PROVE  b = c
    <3>1. CASE b # a /\ c # a
      BY <1>2, <2>1, <3>1 DEF PairInv, PairTypeOK
    <3>2. CASE b = a \/ c = a
      BY <1>2, <1>3, <2>1, <3>2
    <3>3. QED
      BY <3>1, <3>2
  <2>2. QED
    BY <1>2, <1>4, <1>7, <1>8, <2>1, PairTyped DEF PairTypeOK
<1>10. ASSUME NEW b \in Attempts
       PROVE  PairLedger(b)'
  <2>1. PairLedger(b)
    BY DEF PairInv
  <2>2. CASE b = a
    BY <1>2, <1>7, <1>8, <2>1, <2>2 DEF PairLedger
  <2>3. CASE b # a
    BY <1>2, <1>7, <1>8, <2>1, <2>3 DEF PairLedger
  <2>4. QED
    BY <2>2, <2>3
<1>11. QED
  BY <1>9, <1>10 DEF PairInv

LEMMA ApproveKeeps ==
  ASSUME PairInv, NEW a \in Attempts, NEW u \in PairUsers, ApproveCode(u, a)
  PROVE  PairInv'
<1> DEFINE found == {b \in ByCode(challenge[a].code) : MayBind(u, challenge[b])}
<1>1. PairLedger(a) /\ pairing[a].state # "idle"
  BY DEF PairInv, ApproveCode
<1>2. challenge[a].status # "none"
  BY <1>1 DEF PairLedger
<1>3. \A b \in found : b = a /\ challenge[b].status = "pending"
  BY <1>2, FoundIsItsOwn DEF PairInv, MayBind
<1>4. challenge' = [b \in Attempts |->
         IF b \in found THEN [challenge[b] EXCEPT !.status = "approved", !.user = u] ELSE challenge[b]]
  BY DEF ApproveCode
<1> HIDE DEF found
<1>5. readers' = [readers EXCEPT ![a] = @ \cup {u}] /\ UNCHANGED <<pairing, stray, devices, pairFaults>>
  BY DEF ApproveCode
<1>6. readers' \in [Attempts -> SUBSET PairUsers] /\ u \in readers'[a] /\ \A b \in Attempts : readers[b] \subseteq readers'[b]
  BY <1>5, PairTyped
<1>7. /\ challenge' \in [Attempts -> ChallengeRow]
      /\ \A b \in Attempts : /\ challenge'[b].code = challenge[b].code
                             /\ challenge'[b].status = IF b \in found THEN "approved" ELSE challenge[b].status
                             /\ challenge'[b].user = IF b \in found THEN u ELSE challenge[b].user
  <2>1. ASSUME NEW b \in Attempts
        PROVE  LET row == [challenge[b] EXCEPT !.status = "approved", !.user = u] IN
               row \in ChallengeRow /\ row.code = challenge[b].code /\ row.status = "approved" /\ row.user = u
    <3>1. challenge[b] \in ChallengeRow
      BY PairTyped
    <3>2. QED
      BY <3>1 DEF ChallengeRow
  <2>2. ASSUME NEW b \in Attempts
        PROVE  /\ challenge'[b] \in ChallengeRow
               /\ challenge'[b].code = challenge[b].code
               /\ challenge'[b].status = IF b \in found THEN "approved" ELSE challenge[b].status
               /\ challenge'[b].user = IF b \in found THEN u ELSE challenge[b].user
    <3>1. CASE b \in found
      BY <1>4, <2>1, <3>1
    <3>2. CASE b \notin found
      BY <1>4, PairTyped, <3>2
    <3>3. QED
      BY <3>1, <3>2
  <2>3. challenge' = [b \in Attempts |-> challenge'[b]]
    BY <1>4
  <2>4. QED
    BY <2>2, <2>3
<1>8. PairTypeOK'
  <2>1. \A b \in Attempts : challenge'[b].status # "none" => challenge[b].status # "none"
    BY <1>3, <1>7
  <2>2. QED
    BY <1>5, <1>6, <1>7, <2>1, PairTyped DEF PairTypeOK, PairInv
<1>9. ASSUME NEW b \in Attempts
      PROVE  PairLedger(b)'
  <2>1. PairLedger(b)
    BY DEF PairInv
  <2>2. CASE b \in found
    <3>1. b = a /\ challenge[b].status = "pending" /\ u \in readers'[b]
      BY <1>3, <1>6, <2>2
    <3>2. challenge'[b].status = "approved" /\ challenge'[b].user = u
      BY <1>7, <2>2
    <3>3. QED
      BY <1>5, <2>1, <3>1, <3>2 DEF PairLedger
  <2>3. CASE b \notin found
    BY <1>5, <1>6, <1>7, <2>1, <2>3 DEF PairLedger
  <2>4. QED
    BY <2>2, <2>3
<1>10. QED
  BY <1>8, <1>9 DEF PairInv

\* A claim keeps the books, and so does no claim at all, whatever becomes of
\* the agents under way, provided one that is newly paired was granted.
LEMMA ClaimKeeps ==
  ASSUME PairInv, NEW a \in Attempts,
         ClaimCommits(a) \/ UNCHANGED <<challenge, devices>>,
         pairing' \in [Attempts -> [state : AgentStates, late : BOOLEAN]],
         \A b \in Attempts : pairing'[b].state # pairing[b].state =>
           /\ pairing[b].state # "idle"
           /\ pairing'[b].state = "paired" => b = a /\ Granted(a) /\ ClaimCommits(a),
         UNCHANGED readers,
         stray' \in [Attempts -> 0..MaxStray], pairFaults' \in 0..MaxPairFaults
  PROVE  PairInv'
<1>1. /\ challenge' \in [Attempts -> ChallengeRow]
      /\ devices' \in [Attempts -> [PairUsers -> Nat]]
      /\ \A b \in Attempts :
           /\ challenge'[b].code = challenge[b].code
           /\ challenge'[b].status = "none" <=> challenge[b].status = "none"
           /\ challenge[b].status = "claimed" => challenge'[b].status = "claimed"
           /\ challenge'[b].status \in {"approved", "claimed"} =>
                challenge'[b].user \in PairUsers /\ challenge'[b].user \in readers[b]
           /\ \A u \in PairUsers :
                devices'[b][u] = IF challenge'[b].status = "claimed" /\ u = challenge'[b].user THEN 1 ELSE 0
  <2>1. CASE ClaimCommits(a)
    BY <2>1, ClaimRow
  <2>2. CASE UNCHANGED <<challenge, devices>>
    <3>1. \A b \in Attempts : PairLedger(b)
      BY DEF PairInv
    <3>2. QED
      BY <2>2, <3>1, PairTyped DEF PairLedger
  <2>3. QED
    BY <2>1, <2>2
<1>2. Granted(a) /\ ClaimCommits(a) => challenge'[a].status = "claimed"
  BY ClaimRow
<1>3. PairTypeOK'
  BY <1>1, PairTyped DEF PairTypeOK, PairInv
<1>4. ASSUME NEW b \in Attempts
      PROVE  PairLedger(b)'
  <2>1. PairLedger(b)
    BY DEF PairInv
  <2>2. QED
    BY <1>1, <1>2, <2>1 DEF PairLedger
<1>5. QED
  BY <1>3, <1>4 DEF PairInv

\* The agent's half of a step: it moves on from where it was under way.
LEMMA AgentMoves ==
  ASSUME PairInv, NEW a \in Attempts, NEW q \in AgentStates, pairing[a].state # "idle",
         ClaimCommits(a) \/ UNCHANGED <<challenge, devices>>,
         q = "paired" => Granted(a) /\ ClaimCommits(a),
         pairing' = Moved(a, q), UNCHANGED readers,
         stray' \in [Attempts -> 0..MaxStray], pairFaults' \in 0..MaxPairFaults
  PROVE  PairInv'
<1>1. /\ pairing' \in [Attempts -> [state : AgentStates, late : BOOLEAN]]
      /\ \A b \in Attempts : pairing'[b].state = IF b = a THEN q ELSE pairing[b].state
  BY MovedAgent
<1>2. \A b \in Attempts : pairing'[b].state # pairing[b].state =>
        /\ pairing[b].state # "idle"
        /\ pairing'[b].state = "paired" => b = a /\ Granted(a) /\ ClaimCommits(a)
  BY <1>1
<1>3. QED
  BY <1>1, <1>2, ClaimKeeps

LEMMA StrayKeeps ==
  ASSUME PairInv, NEW a \in Attempts, StrayCommits(a)
  PROVE  PairInv'
<1>1. stray' \in [Attempts -> 0..MaxStray]
  BY PairTyped, PairingAssumption DEF StrayCommits
<1>2. ClaimCommits(a) /\ UNCHANGED <<pairing, readers, pairFaults>>
  BY DEF StrayCommits
<1>3. QED
  BY <1>1, <1>2, ClaimKeeps, PairTyped

LEMMA LapseKeeps ==
  ASSUME PairInv, NEW a \in Attempts, ChallengeLapses(a)
  PROVE  PairInv'
<1>1. challenge' = [challenge EXCEPT ![a].lapsed = TRUE] /\ UNCHANGED <<pairing, stray, devices, readers, pairFaults>>
  BY DEF ChallengeLapses
<1>2. /\ challenge' \in [Attempts -> ChallengeRow]
      /\ \A b \in Attempts : /\ challenge'[b].code = challenge[b].code
                             /\ challenge'[b].status = challenge[b].status
                             /\ challenge'[b].user = challenge[b].user
  BY <1>1, PairTyped DEF ChallengeRow
<1>3. PairTypeOK'
  BY <1>1, <1>2, PairTyped DEF PairTypeOK, PairInv
<1>4. ASSUME NEW b \in Attempts
      PROVE  PairLedger(b)'
  <2>1. PairLedger(b)
    BY DEF PairInv
  <2>2. QED
    BY <1>1, <1>2, <2>1 DEF PairLedger
<1>5. QED
  BY <1>3, <1>4 DEF PairInv

\* The invariant is inductive.
LEMMA PairInductive == PairInv /\ [PairNext]_pairVars => PairInv'
<1> SUFFICES ASSUME PairInv, [PairNext]_pairVars
             PROVE  PairInv'
  OBVIOUS
<1>1. CASE UNCHANGED pairVars
  BY <1>1 DEF pairVars, PairInv, PairTypeOK, PairLedger
<1>2. ASSUME NEW a \in Attempts, StartPairing(a)
      PROVE  PairInv'
  BY <1>2, StartKeeps
<1>3. ASSUME NEW a \in Attempts, PollClaim(a)
      PROVE  PairInv'
  <2>1. PICK q \in {"gave up", "asking"} : pairing' = Moved(a, q)
    BY <1>3 DEF PollClaim
  <2>2. q \in AgentStates /\ q # "paired" /\ pairing[a].state # "idle"
    BY <1>3 DEF AgentStates, PollClaim
  <2>3. UNCHANGED <<challenge, stray, devices, readers, pairFaults>>
    BY <1>3 DEF PollClaim
  <2>4. QED
    BY <2>1, <2>2, <2>3, AgentMoves, PairTyped
<1>4. ASSUME NEW a \in Attempts, ClaimAnswered(a)
      PROVE  PairInv'
  <2>1. PICK q \in {"paired", "polling"} : pairing' = Moved(a, q) /\ (q = "paired" => Granted(a))
    BY <1>4 DEF ClaimAnswered
  <2>2. q \in AgentStates /\ pairing[a].state # "idle"
    BY <1>4 DEF AgentStates, ClaimAnswered
  <2>3. ClaimCommits(a) /\ UNCHANGED <<stray, readers, pairFaults>>
    BY <1>4 DEF ClaimAnswered
  <2>4. QED
    BY <2>1, <2>2, <2>3, AgentMoves, PairTyped
<1>5. ASSUME NEW a \in Attempts, ClaimLost(a)
      PROVE  PairInv'
  <2>1. "polling" \in AgentStates /\ pairing[a].state # "idle" /\ pairing' = Moved(a, "polling")
    BY <1>5 DEF AgentStates, ClaimLost
  <2>2. ClaimCommits(a) \/ UNCHANGED <<challenge, devices>>
    BY <1>5 DEF ClaimLost
  <2>3. UNCHANGED readers /\ pairFaults' \in 0..MaxPairFaults
    BY <1>5, PairFaultCounts DEF ClaimLost
  <2>4. stray' \in [Attempts -> 0..MaxStray]
    <3>1. CASE UNCHANGED stray
      BY <3>1, PairTyped
    <3>2. CASE stray[a] < MaxStray /\ stray' = [stray EXCEPT ![a] = @ + 1]
      BY <3>2, PairTyped, PairingAssumption
    <3>3. QED
      BY <1>5, <3>1, <3>2 DEF ClaimLost
  <2>5. QED
    BY <2>1, <2>2, <2>3, <2>4, AgentMoves
<1>6. ASSUME NEW a \in Attempts, StrayCommits(a)
      PROVE  PairInv'
  BY <1>6, StrayKeeps
<1>7. ASSUME NEW a \in Attempts, AgentDies(a)
      PROVE  PairInv'
  <2>1. "gave up" \in AgentStates /\ pairing[a].state # "idle" /\ pairing' = Moved(a, "gave up")
    BY <1>7 DEF AgentStates, AgentDies
  <2>2. ClaimCommits(a) \/ UNCHANGED <<challenge, devices>>
    BY <1>7 DEF AgentDies
  <2>3. UNCHANGED <<stray, readers>> /\ pairFaults' \in 0..MaxPairFaults
    BY <1>7, PairFaultCounts DEF AgentDies
  <2>4. QED
    BY <2>1, <2>2, <2>3, AgentMoves, PairTyped
<1>8. ASSUME NEW a \in Attempts, ChallengeLapses(a)
      PROVE  PairInv'
  BY <1>8, LapseKeeps
<1>9. ASSUME NEW a \in Attempts, DeadlineReached(a)
      PROVE  PairInv'
  <2>1. pairing' = [pairing EXCEPT ![a].late = TRUE] /\ UNCHANGED <<challenge, stray, devices, readers, pairFaults>>
    BY <1>9 DEF DeadlineReached
  <2>2. pairing' \in [Attempts -> [state : AgentStates, late : BOOLEAN]]
    BY <2>1, PairTyped
  <2>3. \A b \in Attempts : pairing'[b].state = pairing[b].state
    BY <2>1, PairTyped
  <2>4. QED
    BY <2>1, <2>2, <2>3, ClaimKeeps, PairTyped
<1>10. ASSUME NEW a \in Attempts, NEW u \in PairUsers, ApproveCode(u, a)
       PROVE  PairInv'
  BY <1>10, ApproveKeeps
<1>11. QED
  BY <1>1, <1>2, <1>3, <1>4, <1>5, <1>6, <1>7, <1>8, <1>9, <1>10 DEF PairNext

\* For any number of users, attempts, codes, stray claims and faults, every
\* variable of the pairing has its type and no two challenges share a code:
\* createChallenge's look-up by code (convex/service/pairing.ts) is enough,
\* since a row never leaves the table.
THEOREM CodesAreUnique == PairSpec => []PairTypeOK
<1>1. PairInv => PairTypeOK
  BY DEF PairInv
<1>2. QED
  BY <1>1, PairInitInv, PairInductive, PTL DEF PairSpec

\* A row not claimed has no device, and a claimed one its approver's alone.
LEMMA LedgerIsSound == PairInv => PairedToItsReader
<1> SUFFICES ASSUME PairInv, NEW a \in Attempts
             PROVE  /\ DeviceCount(a) \subseteq readers[a]
                    /\ Cardinality(DeviceCount(a)) <= 1 /\ \A u \in PairUsers : devices[a][u] <= 1
                    /\ pairing[a].state = "paired" => DeviceCount(a) = {challenge[a].user}
  BY DEF PairedToItsReader
<1>1. PairLedger(a)
  BY DEF PairInv
<1>2. CASE challenge[a].status # "claimed"
  <2>1. DeviceCount(a) = {}
    BY <1>1, <1>2 DEF PairLedger, DeviceCount
  <2>2. QED
    BY <1>1, <1>2, <2>1, FS_EmptySet DEF PairLedger
<1>3. CASE challenge[a].status = "claimed"
  <2>1. DeviceCount(a) = {challenge[a].user} /\ challenge[a].user \in readers[a]
    BY <1>1, <1>3 DEF PairLedger, DeviceCount
  <2>2. Cardinality(DeviceCount(a)) = 1
    BY <2>1, FS_Singleton
  <2>3. QED
    BY <1>1, <2>1, <2>2 DEF PairLedger
<1>4. QED
  BY <1>2, <1>3

\* Whatever claims are lost, repeated or answered late, and whoever approves
\* what: a machine becomes at most one device, of a user who read the code on
\* that machine's own screen (service/pairing.ts).
THEOREM PairedToWhoReadTheCode == PairSpec => []PairedToItsReader
BY PairInitInv, PairInductive, LedgerIsSound, PTL DEF PairSpec

-----------------------------------------------------------------------------
(* What lets an AI client call.                                            *)

\* A code is presented only once it is issued, and only when it leaves the
\* table; what a token was minted for is such a code of its own, presented
\* right, and marks its client used.
CodesOK == \A k \in Codes : code[k].row # "deleted" => code[k].first = "none"

KeyLedger(i) ==
  /\ ~Token(i) => keys[i].code = 0
  /\ Token(i) =>
       /\ keys[i].code \in Codes
       /\ code[keys[i].code].row = "deleted" /\ code[keys[i].code].first = "right"
       /\ Registered(keys[i].client) /\ client[keys[i].client].used

OneKeyPerCode == \A i, j \in DOMAIN keys : Token(i) /\ keys[j].code = keys[i].code => j = i

ApiInv ==
  /\ ApiTypeOK /\ CodesOK
  /\ \A i \in DOMAIN keys : KeyLedger(i)
  /\ OneKeyPerCode
  /\ OneLiveGrant

LEMMA ApiTyped ==
  ASSUME ApiInv
  PROVE  /\ client \in [ApiClients -> ClientRow]
         /\ code \in [Codes -> CodeRow]
         /\ keys \in Seq(KeyRow) /\ Len(keys) \in Nat /\ Len(keys) <= MaxKeys
         /\ DOMAIN keys = 1..Len(keys)
         /\ \A i \in DOMAIN keys : keys[i] \in KeyRow
BY DEF ApiInv, ApiTypeOK

LEMMA ApiInitInv == ApiInit => ApiInv
<1> SUFFICES ASSUME ApiInit
             PROVE  ApiInv
  OBVIOUS
<1>1. keys = <<>> /\ DOMAIN keys = {} /\ Len(keys) = 0 /\ keys \in Seq(KeyRow)
  BY DEF ApiInit
<1>2. client \in [ApiClients -> ClientRow]
  BY DEF ApiInit, ClientRow
<1>3. code \in [Codes -> CodeRow] /\ CodesOK
  <2>1. 1 \in ApiClients /\ (CHOOSE u \in ApiUsers : TRUE) \in ApiUsers
    BY ApiAccessAssumption DEF ApiClients
  <2>2. QED
    BY <2>1 DEF ApiInit, CodeRow, CodesOK
<1>4. QED
  BY <1>1, <1>2, <1>3, ApiAccessAssumption DEF ApiInv, ApiTypeOK, OneKeyPerCode, OneLiveGrant

\* The table of keys is only appended to, and of its rows only the status
\* changes, to revoked.
KeysKept ==
  /\ keys' \in Seq(KeyRow) /\ Len(keys') <= MaxKeys
  /\ DOMAIN keys' = 1..Len(keys') /\ Len(keys') \in Nat
  /\ DOMAIN keys \subseteq DOMAIN keys'
  /\ \A i \in DOMAIN keys :
       /\ keys'[i].user = keys[i].user
       /\ keys'[i].client = keys[i].client
       /\ keys'[i].code = keys[i].code
       /\ keys'[i].active => keys[i].active

\* Between two rows nothing is ever inserted.
LEMMA BetweenIsFixed ==
  ASSUME ApiInv, KeysKept, NEW i \in DOMAIN keys, NEW j \in Nat, j <= Len(keys) + 1
  PROVE  {m \in KeysOf(keys[i].user)' : i < m /\ m < j} = {m \in KeysOf(keys[i].user) : i < m /\ m < j}
<1>1. \A m \in Nat : m < j => (m \in DOMAIN keys' <=> m \in DOMAIN keys)
  BY ApiTyped DEF KeysKept
<1>2. \A m \in DOMAIN keys : keys'[m].user = keys[m].user
  BY DEF KeysKept
<1>3. DOMAIN keys \subseteq Nat /\ DOMAIN keys' \subseteq Nat
  BY ApiTyped DEF KeysKept
<1>4. \A m : m \in KeysOf(keys[i].user)' /\ m < j <=> m \in KeysOf(keys[i].user) /\ m < j
  BY <1>1, <1>2, <1>3 DEF KeysOf
<1>5. QED
  BY <1>4

\* The limits of one live grant outlive every change to rows that are there.
LEMMA OldRowsKeepTheirGrants ==
  ASSUME ApiInv, KeysKept, NEW i \in DOMAIN keys, NEW j \in DOMAIN keys,
         i < j, Token(i)', keys'[i].active, keys'[i].client = keys'[j].client, keys'[i].user = keys'[j].user
  PROVE  Cardinality({m \in KeysOf(keys[i].user)' : i < m /\ m < j}) >= MaxScanned
<1>1. Token(i) /\ keys[i].active /\ keys[i].client = keys[j].client /\ keys[i].user = keys[j].user
  BY DEF KeysKept, Token
<1>2. Cardinality({m \in KeysOf(keys[i].user) : i < m /\ m < j}) >= MaxScanned
  BY <1>1 DEF ApiInv, OneLiveGrant
<1>3. j \in Nat /\ j <= Len(keys) + 1
  BY ApiTyped
<1>4. QED
  BY <1>2, <1>3, BetweenIsFixed

\* A step that leaves the table's length alone keeps what it promises.
LEMMA SameLengthKeepsGrants ==
  ASSUME ApiInv, KeysKept, DOMAIN keys' = DOMAIN keys
  PROVE  OneLiveGrant' /\ OneKeyPerCode'
<1>1. ASSUME NEW i \in DOMAIN keys, NEW j \in DOMAIN keys,
             i < j, Token(i)', keys'[i].active, keys'[i].client = keys'[j].client, keys'[i].user = keys'[j].user
      PROVE  Cardinality({m \in KeysOf(keys[i].user)' : i < m /\ m < j}) >= MaxScanned
  BY <1>1, OldRowsKeepTheirGrants
<1>2. OneLiveGrant'
  BY <1>1 DEF OneLiveGrant
<1>3. OneKeyPerCode'
  BY DEF ApiInv, OneKeyPerCode, KeysKept, Token
<1>4. QED
  BY <1>2, <1>3

\* An insertion: the rows there are, some perhaps revoked, and one more.
LEMMA InsertKeepsKeys ==
  ASSUME ApiInv, NEW ks, NEW r \in KeyRow, Len(keys) < MaxKeys,
         ks \in Seq(KeyRow), Len(ks) = Len(keys), keys' = Append(ks, r),
         \A i \in DOMAIN keys : /\ ks[i].user = keys[i].user /\ ks[i].client = keys[i].client
                                /\ ks[i].code = keys[i].code /\ (ks[i].active => keys[i].active)
  PROVE  /\ KeysKept
         /\ DOMAIN keys' = 1..(Len(keys) + 1) /\ keys'[Len(keys) + 1] = r
         /\ \A i \in DOMAIN keys : keys'[i] = ks[i]
<1>1. /\ keys' \in Seq(KeyRow) /\ Len(keys') = Len(keys) + 1 /\ DOMAIN keys' = 1..(Len(keys) + 1)
      /\ keys'[Len(keys) + 1] = r /\ \A i \in 1..Len(keys) : keys'[i] = ks[i]
  BY ApiTyped
<1>2. Len(keys) \in Nat /\ MaxKeys \in Nat /\ DOMAIN keys = 1..Len(keys)
  BY ApiTyped, ApiAccessAssumption
<1>3. Len(keys') <= MaxKeys /\ Len(keys') \in Nat
  BY <1>1, <1>2
<1>4. DOMAIN keys \subseteq DOMAIN keys'
  BY <1>1, <1>2
<1>5. QED
  BY <1>1, <1>2, <1>3, <1>4 DEF KeysKept

\* What one more row must be for the promises to hold: what is active of its
\* client's and user's before it is out of the scan's reach, and its code new.
LEMMA InsertKeepsGrants ==
  ASSUME ApiInv, KeysKept, NEW n, n = Len(keys) + 1, DOMAIN keys' = 1..n,
         \A i \in DOMAIN keys :
           Token(i)' /\ keys'[i].active /\ keys'[i].client = keys'[n].client /\ keys'[i].user = keys'[n].user
             => Cardinality({m \in KeysOf(keys[i].user) : m > i}) >= MaxScanned,
         \A i \in DOMAIN keys : Token(i) \/ keys'[n].client # Manual => keys[i].code # keys'[n].code
  PROVE  OneLiveGrant' /\ OneKeyPerCode'
<1>1. n \in Nat /\ DOMAIN keys = 1..(n - 1) /\ DOMAIN keys' = DOMAIN keys \cup {n}
  BY ApiTyped
<1>2. ASSUME NEW i \in DOMAIN keys', NEW j \in DOMAIN keys',
             i < j, Token(i)', keys'[i].active, keys'[i].client = keys'[j].client, keys'[i].user = keys'[j].user
      PROVE  Cardinality({m \in KeysOf(keys[i].user)' : i < m /\ m < j}) >= MaxScanned
  <2>1. i \in DOMAIN keys
    BY <1>1, <1>2
  <2>2. CASE j \in DOMAIN keys
    BY <1>2, <2>1, <2>2, OldRowsKeepTheirGrants
  <2>3. CASE j = n
    <3>1. {m \in KeysOf(keys[i].user)' : i < m /\ m < n} = {m \in KeysOf(keys[i].user) : i < m /\ m < n}
      BY <1>1, <2>1, BetweenIsFixed
    <3>2. {m \in KeysOf(keys[i].user) : i < m /\ m < n} = {m \in KeysOf(keys[i].user) : m > i}
      BY <1>1 DEF KeysOf
    <3>3. QED
      BY <1>2, <2>1, <2>3, <3>1, <3>2
  <2>4. QED
    BY <1>1, <2>2, <2>3
<1>3. OneLiveGrant'
  BY <1>2 DEF OneLiveGrant
<1>4. ASSUME NEW i \in DOMAIN keys', NEW j \in DOMAIN keys', Token(i)', keys'[j].code = keys'[i].code
      PROVE  j = i
  <2>1. CASE i \in DOMAIN keys /\ j \in DOMAIN keys
    BY <1>4, <2>1 DEF ApiInv, OneKeyPerCode, KeysKept, Token
  <2>2. CASE i = n /\ j \in DOMAIN keys
    BY <1>4, <2>2 DEF KeysKept, Token
  <2>3. CASE i \in DOMAIN keys /\ j = n
    BY <1>4, <2>3 DEF KeysKept, Token
  <2>4. QED
    BY <1>1, <2>1, <2>2, <2>3
<1>5. OneKeyPerCode'
  BY <1>4 DEF OneKeyPerCode
<1>6. QED
  BY <1>3, <1>5

\* What a row says of its code and client stays true of a row that is kept,
\* while the code stays deleted and the client in use.
LEMMA LedgerKept ==
  ASSUME ApiInv, KeysKept, NEW i \in DOMAIN keys,
         \A k \in Codes : code[k].row = "deleted" => code'[k].row = "deleted" /\ code'[k].first = code[k].first,
         \A c \in ApiClients : Registered(c) /\ client[c].used => client'[c].row = "registered" /\ client'[c].used
  PROVE  KeyLedger(i)'
<1>1. keys'[i].client = keys[i].client /\ keys'[i].code = keys[i].code
  BY DEF KeysKept
<1>2. KeyLedger(i) /\ keys[i] \in KeyRow
  BY ApiTyped DEF ApiInv
<1>3. CASE ~Token(i)
  BY <1>1, <1>2, <1>3 DEF KeyLedger, Token
<1>4. CASE Token(i)
  <2>1. keys[i].client \in ApiClients
    BY <1>2, <1>4 DEF KeyRow, Token
  <2>2. QED
    BY <1>1, <1>2, <1>4, <2>1 DEF KeyLedger, Token, Registered
<1>5. QED
  BY <1>3, <1>4

\* A step that inserts no key keeps the invariant when codes and clients are
\* only used up.
LEMMA QuietStep ==
  ASSUME ApiInv, KeysKept, DOMAIN keys' = DOMAIN keys,
         client' \in [ApiClients -> ClientRow], code' \in [Codes -> CodeRow], CodesOK',
         \A k \in Codes : code[k].row = "deleted" => code'[k].row = "deleted" /\ code'[k].first = code[k].first,
         \A c \in ApiClients : Registered(c) /\ client[c].used => client'[c].row = "registered" /\ client'[c].used
  PROVE  ApiInv'
<1>1. \A i \in DOMAIN keys' : KeyLedger(i)'
  BY LedgerKept
<1>2. ApiTypeOK'
  BY DEF ApiTypeOK, KeysKept
<1>3. QED
  BY <1>1, <1>2, SameLengthKeepsGrants DEF ApiInv

LEMMA KeysUntouched ==
  ASSUME ApiInv, UNCHANGED keys
  PROVE  KeysKept /\ DOMAIN keys' = DOMAIN keys
BY ApiTyped DEF KeysKept

LEMMA RegisterClientKeeps ==
  ASSUME ApiInv, NEW c \in ApiClients, RegisterClient(c)
  PROVE  ApiInv'
<1>1. client' = [client EXCEPT ![c].row = "registered"] /\ UNCHANGED <<code, keys>> /\ client[c].row = "unregistered"
  BY DEF RegisterClient
<1>2. /\ client' \in [ApiClients -> ClientRow]
      /\ \A d \in ApiClients : Registered(d) => client'[d] = client[d]
  BY <1>1, ApiTyped DEF ClientRow, Registered
<1>3. CodesOK' /\ code' \in [Codes -> CodeRow]
  BY <1>1, ApiTyped DEF ApiInv, CodesOK
<1>4. QED
  BY <1>1, <1>2, <1>3, KeysUntouched, QuietStep DEF Registered

LEMMA ClientIdlesKeeps ==
  ASSUME ApiInv, NEW c \in ApiClients, ClientIdles(c)
  PROVE  ApiInv'
<1>1. client' = [client EXCEPT ![c].idle = TRUE] /\ UNCHANGED <<code, keys>>
  BY DEF ClientIdles
<1>2. /\ client' \in [ApiClients -> ClientRow]
      /\ \A d \in ApiClients : client'[d].row = client[d].row /\ client'[d].used = client[d].used
  BY <1>1, ApiTyped DEF ClientRow
<1>3. CodesOK' /\ code' \in [Codes -> CodeRow]
  BY <1>1, ApiTyped DEF ApiInv, CodesOK
<1>4. QED
  BY <1>1, <1>2, <1>3, KeysUntouched, QuietStep DEF Registered

LEMMA ApproveClientKeeps ==
  ASSUME ApiInv, NEW u \in ApiUsers, NEW c \in ApiClients, Approve(u, c)
  PROVE  ApiInv'
<1>1. PICK k \in Codes : /\ code[k].row = "unissued"
                         /\ code' = [code EXCEPT ![k].row = "live", ![k].client = c, ![k].user = u]
  BY DEF Approve
<1> DEFINE row == [code[k] EXCEPT !.row = "live", !.client = c, !.user = u]
<1>2. row \in CodeRow /\ row.row = "live" /\ row.first = code[k].first
  BY ApiTyped DEF CodeRow
<1>3. code' = [code EXCEPT ![k] = row]
  BY <1>1, ApiTyped DEF CodeRow
<1>4. code[k].first = "none"
  BY <1>1 DEF ApiInv, CodesOK
<1> HIDE DEF row
<1>5. /\ code' \in [Codes -> CodeRow] /\ code'[k] = row
      /\ \A j \in Codes : j # k => code'[j] = code[j]
  BY <1>2, <1>3, ApiTyped
<1>6. CodesOK'
  BY <1>2, <1>4, <1>5 DEF ApiInv, CodesOK
<1>7. \A j \in Codes : code[j].row = "deleted" => code'[j] = code[j]
  BY <1>1, <1>5
<1>8. UNCHANGED <<client, keys>>
  BY DEF Approve
<1>9. QED
  BY <1>5, <1>6, <1>7, <1>8, KeysUntouched, QuietStep, ApiTyped DEF Registered

LEMMA CodeLapsesKeeps ==
  ASSUME ApiInv, NEW k \in Codes, CodeLapses(k)
  PROVE  ApiInv'
<1>1. code' = [code EXCEPT ![k].lapsed = TRUE] /\ UNCHANGED <<client, keys>>
  BY DEF CodeLapses
<1>2. /\ code' \in [Codes -> CodeRow]
      /\ \A j \in Codes : code'[j].row = code[j].row /\ code'[j].first = code[j].first
  BY <1>1, ApiTyped DEF CodeRow
<1>3. CodesOK'
  BY <1>2 DEF ApiInv, CodesOK
<1>4. QED
  BY <1>1, <1>2, <1>3, KeysUntouched, QuietStep, ApiTyped DEF Registered

LEMMA RevokeKeyKeeps ==
  ASSUME ApiInv, NEW u \in ApiUsers, NEW i \in DOMAIN keys, RevokeKey(u, i)
  PROVE  ApiInv'
<1>1. keys' = [keys EXCEPT ![i].active = FALSE] /\ UNCHANGED <<client, code>>
  BY DEF RevokeKey
<1> DEFINE row == [keys[i] EXCEPT !.active = FALSE]
<1>2. /\ row \in KeyRow /\ row.user = keys[i].user /\ row.client = keys[i].client
      /\ row.code = keys[i].code /\ ~row.active
  BY ApiTyped DEF KeyRow
<1>3. keys' = [keys EXCEPT ![i] = row]
  BY <1>1, ApiTyped DEF KeyRow
<1> HIDE DEF row
<1>4. /\ keys' \in Seq(KeyRow) /\ Len(keys') = Len(keys) /\ DOMAIN keys' = DOMAIN keys
      /\ \A j \in DOMAIN keys : keys'[j] = IF j = i THEN row ELSE keys[j]
  BY <1>2, <1>3, ApiTyped
<1>5. KeysKept
  BY <1>2, <1>4, ApiTyped DEF KeysKept
<1>6. CodesOK' /\ code' \in [Codes -> CodeRow] /\ client' \in [ApiClients -> ClientRow]
  BY <1>1, ApiTyped DEF ApiInv, CodesOK
<1>7. QED
  BY <1>1, <1>4, <1>5, <1>6, QuietStep DEF Registered

\* The sweep takes no client that has been used.
LEMMA SweepKeeps ==
  ASSUME ApiInv, Sweep
  PROVE  ApiInv'
<1>1. PICK codes, stale :
        /\ \A k \in codes : code[k].row = "live"
        /\ \A c \in stale : Unused(c)
        /\ code' = [k \in Codes |-> IF k \in codes THEN [code[k] EXCEPT !.row = "deleted"] ELSE code[k]]
        /\ client' = [c \in ApiClients |-> IF c \in stale THEN [client[c] EXCEPT !.row = "swept"] ELSE client[c]]
  <2> DEFINE old  == Earliest({k \in Codes : code[k].row = "live" /\ code[k].lapsed}, SweepBatch)
             idle == {c \in Earliest({c \in ApiClients : Registered(c) /\ client[c].idle}, SweepBatch) : Unused(c)}
  <2>1. /\ code' = [k \in Codes |-> IF k \in old THEN [code[k] EXCEPT !.row = "deleted"] ELSE code[k]]
        /\ client' = [c \in ApiClients |-> IF c \in idle THEN [client[c] EXCEPT !.row = "swept"] ELSE client[c]]
    BY Zenon DEF Sweep
  <2>2. old \subseteq {k \in Codes : code[k].row = "live" /\ code[k].lapsed}
    BY Zenon DEF Earliest
  <2>3. \A c \in idle : Unused(c)
    OBVIOUS
  <2> HIDE DEF old, idle
  <2>4. \A k \in old : code[k].row = "live"
    BY <2>2
  <2>5. QED
    BY <2>1, <2>3, <2>4
<1>2. /\ code' \in [Codes -> CodeRow]
      /\ \A k \in Codes : IF k \in codes THEN code'[k].row = "deleted" /\ code[k].row = "live"
                                         ELSE code'[k] = code[k]
  BY <1>1, ApiTyped DEF CodeRow
<1>3. /\ client' \in [ApiClients -> ClientRow]
      /\ \A c \in ApiClients : client[c].used => client'[c] = client[c]
  BY <1>1, ApiTyped DEF ClientRow, Unused
<1>4. CodesOK'
  BY <1>2 DEF ApiInv, CodesOK
<1>5. UNCHANGED keys
  BY DEF Sweep
<1>6. QED
  BY <1>2, <1>3, <1>4, <1>5, KeysUntouched, QuietStep DEF Registered

\* How many rows of a user's are newer than one of them is a number.
LEMMA NewerRowsAreCounted ==
  ASSUME ApiInv, NEW u, NEW i
  PROVE  Cardinality({m \in KeysOf(u) : m > i}) \in Nat
<1>1. {m \in KeysOf(u) : m > i} \subseteq 1..Len(keys) /\ Len(keys) \in Nat
  BY ApiTyped DEF KeysOf
<1>2. IsFiniteSet(1..Len(keys))
  BY <1>1, FS_Interval
<1>3. QED
  BY <1>1, <1>2, FS_Subset, FS_CardinalityType

LEMMA IssueKeyKeeps ==
  ASSUME ApiInv, NEW u \in ApiUsers, IssueKey(u)
  PROVE  ApiInv'
<1> DEFINE r == [user |-> u, client |-> Manual, active |-> TRUE, code |-> 0]
           n == Len(keys) + 1
<1>1. r \in KeyRow /\ r.client = Manual /\ r.code = 0
  BY DEF KeyRow
<1>2. Len(keys) < MaxKeys /\ keys' = Append(keys, r) /\ UNCHANGED <<client, code>>
  BY DEF IssueKey
<1> HIDE DEF r
<1>3. KeysKept /\ DOMAIN keys' = 1..n /\ keys'[n] = r
  BY <1>1, <1>2, InsertKeepsKeys, ApiTyped
<1>4. DOMAIN keys' = DOMAIN keys \cup {n} /\ n \notin DOMAIN keys
  BY <1>3, ApiTyped
<1>5. ASSUME NEW i \in DOMAIN keys, Token(i)'
      PROVE  keys'[i].client # keys'[n].client
  BY <1>1, <1>3, <1>5 DEF Token
<1>6. \A i \in DOMAIN keys : Token(i) => keys[i].code # keys'[n].code
  BY <1>1, <1>3 DEF ApiInv, KeyLedger, Codes
<1>7. OneLiveGrant' /\ OneKeyPerCode'
  BY <1>1, <1>3, <1>5, <1>6, InsertKeepsGrants
<1>8. ASSUME NEW i \in DOMAIN keys'
      PROVE  KeyLedger(i)'
  <2>1. CASE i \in DOMAIN keys
    BY <1>2, <1>3, <2>1, LedgerKept DEF Registered
  <2>2. CASE i = n
    BY <1>1, <1>3, <2>2 DEF KeyLedger, Token
  <2>3. QED
    BY <1>4, <2>1, <2>2
<1>9. ApiTypeOK' /\ CodesOK'
  BY <1>2, <1>3, ApiTyped DEF ApiTypeOK, ApiInv, CodesOK, KeysKept
<1>10. QED
  BY <1>7, <1>8, <1>9 DEF ApiInv

\* Presenting a code spends it, whatever the answer.
LEMMA PresentedRow ==
  ASSUME ApiInv, NEW k \in Codes, NEW how \in {"right", "wrong"}, NEW accepted,
         code[k].row = "live", code' = Presented(k, how, accepted)
  PROVE  /\ code' \in [Codes -> CodeRow] /\ CodesOK'
         /\ code'[k].row = "deleted" /\ code'[k].first = how
         /\ \A j \in Codes : j # k => code'[j] = code[j]
<1> DEFINE row == [code[k] EXCEPT !.row = "deleted", !.first = how]
<1>1. code[k].first = "none"
  BY DEF ApiInv, CodesOK
<1>2. row \in CodeRow /\ row.row = "deleted" /\ row.first = how
  BY ApiTyped DEF CodeRow
<1>3. code' = [code EXCEPT ![k] = row]
  BY <1>1, ApiTyped DEF Presented, CodeRow
<1> HIDE DEF row
<1>4. /\ code' \in [Codes -> CodeRow] /\ code'[k] = row
      /\ \A j \in Codes : j # k => code'[j] = code[j]
  BY <1>2, <1>3, ApiTyped
<1>5. CodesOK'
  BY <1>2, <1>4 DEF ApiInv, CodesOK
<1>6. QED
  BY <1>2, <1>4, <1>5

\* A refused presentation mints nothing.
LEMMA RefusalKeeps ==
  ASSUME ApiInv, NEW k \in Codes, NEW how \in {"right", "wrong"}, code[k].row = "live",
         code' = Presented(k, how, FALSE), UNCHANGED <<client, keys>>
  PROVE  ApiInv'
<1>1. \A j \in Codes : code[j].row = "deleted" => code'[j].row = "deleted" /\ code'[j].first = code[j].first
  BY PresentedRow
<1>2. QED
  BY <1>1, PresentedRow, KeysUntouched, QuietStep, ApiTyped DEF Registered

\* The table with the token: prior grants revoked, and the new row.
LEMMA TokenRows ==
  ASSUME ApiInv, NEW k \in Codes, Len(keys) < MaxKeys, keys' = WithToken(k)
  PROVE  /\ KeysKept /\ DOMAIN keys' = 1..(Len(keys) + 1)
         /\ keys'[Len(keys) + 1] = [user |-> code[k].user, client |-> code[k].client, active |-> TRUE, code |-> k]
         /\ \A i \in DOMAIN keys : keys'[i].active => keys[i].active /\ i \notin PriorGrants(code[k].user, code[k].client)
<1> DEFINE prior == PriorGrants(code[k].user, code[k].client)
           r == [user |-> code[k].user, client |-> code[k].client, active |-> TRUE, code |-> k]
           ks == [i \in DOMAIN keys |-> IF i \in prior THEN [keys[i] EXCEPT !.active = FALSE] ELSE keys[i]]
<1>1. r \in KeyRow
  BY ApiTyped DEF KeyRow, CodeRow
<1>2. keys' = Append(ks, r)
  BY DEF WithToken
<1> HIDE DEF prior, r
<1>3. \A i \in DOMAIN keys :
        /\ ks[i] \in KeyRow
        /\ ks[i].user = keys[i].user /\ ks[i].client = keys[i].client /\ ks[i].code = keys[i].code
        /\ ks[i].active => keys[i].active /\ i \notin prior
  BY ApiTyped DEF KeyRow
<1>4. DOMAIN ks = 1..Len(keys) /\ Len(keys) \in Nat
  BY ApiTyped
<1> HIDE DEF ks
<1>5. ks \in Seq(KeyRow) /\ Len(ks) = Len(keys)
  <2>1. ks \in [1..Len(keys) -> KeyRow]
    BY <1>3, <1>4, ApiTyped DEF ks
  <2>2. QED
    BY <1>4, <2>1
<1>6. /\ KeysKept /\ DOMAIN keys' = 1..(Len(keys) + 1) /\ keys'[Len(keys) + 1] = r
      /\ \A i \in DOMAIN keys : keys'[i] = ks[i]
  BY <1>1, <1>2, <1>3, <1>5, InsertKeepsKeys
<1>7. QED
  BY <1>3, <1>6 DEF prior, r

\* The exchange: every live token the scan can see is revoked with it.
LEMMA ExchangeKeeps ==
  ASSUME ApiInv, NEW k \in Codes, code[k].row = "live", Registered(code[k].client),
         code' = Presented(k, "right", TRUE), Len(keys) < MaxKeys,
         client' = [client EXCEPT ![code[k].client].used = TRUE], keys' = WithToken(k)
  PROVE  ApiInv'
<1> DEFINE u == code[k].user
           c == code[k].client
           n == Len(keys) + 1
<1>1. u \in ApiUsers /\ c \in ApiClients /\ c # Manual
  BY ApiTyped DEF CodeRow, ApiClients, Manual
<1>2. /\ code' \in [Codes -> CodeRow] /\ CodesOK'
      /\ code'[k].row = "deleted" /\ code'[k].first = "right"
      /\ \A j \in Codes : j # k => code'[j] = code[j]
  BY PresentedRow
<1>3. /\ client' \in [ApiClients -> ClientRow]
      /\ client'[c].used
      /\ \A d \in ApiClients : client'[d].row = client[d].row /\ (client[d].used => client'[d].used)
  BY <1>1, ApiTyped DEF ClientRow
<1>4. /\ KeysKept /\ DOMAIN keys' = 1..n
      /\ keys'[n].user = u /\ keys'[n].client = c /\ keys'[n].code = k
      /\ \A i \in DOMAIN keys : keys'[i].active => keys[i].active /\ i \notin PriorGrants(u, c)
  <2> DEFINE rows == [user |-> u, client |-> c, active |-> TRUE, code |-> k]
  <2>1. KeysKept /\ DOMAIN keys' = 1..n /\ keys'[n] = rows
    BY TokenRows
  <2>2. rows.user = u /\ rows.client = c /\ rows.code = k
    OBVIOUS
  <2>3. \A i \in DOMAIN keys : keys'[i].active => keys[i].active /\ i \notin PriorGrants(u, c)
    BY TokenRows
  <2> HIDE DEF rows
  <2>4. QED
    BY <2>1, <2>2, <2>3
<1> HIDE DEF u, c
<1>5. DOMAIN keys' = DOMAIN keys \cup {n} /\ n \notin DOMAIN keys
  BY <1>4, ApiTyped
<1>6. ASSUME NEW i \in DOMAIN keys, Token(i)', keys'[i].active, keys'[i].client = keys'[n].client,
             keys'[i].user = keys'[n].user
      PROVE  Cardinality({m \in KeysOf(keys[i].user) : m > i}) >= MaxScanned
  <2>1. keys[i].user = u /\ keys[i].client = c /\ keys[i].active /\ i \notin PriorGrants(u, c)
    BY <1>4, <1>6 DEF KeysKept
  <2>2. i \in KeysOf(u) /\ i \notin Latest(KeysOf(u), MaxScanned)
    BY <2>1 DEF PriorGrants, KeysOf
  <2>3. ~(Cardinality({m \in KeysOf(u) : m > i}) < MaxScanned)
    BY <2>2 DEF Latest
  <2>4. QED
    <3>1. KeysOf(keys[i].user) = KeysOf(u)
      BY <2>1
    <3>2. Cardinality({m \in KeysOf(u) : m > i}) \in Nat
      BY NewerRowsAreCounted
    <3>3. MaxScanned \in Nat
      BY ApiAccessAssumption
    <3>4. Cardinality({m \in KeysOf(u) : m > i}) >= MaxScanned
      BY <2>3, <3>2, <3>3
    <3>5. QED
      BY <3>1, <3>4
<1>7. \A i \in DOMAIN keys : keys[i].code # k
  <2>1. \A i \in DOMAIN keys : KeyLedger(i) /\ 0 \notin Codes
    BY DEF ApiInv, Codes
  <2>2. QED
    BY <2>1 DEF KeyLedger
<1>8. OneLiveGrant' /\ OneKeyPerCode'
  BY <1>4, <1>6, <1>7, InsertKeepsGrants
<1>9. ASSUME NEW i \in DOMAIN keys'
      PROVE  KeyLedger(i)'
  <2>1. CASE i \in DOMAIN keys
    <3>1. \A j \in Codes : code[j].row = "deleted" => code'[j].row = "deleted" /\ code'[j].first = code[j].first
      BY <1>2
    <3>2. QED
      BY <1>3, <1>4, <2>1, <3>1, LedgerKept DEF Registered
  <2>2. CASE i = n
    BY <1>1, <1>2, <1>3, <1>4, <2>2 DEF KeyLedger, Token, Registered, c
  <2>3. QED
    BY <1>5, <2>1, <2>2
<1>10. ApiTypeOK'
  BY <1>2, <1>3, <1>4 DEF ApiTypeOK, KeysKept
<1>11. QED
  BY <1>2, <1>8, <1>9, <1>10 DEF ApiInv

LEMMA RedeemKeeps ==
  ASSUME ApiInv, NEW k \in Codes, NEW how \in {"right", "wrong"}, Redeem(k, how)
  PROVE  ApiInv'
<1> DEFINE accepted == how = "right" /\ ~code[k].lapsed /\ Registered(code[k].client)
<1>1. CASE accepted
  <2>1. /\ code[k].row = "live" /\ code' = Presented(k, "right", TRUE) /\ Len(keys) < MaxKeys
        /\ client' = [client EXCEPT ![code[k].client].used = TRUE] /\ keys' = WithToken(k)
    BY <1>1 DEF Redeem, Presented
  <2>2. QED
    BY <1>1, <2>1, ExchangeKeeps
<1>2. CASE ~accepted
  <2>1. code[k].row = "live" /\ code' = Presented(k, how, FALSE) /\ UNCHANGED <<client, keys>>
    BY <1>2 DEF Redeem, Presented
  <2>2. QED
    BY <2>1, RefusalKeeps
<1>3. QED
  BY <1>1, <1>2

\* The invariant is inductive.
LEMMA ApiInductive == ApiInv /\ [ApiNext]_apiVars => ApiInv'
<1> SUFFICES ASSUME ApiInv, [ApiNext]_apiVars
             PROVE  ApiInv'
  OBVIOUS
<1>1. CASE UNCHANGED apiVars
  <2>1. CodesOK' /\ UNCHANGED <<client, code, keys>>
    BY <1>1 DEF apiVars, ApiInv, CodesOK
  <2>2. QED
    BY <2>1, KeysUntouched, QuietStep, ApiTyped DEF Registered
<1>2. CASE ApiNext
  BY <1>2, RegisterClientKeeps, ClientIdlesKeeps, ApproveClientKeeps, CodeLapsesKeeps, RedeemKeeps, IssueKeyKeeps,
     RevokeKeyKeeps, SweepKeeps DEF ApiNext
<1>3. QED
  BY <1>1, <1>2

\* For any number of users, clients, codes and keys and any bounds of the scan,
\* the cap and the sweep, every variable has its type.
THEOREM AccessTyped == ApiSpec => []ApiTypeOK
<1>1. ApiInv => ApiTypeOK
  BY DEF ApiInv
<1>2. QED
  BY <1>1, ApiInitInv, ApiInductive, PTL DEF ApiSpec

LEMMA LedgerIsWorth == ApiInv => GrantsSound
BY ApiTyped DEF ApiInv, KeyLedger, OneKeyPerCode, GrantsSound, FirstTryOnly, UsedClientsStay

\* However registrations, consents, presentations by anybody, hand-issued keys,
\* revocations, lapses and sweeps interleave: one live token per user and client
\* as far as the scan of MAX_OAUTH_TOKENS_SCANNED rows reaches, each from the
\* first and right presentation of a code of its own, and its client is never
\* swept away (service/oauth.ts, maintenance/oauth_sweep.ts).
THEOREM GrantsAreSound == ApiSpec => []GrantsSound
BY ApiInitInv, ApiInductive, LedgerIsWorth, PTL DEF ApiSpec

-----------------------------------------------------------------------------
(* Connecting a connector.                                                 *)

\* The flows whose state has been in the browser's cookie.
Left(f) == flow[f].state \in {"consent", "over"}

\* A code was sent by a request that carried its own flow, and while the request
\* is answered that flow leaves the cookie for good: so whatever is sent later
\* carries another.
VisitLedger(v) ==
  /\ visit[v].state = "idle" => visit[v].after = {} /\ ~visit[v].spent
  /\ visit[v].state # "idle" => visit[v].url # 0
  /\ visit[v].flow # 0 => Left(visit[v].flow)
  /\ visit[v].url # 0 => Left(visit[v].url)
  /\ visit[v].spent => visit[v].url = visit[v].flow /\ visit[v].flow # 0 /\ visit[v].user # NoViewer
  /\ visit[v].state \in {"exchanging", "storing"} => visit[v].spent
  /\ visit[v].state = "done" /\ visit[v].spent => cookie # visit[v].url
  /\ \A w \in visit[v].after : /\ visit[w].state = "done"
                               /\ visit[w].spent => visit[v].flow # visit[w].url

FlowInv ==
  /\ FlowTypeOK
  /\ \A f \in Flows : flow[f].state = "starting" => flow[f].user # NoViewer
  /\ cookie # 0 => Left(cookie)
  /\ \A u \in Viewers, t \in FlowTargets : connected[u][t] # 0 => flow[connected[u][t]].state # "idle"
  /\ \A v \in Visits : VisitLedger(v)

LEMMA FlowTyped ==
  ASSUME FlowInv
  PROVE  /\ viewer \in Viewers \cup {NoViewer}
         /\ cookie \in 0..MaxFlows
         /\ flow \in [Flows -> FlowRow]
         /\ visit \in [Visits -> VisitRow]
         /\ connected \in [Viewers -> [FlowTargets -> 0..MaxFlows]]
BY DEF FlowInv, FlowTypeOK

LEMMA FlowNumbers == 0..MaxFlows = Flows \cup {0} /\ 0 \notin Flows /\ MaxFlows \in Nat
BY ConnectFlowAssumption DEF Flows

LEMMA FlowInitInv == FlowInit => FlowInv
<1> SUFFICES ASSUME FlowInit
             PROVE  FlowInv
  OBVIOUS
<1>1. viewer \in Viewers \cup {NoViewer} /\ cookie = 0 /\ connected \in [Viewers -> [FlowTargets -> 0..MaxFlows]]
  BY FlowNumbers DEF FlowInit
<1>2. flow \in [Flows -> FlowRow] /\ \A f \in Flows : flow[f].state = "idle"
  <2>1. (CHOOSE t \in FlowTargets : TRUE) \in FlowTargets
    BY ConnectFlowAssumption
  <2>2. QED
    BY <2>1 DEF FlowInit, FlowRow
<1>3. /\ visit \in [Visits -> VisitRow]
      /\ \A v \in Visits : /\ visit[v].state = "idle" /\ visit[v].flow = 0 /\ visit[v].url = 0
                           /\ visit[v].after = {} /\ ~visit[v].spent
  BY FlowNumbers DEF FlowInit, VisitRow
<1>4. \A u \in Viewers, t \in FlowTargets : connected[u][t] = 0
  BY DEF FlowInit
<1>5. QED
  BY <1>1, <1>2, <1>3, <1>4, FlowNumbers DEF FlowInv, FlowTypeOK, VisitLedger

\* A flow that has started keeps its connector, and never starts again.
FlowsKept ==
  /\ flow' \in [Flows -> FlowRow]
  /\ \A f \in Flows : flow[f].state # "idle" => flow'[f].state # "idle" /\ flow'[f].target = flow[f].target
  /\ \A f \in Flows : Left(f) => flow'[f].state \in {"consent", "over"}
  /\ \A f \in Flows : flow'[f].state = "starting" => flow'[f].user # NoViewer

\* The cookie stays, goes, or becomes that of a flow that leaves just now.
CookieMoves ==
  \/ cookie' \in {cookie, 0}
  \/ cookie' \in Flows /\ ~Left(cookie') /\ flow'[cookie'].state \in {"consent", "over"}

LEMMA CookieKept ==
  ASSUME FlowInv, FlowsKept, CookieMoves
  PROVE  cookie' \in 0..MaxFlows /\ (cookie' # 0 => flow'[cookie'].state \in {"consent", "over"})
<1>1. cookie # 0 => cookie \in Flows /\ Left(cookie)
  BY FlowTyped, FlowNumbers DEF FlowInv
<1>2. QED
  BY <1>1, FlowTyped, FlowNumbers DEF CookieMoves, FlowsKept

\* What is connected stays connected to a flow of its own connector.
LEMMA ConnectedKept ==
  ASSUME FlowInv, FlowsKept, UNCHANGED connected
  PROVE  \A u \in Viewers, t \in FlowTargets : connected'[u][t] # 0 =>
           flow'[connected'[u][t]].state # "idle" /\ flow'[connected'[u][t]].target = t
<1> SUFFICES ASSUME NEW u \in Viewers, NEW t \in FlowTargets, connected[u][t] # 0
             PROVE  flow'[connected[u][t]].state # "idle" /\ flow'[connected[u][t]].target = t
  OBVIOUS
<1>1. connected[u][t] \in Flows
  BY FlowTyped, FlowNumbers
<1>2. flow[connected[u][t]].state # "idle" /\ flow[connected[u][t]].target = t
  BY DEF FlowInv, FlowTypeOK
<1>3. QED
  BY <1>1, <1>2 DEF FlowsKept

\* A request that nothing happens to keeps what its row says, so long as those
\* answered before it do.
LEMMA VisitKept ==
  ASSUME FlowInv, FlowsKept, CookieMoves, NEW v \in Visits,
         visit'[v] = visit[v],
         \A w \in visit[v].after : visit'[w] = visit[w]
  PROVE  VisitLedger(v)'
<1>1. VisitLedger(v) /\ visit[v] \in VisitRow
  BY FlowTyped DEF FlowInv
<1>2. visit[v].flow \in Flows \cup {0} /\ visit[v].url \in Flows \cup {0}
  BY <1>1, FlowNumbers DEF VisitRow
<1>3. (visit[v].flow # 0 => Left(visit[v].flow)') /\ (visit[v].url # 0 => Left(visit[v].url)')
  BY <1>1, <1>2 DEF VisitLedger, FlowsKept, Left
<1>4. visit[v].state = "done" /\ visit[v].spent => cookie' # visit[v].url
  BY <1>1, FlowNumbers DEF VisitLedger, CookieMoves
<1>5. QED
  BY <1>1, <1>3, <1>4 DEF VisitLedger

\* One request moves on by one step of its handler; nothing of what it was sent
\* with changes, and what it has sent is what its guard allowed.
LEMMA VisitMoves ==
  ASSUME FlowInv, FlowsKept, CookieMoves, NEW v \in Visits, NEW s, NEW b \in BOOLEAN,
         visit' = [visit EXCEPT ![v].state = s, ![v].spent = b],
         visit[v].state \notin {"idle", "done"},
         s \in {"exchanging", "storing", "answering", "done"},
         b => visit[v].url = visit[v].flow /\ visit[v].flow # 0 /\ visit[v].user # NoViewer,
         s \in {"exchanging", "storing"} => b,
         s = "done" => cookie' = 0
  PROVE  visit' \in [Visits -> VisitRow] /\ \A w \in Visits : VisitLedger(w)'
<1> DEFINE row == [visit[v] EXCEPT !.state = s, !.spent = b]
<1>1. /\ row \in VisitRow
      /\ row.state = s /\ row.spent = b /\ row.flow = visit[v].flow /\ row.url = visit[v].url
      /\ row.after = visit[v].after /\ row.user = visit[v].user
  BY FlowTyped DEF VisitRow
<1>2. visit' = [visit EXCEPT ![v] = row]
  BY FlowTyped DEF VisitRow
<1> HIDE DEF row
<1>3. /\ visit' \in [Visits -> VisitRow] /\ visit'[v] = row
      /\ \A w \in Visits : w # v => visit'[w] = visit[w]
  BY <1>1, <1>2, FlowTyped
<1>4. ASSUME NEW w \in Visits
      PROVE  visit[w].after \subseteq Visits \ {v} /\ \A x \in visit[w].after : visit'[x] = visit[x]
  <2>1. VisitLedger(w) /\ visit[w].after \subseteq Visits
    BY FlowTyped DEF FlowInv, VisitRow
  <2>2. v \notin visit[w].after
    BY <2>1 DEF VisitLedger
  <2>3. QED
    BY <1>3, <2>1, <2>2
<1>5. \A w \in Visits : w # v => VisitLedger(w)'
  BY <1>3, <1>4, VisitKept
<1>6. VisitLedger(v)'
  <2>1. VisitLedger(v) /\ visit[v] \in VisitRow
    BY FlowTyped DEF FlowInv
  <2>2. visit[v].flow \in Flows \cup {0} /\ visit[v].url \in Flows \cup {0} /\ visit[v].url # 0
    BY <2>1, FlowNumbers DEF VisitRow, VisitLedger
  <2>3. /\ visit[v].flow # 0 => flow'[visit[v].flow].state \in {"consent", "over"}
        /\ visit[v].url # 0 => flow'[visit[v].url].state \in {"consent", "over"}
    BY <2>1, <2>2 DEF VisitLedger, FlowsKept
  <2>4. \A x \in visit[v].after : visit'[x].state = "done" /\ (visit'[x].spent => visit[v].flow # visit'[x].url)
    BY <1>4, <2>1 DEF VisitLedger
  <2>5. /\ visit'[v].state = s /\ visit'[v].spent = b /\ visit'[v].flow = visit[v].flow
        /\ visit'[v].url = visit[v].url /\ visit'[v].after = visit[v].after /\ visit'[v].user = visit[v].user
    BY <1>1, <1>3
  <2>6. (visit[v].flow # 0 => Left(visit[v].flow))' /\ (visit[v].url # 0 => Left(visit[v].url))'
    BY <2>3, <2>5 DEF Left
  <2>7. /\ (visit[v].state = "idle" => visit[v].after = {} /\ ~visit[v].spent)'
        /\ (visit[v].state # "idle" => visit[v].url # 0)'
        /\ (visit[v].spent => visit[v].url = visit[v].flow /\ visit[v].flow # 0 /\ visit[v].user # NoViewer)'
        /\ (visit[v].state \in {"exchanging", "storing"} => visit[v].spent)'
    BY <2>2, <2>5
  <2>8. (visit[v].state = "done" /\ visit[v].spent => cookie # visit[v].url)'
    BY <2>2, <2>5
  <2>9. (\A x \in visit[v].after : /\ visit[x].state = "done"
                                   /\ visit[x].spent => visit[v].flow # visit[x].url)'
    BY <2>4, <2>5
  <2>10. QED
    BY <2>6, <2>7, <2>8, <2>9 DEF VisitLedger
<1>7. QED
  BY <1>3, <1>5, <1>6

\* A new request carries the cookie, in which no spent and answered code's flow is.
LEMMA VisitArrives ==
  ASSUME FlowInv, FlowsKept, UNCHANGED cookie, NEW f \in Flows, NEW c \in BOOLEAN, Left(f)', Visited(f, c)
  PROVE  visit' \in [Visits -> VisitRow] /\ \A w \in Visits : VisitLedger(w)'
<1>1. PICK v \in Visits : visit[v].state = "idle" /\ visit' = [visit EXCEPT ![v] = NewVisit(f, c, "arrived")]
  BY DEF Visited
<1> DEFINE row == NewVisit(f, c, "arrived")
<1>2. /\ row.state = "arrived" /\ ~row.spent /\ row.flow = cookie /\ row.url = f
      /\ row.after = {w \in Visits : visit[w].state = "done"}
  BY DEF NewVisit
<1>3. row \in VisitRow
  BY FlowTyped, FlowNumbers DEF NewVisit, VisitRow
<1> HIDE DEF row
<1>4. /\ visit' \in [Visits -> VisitRow] /\ visit'[v] = row
      /\ \A w \in Visits : w # v => visit'[w] = visit[w]
  BY <1>1, <1>3, FlowTyped DEF row
<1>5. CookieMoves
  BY DEF CookieMoves
<1>6. ASSUME NEW w \in Visits
      PROVE  VisitLedger(w) /\ visit[w].after \subseteq Visits
  BY FlowTyped DEF FlowInv, VisitRow
<1>7. \A w \in Visits : w # v => VisitLedger(w)'
  <2>1. ASSUME NEW w \in Visits, NEW x \in visit[w].after
        PROVE  visit'[x] = visit[x]
    BY <1>1, <1>4, <1>6 DEF VisitLedger
  <2>2. QED
    BY <1>4, <1>5, <2>1, VisitKept
<1>8. VisitLedger(v)'
  <2>1. cookie # 0 => Left(cookie)'
    BY <1>5, CookieKept DEF Left
  <2>2. \A w \in row.after : /\ w \in Visits /\ visit'[w] = visit[w] /\ visit[w].state = "done"
                             /\ visit[w].spent => cookie # visit[w].url
    BY <1>1, <1>2, <1>4, <1>6 DEF VisitLedger
  <2>3. /\ visit'[v].state = "arrived" /\ ~visit'[v].spent /\ visit'[v].flow = cookie
        /\ visit'[v].url = f /\ visit'[v].after = row.after /\ cookie' = cookie
    BY <1>2, <1>4
  <2>4. (visit[v].flow # 0 => Left(visit[v].flow))' /\ (visit[v].url # 0 => Left(visit[v].url))'
    BY <2>1, <2>3 DEF Left
  <2>5. f # 0
    BY FlowNumbers
  <2>6. (\A x \in visit[v].after : /\ visit[x].state = "done"
                                   /\ visit[x].spent => visit[v].flow # visit[x].url)'
    BY <2>2, <2>3
  <2>7. QED
    BY <2>3, <2>4, <2>5, <2>6 DEF VisitLedger
<1>9. QED
  BY <1>4, <1>7, <1>8

LEMMA FlowMove ==
  ASSUME FlowInv, FlowsKept, CookieMoves, viewer' \in Viewers \cup {NoViewer},
         visit' \in [Visits -> VisitRow], \A v \in Visits : VisitLedger(v)',
         connected' \in [Viewers -> [FlowTargets -> 0..MaxFlows]],
         \A u \in Viewers, t \in FlowTargets : connected'[u][t] # 0 =>
           flow'[connected'[u][t]].state # "idle" /\ flow'[connected'[u][t]].target = t
  PROVE  FlowInv'
BY CookieKept DEF FlowInv, FlowTypeOK, FlowsKept, Left

\* A step of the dashboard or of the browser, with no request of the callback.
LEMMA NoVisitStep ==
  ASSUME FlowInv, FlowsKept, CookieMoves, viewer' \in Viewers \cup {NoViewer}, UNCHANGED <<visit, connected>>
  PROVE  FlowInv'
<1>1. visit' \in [Visits -> VisitRow] /\ connected' \in [Viewers -> [FlowTargets -> 0..MaxFlows]]
  BY FlowTyped
<1>2. \A v \in Visits : VisitLedger(v)'
  BY VisitKept
<1>3. QED
  BY <1>1, <1>2, ConnectedKept, FlowMove

LEMMA FlowUntouched == ASSUME FlowInv, UNCHANGED flow PROVE FlowsKept
BY FlowTyped DEF FlowsKept, FlowInv, Left

\* Only the code of a flow changes.
LEMMA CodeOnly ==
  ASSUME FlowInv, NEW f \in Flows, flow' = [flow EXCEPT ![f].code = "redeemed"]
  PROVE  FlowsKept
<1>1. /\ flow' \in [Flows -> FlowRow]
      /\ \A g \in Flows : flow'[g].state = flow[g].state /\ flow'[g].target = flow[g].target /\ flow'[g].user = flow[g].user
  BY FlowTyped DEF FlowRow
<1>2. QED
  BY <1>1 DEF FlowsKept, FlowInv, Left

\* A flow that has started moves on.
LEMMA FlowMoves ==
  ASSUME FlowInv, NEW f \in Flows, flow[f].state # "idle", NEW s \in {"consent", "over"},
         flow' = [flow EXCEPT ![f].state = s]
  PROVE  FlowsKept /\ flow'[f].state = s
<1>1. /\ flow' \in [Flows -> FlowRow]
      /\ \A g \in Flows : /\ flow'[g].target = flow[g].target /\ flow'[g].user = flow[g].user
                          /\ flow'[g].state = IF g = f THEN s ELSE flow[g].state
  BY FlowTyped DEF FlowRow
<1>2. QED
  BY <1>1 DEF FlowsKept, FlowInv, Left

LEMMA StartConnectKeeps ==
  ASSUME FlowInv, NEW f \in Flows, NEW t \in FlowTargets, StartConnect(f, t)
  PROVE  FlowInv'
<1> DEFINE row == [flow[f] EXCEPT !.state = "starting", !.target = t, !.user = viewer]
<1>1. row \in FlowRow /\ row.state = "starting" /\ row.user = viewer
  BY FlowTyped DEF FlowRow
<1>2. flow[f].state = "idle" /\ viewer # NoViewer /\ UNCHANGED <<viewer, cookie, visit, connected>>
  BY DEF StartConnect
<1>3. flow' = [flow EXCEPT ![f] = row]
  BY FlowTyped DEF StartConnect, FlowRow
<1> HIDE DEF row
<1>4. /\ flow' \in [Flows -> FlowRow] /\ flow'[f] = row
      /\ \A g \in Flows : g # f => flow'[g] = flow[g]
  BY <1>1, <1>3, FlowTyped
<1>5. FlowsKept
  BY <1>1, <1>2, <1>4 DEF FlowsKept, FlowInv, Left
<1>6. QED
  BY <1>2, <1>5, NoVisitStep, FlowTyped DEF CookieMoves

LEMMA StartFailsKeeps ==
  ASSUME FlowInv, NEW f \in Flows, StartFails(f)
  PROVE  FlowInv'
<1>1. flow[f].state # "idle" /\ flow' = [flow EXCEPT ![f].state = "over"] /\ UNCHANGED <<viewer, cookie, visit, connected>>
  BY DEF StartFails
<1>2. FlowsKept
  BY <1>1, FlowMoves
<1>3. QED
  BY <1>1, <1>2, NoVisitStep, FlowTyped DEF CookieMoves

LEMMA SentToConsentKeeps ==
  ASSUME FlowInv, NEW f \in Flows, SentToConsent(f)
  PROVE  FlowInv'
<1>1. /\ flow[f].state = "starting" /\ flow' = [flow EXCEPT ![f].state = "consent"] /\ cookie' = f
      /\ UNCHANGED <<viewer, visit, connected>>
  BY DEF SentToConsent
<1>2. FlowsKept /\ flow'[f].state = "consent"
  BY <1>1, FlowMoves
<1>3. CookieMoves
  BY <1>1, <1>2 DEF CookieMoves, Left
<1>4. QED
  BY <1>1, <1>2, <1>3, NoVisitStep, FlowTyped

\* One more connector of a user's is connected, by a flow of that connector's.
LEMMA NewlyConnected ==
  ASSUME FlowInv, FlowsKept, NEW u \in Viewers, NEW f \in Flows, flow[f].state # "idle",
         connected' = [connected EXCEPT ![u][flow[f].target] = f]
  PROVE  /\ connected' \in [Viewers -> [FlowTargets -> 0..MaxFlows]]
         /\ \A w \in Viewers, t \in FlowTargets : connected'[w][t] # 0 =>
              flow'[connected'[w][t]].state # "idle" /\ flow'[connected'[w][t]].target = t
<1>1. flow[f].target \in FlowTargets /\ f \in 0..MaxFlows
  BY FlowTyped, FlowNumbers DEF FlowRow
<1>2. /\ connected' \in [Viewers -> [FlowTargets -> 0..MaxFlows]]
      /\ \A w \in Viewers, t \in FlowTargets :
           connected'[w][t] = IF w = u /\ t = flow[f].target THEN f ELSE connected[w][t]
  BY <1>1, FlowTyped
<1>3. ASSUME NEW w \in Viewers, NEW t \in FlowTargets, connected'[w][t] # 0
      PROVE  flow'[connected'[w][t]].state # "idle" /\ flow'[connected'[w][t]].target = t
  <2>1. connected'[w][t] \in Flows
    BY <1>2, <1>3, FlowNumbers
  <2>2. flow[connected'[w][t]].state # "idle" /\ flow[connected'[w][t]].target = t
    BY <1>2, <1>3 DEF FlowInv, FlowTypeOK
  <2>3. QED
    BY <2>1, <2>2 DEF FlowsKept
<1>4. QED
  BY <1>2, <1>3

LEMMA ShortPathKeeps ==
  ASSUME FlowInv, NEW f \in Flows, ShortPath(f)
  PROVE  FlowInv'
<1>1. /\ flow[f].state = "starting" /\ flow' = [flow EXCEPT ![f].state = "over"]
      /\ connected' = [connected EXCEPT ![flow[f].user][flow[f].target] = f]
      /\ UNCHANGED <<viewer, cookie, visit>>
  BY DEF ShortPath
<1>2. FlowsKept /\ CookieMoves
  BY <1>1, FlowMoves DEF CookieMoves
<1>3. flow[f].user \in Viewers
  BY <1>1, FlowTyped DEF FlowInv, FlowRow
<1>4. visit' \in [Visits -> VisitRow] /\ \A v \in Visits : VisitLedger(v)'
  BY <1>1, <1>2, VisitKept, FlowTyped
<1>5. QED
  BY <1>1, <1>2, <1>3, <1>4, NewlyConnected, FlowMove, FlowTyped

LEMMA ConsentsKeeps ==
  ASSUME FlowInv, NEW f \in Flows, Consents(f)
  PROVE  FlowInv'
<1>1. flow[f].state = "consent" /\ UNCHANGED <<viewer, cookie, connected>>
  BY DEF Consents
<1>2. PICK c \in BOOLEAN :
        /\ Visited(f, c)
        /\ flow' = IF c THEN [flow EXCEPT ![f].state = "over", ![f].code = "issued"] ELSE [flow EXCEPT ![f].state = "over"]
  BY DEF Consents
<1>3. FlowsKept /\ flow'[f].state = "over"
  <2>1. CASE ~c
    BY <1>1, <1>2, <2>1, FlowMoves
  <2>2. CASE c
    <3> DEFINE row == [flow[f] EXCEPT !.state = "over", !.code = "issued"]
    <3>1. row \in FlowRow /\ row.state = "over" /\ row.target = flow[f].target
      BY FlowTyped DEF FlowRow
    <3>2. flow' = [flow EXCEPT ![f] = row]
      BY <1>2, <2>2, FlowTyped DEF FlowRow
    <3> HIDE DEF row
    <3>3. /\ flow' \in [Flows -> FlowRow] /\ flow'[f] = row
          /\ \A g \in Flows : g # f => flow'[g] = flow[g]
      BY <3>1, <3>2, FlowTyped
    <3>4. QED
      BY <1>1, <3>1, <3>3 DEF FlowsKept, FlowInv, Left
  <2>3. QED
    BY <2>1, <2>2
<1>4. visit' \in [Visits -> VisitRow] /\ \A v \in Visits : VisitLedger(v)'
  BY <1>1, <1>2, <1>3, VisitArrives DEF Left
<1>5. QED
  BY <1>1, <1>3, <1>4, ConnectedKept, FlowMove, FlowTyped DEF CookieMoves

LEMMA RevisitsKeeps ==
  ASSUME FlowInv, NEW f \in Flows, Revisits(f)
  PROVE  FlowInv'
<1>1. UNCHANGED <<viewer, cookie, flow, connected>> /\ Visited(f, TRUE)
  BY DEF Revisits
<1>2. PICK v \in Visits : visit[v].state # "idle" /\ visit[v].url = f
  BY DEF Revisits
<1>3. Left(f)'
  BY <1>1, <1>2, FlowNumbers DEF FlowInv, VisitLedger, Left
<1>4. FlowsKept
  BY <1>1, FlowUntouched
<1>5. visit' \in [Visits -> VisitRow] /\ \A w \in Visits : VisitLedger(w)'
  BY <1>1, <1>3, <1>4, VisitArrives
<1>6. QED
  BY <1>1, <1>4, <1>5, ConnectedKept, FlowMove, FlowTyped DEF CookieMoves

\* The state alone of a request changes.
LEMMA AtIsBoth ==
  ASSUME FlowInv, NEW v \in Visits, NEW s
  PROVE  VisitAt(v, s) = [visit EXCEPT ![v].state = s, ![v].spent = visit[v].spent]
<1>1. [visit[v] EXCEPT !.state = s] = [visit[v] EXCEPT !.state = s, !.spent = visit[v].spent]
  BY FlowTyped DEF VisitRow
<1>2. QED
  BY <1>1, FlowTyped DEF VisitAt, VisitRow

LEMMA CallbackReadsKeeps ==
  ASSUME FlowInv, NEW v \in Visits, CallbackReads(v)
  PROVE  FlowInv'
<1> DEFINE good == visit[v].flow # 0 /\ visit[v].code /\ StateMatches(v) /\ visit[v].user # NoViewer
           s == IF good THEN "exchanging" ELSE "answering"
<1>1. /\ visit[v].state = "arrived" /\ visit' = [visit EXCEPT ![v].state = s, ![v].spent = good]
      /\ UNCHANGED <<viewer, cookie, flow, connected>>
  BY DEF CallbackReads
<1>2. good \in BOOLEAN
  BY FlowTyped DEF VisitRow
<1>3. good => visit[v].url = visit[v].flow /\ visit[v].flow # 0 /\ visit[v].user # NoViewer
  BY DEF StateMatches
<1>4. s \in {"exchanging", "storing", "answering", "done"} /\ s # "done" /\ (s \in {"exchanging", "storing"} => good)
  OBVIOUS
<1> HIDE DEF good, s
<1>5. FlowsKept /\ CookieMoves
  BY <1>1, FlowUntouched DEF CookieMoves
<1>6. visit' \in [Visits -> VisitRow] /\ \A w \in Visits : VisitLedger(w)'
  BY <1>1, <1>2, <1>3, <1>4, <1>5, VisitMoves
<1>7. QED
  BY <1>1, <1>5, <1>6, ConnectedKept, FlowMove, FlowTyped

\* A request that is being answered moves on and has sent what it had sent.
LEMMA CallbackGoesOn ==
  ASSUME FlowInv, FlowsKept, CookieMoves, NEW v \in Visits, NEW s \in {"storing", "answering", "done"},
         visit' = VisitAt(v, s), visit[v].state \notin {"idle", "done"},
         s = "storing" => visit[v].spent, s = "done" => cookie' = 0
  PROVE  visit' \in [Visits -> VisitRow] /\ \A w \in Visits : VisitLedger(w)'
<1>1. VisitLedger(v) /\ visit[v].spent \in BOOLEAN
  BY FlowTyped DEF FlowInv, VisitRow
<1>2. visit' = [visit EXCEPT ![v].state = s, ![v].spent = visit[v].spent]
  BY AtIsBoth
<1>3. visit[v].spent => visit[v].url = visit[v].flow /\ visit[v].flow # 0 /\ visit[v].user # NoViewer
  BY <1>1 DEF VisitLedger
<1>4. QED
  BY <1>1, <1>2, <1>3, VisitMoves

LEMMA ExchangedKeeps ==
  ASSUME FlowInv, NEW v \in Visits, Exchanged(v)
  PROVE  FlowInv'
<1> DEFINE f == visit[v].url
<1>1. /\ visit[v].state = "exchanging" /\ flow' = [flow EXCEPT ![f].code = "redeemed"]
      /\ visit' = VisitAt(v, "storing") /\ UNCHANGED <<viewer, cookie, connected>>
  BY DEF Exchanged
<1>2. visit[v].spent /\ f \in Flows
  BY <1>1, FlowTyped, FlowNumbers DEF FlowInv, VisitLedger, VisitRow
<1>3. FlowsKept /\ CookieMoves
  BY <1>1, <1>2, CodeOnly DEF CookieMoves
<1>4. visit' \in [Visits -> VisitRow] /\ \A w \in Visits : VisitLedger(w)'
  BY <1>1, <1>2, <1>3, CallbackGoesOn
<1>5. QED
  BY <1>1, <1>3, <1>4, ConnectedKept, FlowMove, FlowTyped

LEMMA ExchangeFailsKeeps ==
  ASSUME FlowInv, NEW v \in Visits, ExchangeFails(v)
  PROVE  FlowInv'
<1>1. /\ visit[v].state = "exchanging" /\ visit' = VisitAt(v, "answering") /\ UNCHANGED <<viewer, cookie, connected>>
      /\ flow' = flow \/ flow' = [flow EXCEPT ![visit[v].url].code = "redeemed"]
  BY DEF ExchangeFails
<1>2. visit[v].url \in Flows
  BY <1>1, FlowTyped, FlowNumbers DEF FlowInv, VisitLedger, VisitRow
<1>3. FlowsKept /\ CookieMoves
  BY <1>1, <1>2, CodeOnly, FlowUntouched DEF CookieMoves
<1>4. visit' \in [Visits -> VisitRow] /\ \A w \in Visits : VisitLedger(w)'
  BY <1>1, <1>3, CallbackGoesOn
<1>5. QED
  BY <1>1, <1>3, <1>4, ConnectedKept, FlowMove, FlowTyped

LEMMA StoresKeeps ==
  ASSUME FlowInv, NEW v \in Visits, Stores(v)
  PROVE  FlowInv'
<1>1. /\ visit[v].state = "storing" /\ visit' = VisitAt(v, "answering") /\ UNCHANGED <<viewer, cookie, flow>>
      /\ \/ UNCHANGED connected
         \/ connected' = [connected EXCEPT ![visit[v].user][flow[visit[v].flow].target] = visit[v].url]
  BY DEF Stores
<1>2. VisitLedger(v) /\ visit[v] \in VisitRow
  BY FlowTyped DEF FlowInv
<1>3. visit[v].user \in Viewers /\ visit[v].flow = visit[v].url /\ visit[v].url \in Flows /\ flow[visit[v].url].state # "idle"
  BY <1>1, <1>2, FlowNumbers DEF VisitLedger, VisitRow, Left
<1>4. FlowsKept /\ CookieMoves
  BY <1>1, FlowUntouched DEF CookieMoves
<1>5. visit' \in [Visits -> VisitRow] /\ \A w \in Visits : VisitLedger(w)'
  BY <1>1, <1>4, CallbackGoesOn
<1>6. /\ connected' \in [Viewers -> [FlowTargets -> 0..MaxFlows]]
      /\ \A u \in Viewers, t \in FlowTargets : connected'[u][t] # 0 =>
           flow'[connected'[u][t]].state # "idle" /\ flow'[connected'[u][t]].target = t
  <2>1. CASE UNCHANGED connected
    BY <1>4, <2>1, ConnectedKept, FlowTyped
  <2>2. CASE connected' = [connected EXCEPT ![visit[v].user][flow[visit[v].flow].target] = visit[v].url]
    BY <1>3, <1>4, <2>2, NewlyConnected
  <2>3. QED
    BY <1>1, <2>1, <2>2
<1>7. QED
  BY <1>1, <1>4, <1>5, <1>6, FlowMove, FlowTyped

LEMMA CallbackAnswersKeeps ==
  ASSUME FlowInv, NEW v \in Visits, CallbackAnswers(v)
  PROVE  FlowInv'
<1>1. /\ visit[v].state = "answering" /\ visit' = VisitAt(v, "done") /\ cookie' = 0
      /\ UNCHANGED <<viewer, flow, connected>>
  BY DEF CallbackAnswers, ClearedCookie
<1>2. FlowsKept /\ CookieMoves
  BY <1>1, FlowUntouched DEF CookieMoves
<1>3. visit' \in [Visits -> VisitRow] /\ \A w \in Visits : VisitLedger(w)'
  BY <1>1, <1>2, CallbackGoesOn
<1>4. QED
  BY <1>1, <1>2, <1>3, ConnectedKept, FlowMove, FlowTyped

\* The invariant is inductive.
LEMMA FlowInductive == FlowInv /\ [FlowNext]_flowVars => FlowInv'
<1> SUFFICES ASSUME FlowInv, [FlowNext]_flowVars
             PROVE  FlowInv'
  OBVIOUS
<1>1. ASSUME UNCHANGED <<flow, visit, connected>>, cookie' \in {cookie, 0}, viewer' \in Viewers \cup {NoViewer}
      PROVE  FlowInv'
  BY <1>1, FlowUntouched, NoVisitStep DEF CookieMoves
<1>2. CASE UNCHANGED flowVars
  BY <1>1, <1>2, FlowTyped DEF flowVars
<1>3. CASE CookieLapses
  BY <1>1, <1>3, FlowTyped DEF CookieLapses
<1>4. ASSUME NEW u \in Viewers \cup {NoViewer}, SignsInAs(u)
      PROVE  FlowInv'
  BY <1>1, <1>4 DEF SignsInAs
<1>5. CASE \E f \in Flows : \/ \E t \in FlowTargets : StartConnect(f, t)
                            \/ StartFails(f) \/ ShortPath(f) \/ SentToConsent(f) \/ Consents(f) \/ Revisits(f)
  BY <1>5, StartConnectKeeps, StartFailsKeeps, ShortPathKeeps, SentToConsentKeeps, ConsentsKeeps, RevisitsKeeps
<1>6. CASE \E v \in Visits : CallbackReads(v) \/ Exchanged(v) \/ ExchangeFails(v) \/ Stores(v) \/ CallbackAnswers(v)
  BY <1>6, CallbackReadsKeeps, ExchangedKeeps, ExchangeFailsKeeps, StoresKeeps, CallbackAnswersKeeps
<1>7. QED
  BY <1>2, <1>3, <1>4, <1>5, <1>6 DEF FlowNext

\* For any number of users, connectors, flows and requests every variable has
\* its type, and what is stored for a connector came from that connector's own
\* flow.
THEOREM ConnectedToItsOwn == FlowSpec => []FlowTypeOK
<1>1. FlowInv => FlowTypeOK
  BY DEF FlowInv
<1>2. QED
  BY <1>1, FlowInitInv, FlowInductive, PTL DEF FlowSpec

LEMMA LedgerGoesHome == FlowInv => CodeGoesHome
BY DEF FlowInv, VisitLedger, CodeGoesHome

\* With any number of tabs, reloads, late answers and changes of who is signed
\* in: a code goes to the server that issued it, and no request sends it again
\* that was sent after the answer to one that did (oauth/callback/route.ts).
THEOREM CodesGoHome == FlowSpec => []CodeGoesHome
BY FlowInitInv, FlowInductive, LedgerGoesHome, PTL DEF FlowSpec

-----------------------------------------------------------------------------
(* What the MCP endpoint makes of one POST.                                *)

Agrees ==
  /\ mcp.headers.method \in {Absent, mcp.body.method}
  /\ mcp.headers.name # Absent /\ Named(mcp.body) => mcp.headers.name = mcp.body.name
  /\ mcp.headers.version = "modern" => mcp.body.version = "modern"

\* An envelope that got past the validation agrees with its headers, and only those
\* are answered with a 200.
McpInv ==
  /\ McpTypeOK
  /\ mcp.at \in {"accepted", "dispatched"} \/ (mcp.at = "answered" /\ mcp.status = 200) => Agrees
  /\ mcp.at \in {"parsed", "accepted", "dispatched"} => mcp.caller
  /\ mcp.at \in {"accepted", "dispatched"} => ~mcp.body.notification
  /\ mcp.at # "answered" => mcp.ran = Absent
  /\ RunsWhatIsListed

LEMMA McpInitOK == McpInit => McpInv
<1> SUFFICES ASSUME McpInit PROVE McpInv
  OBVIOUS
<1>1. NoBody \in Body /\ NoHeaders \in Headers
  BY DEF NoBody, Body, Methods, NoHeaders, Headers
<1>2. Idle \in McpRequest /\ Idle.at = "idle" /\ Idle.ran = Absent
  BY <1>1 DEF Idle, McpRequest
<1>3. QED
  BY <1>2 DEF McpInit, McpInv, McpTypeOK, RunsWhatIsListed

LEMMA McpParts ==
  ASSUME McpInv
  PROVE  mcp \in McpRequest /\ skillCache \in {"empty", "loaded", "failed"}
BY DEF McpInv, McpTypeOK

\* A request stays one when one field of it is set.
McpStages   == {"idle", "received", "parsed", "accepted", "dispatched", "answered"}
McpStatuses == {0, 200, 202, 400, 401, 404}
McpCodes    == {"none", "request", "mismatch", "version", "params", "method", "internal"}

LEMMA SetAt == ASSUME NEW m \in McpRequest, NEW x \in McpStages PROVE [m EXCEPT !.at = x] \in McpRequest
BY DEF McpRequest, McpStages

LEMMA SetStatus == ASSUME NEW m \in McpRequest, NEW x \in McpStatuses PROVE [m EXCEPT !.status = x] \in McpRequest
BY DEF McpRequest, McpStatuses

LEMMA SetCode == ASSUME NEW m \in McpRequest, NEW x \in McpCodes PROVE [m EXCEPT !.code = x] \in McpRequest
BY DEF McpRequest, McpCodes

LEMMA SetCaller == ASSUME NEW m \in McpRequest, NEW x \in BOOLEAN PROVE [m EXCEPT !.caller = x] \in McpRequest
BY DEF McpRequest

LEMMA SetModern == ASSUME NEW m \in McpRequest, NEW x \in BOOLEAN PROVE [m EXCEPT !.modern = x] \in McpRequest
BY DEF McpRequest

LEMMA SetBody == ASSUME NEW m \in McpRequest, NEW x \in Body PROVE [m EXCEPT !.body = x] \in McpRequest
BY DEF McpRequest

LEMMA SetHeaders == ASSUME NEW m \in McpRequest, NEW x \in Headers PROVE [m EXCEPT !.headers = x] \in McpRequest
BY DEF McpRequest

LEMMA SetCatalog == ASSUME NEW m \in McpRequest, NEW x \in SUBSET ActionIds PROVE [m EXCEPT !.catalog = x] \in McpRequest
BY DEF McpRequest

LEMMA SetRan == ASSUME NEW m \in McpRequest, NEW x \in ActionIds PROVE [m EXCEPT !.ran = x] \in McpRequest
BY DEF McpRequest

\* One that is answered without a run is still one.
LEMMA McpAnswered ==
  ASSUME NEW m \in McpRequest, NEW status \in McpStatuses, NEW err \in McpCodes
  PROVE  [m EXCEPT !.at = "answered", !.status = status, !.code = err] \in McpRequest
<1> DEFINE m1 == [m EXCEPT !.at = "answered"]
           m2 == [m1 EXCEPT !.status = status]
           m3 == [m2 EXCEPT !.code = err]
<1>1. [m EXCEPT !.at = "answered", !.status = status, !.code = err] = m3
  OBVIOUS
<1>2. m1 \in McpRequest
  BY SetAt DEF McpStages
<1> HIDE DEF m1
<1>3. m2 \in McpRequest
  BY <1>2, SetStatus
<1> HIDE DEF m2
<1>4. m3 \in McpRequest
  BY <1>3, SetCode
<1>5. QED
  BY <1>1, <1>4

\* A validation that finds nothing wrong found the headers and the body to agree.
LEMMA ValidAgrees ==
  ASSUME mcp \in McpRequest, ~Modern(mcp.body, mcp.headers) \/ HeadersVerdict(mcp.body, mcp.headers) = "none"
  PROVE  Agrees
<1>1. CASE ~Modern(mcp.body, mcp.headers)
  BY <1>1 DEF Modern, Agrees
<1>2. CASE HeadersVerdict(mcp.body, mcp.headers) = "none"
  <2>1. /\ mcp.headers.version = mcp.body.version /\ mcp.headers.method = mcp.body.method
        /\ Named(mcp.body) => mcp.headers.name = mcp.body.name
    BY <1>2 DEF HeadersVerdict
  <2>2. QED
    BY <2>1 DEF Agrees
<1>3. QED
  BY <1>1, <1>2

\* An answer without a run: a 200 only from where the validation was passed.
LEMMA RespondKeeps ==
  ASSUME McpInv, NEW status \in McpStatuses, NEW err \in McpCodes,
         Respond(status, err), mcp.at \in {"accepted", "dispatched"} \/ (mcp.at # "answered" /\ status # 200)
  PROVE  McpInv'
<1> DEFINE new == [mcp EXCEPT !.at = "answered", !.status = status, !.code = err]
<1>1. mcp' = new /\ skillCache' = skillCache
  BY DEF Respond
<1>2. /\ new \in McpRequest /\ new.at = "answered" /\ new.status = status /\ new.body = mcp.body
      /\ new.headers = mcp.headers /\ new.ran = mcp.ran /\ new.caller = mcp.caller /\ new.catalog = mcp.catalog
  <2>1. new \in McpRequest
    BY McpParts, McpAnswered
  <2>2. QED
    BY <2>1, McpParts DEF McpRequest
<1> HIDE DEF new
<1>3. mcp.ran = Absent /\ (status = 200 => Agrees)
  BY DEF McpInv
<1>4. status = 200 => Agrees'
  BY <1>1, <1>2, <1>3 DEF Agrees
<1>5. QED
  BY <1>1, <1>2, <1>3, <1>4, McpParts DEF McpInv, McpTypeOK, RunsWhatIsListed

\* A request is received, parsed and given a catalog: none of it runs anything.
LEMMA ReceiveKeeps ==
  ASSUME McpInv, Receive \/ ParseEnvelope
  PROVE  McpInv'
<1>1. CASE Receive
  <2>1. PICK caller \in BOOLEAN : mcp' = [Idle EXCEPT !.at = "received", !.caller = caller]
    BY <1>1 DEF Receive
  <2>2. NoBody \in Body /\ NoHeaders \in Headers
    BY DEF NoBody, Body, Methods, NoHeaders, Headers
  <2>3. mcp' \in McpRequest /\ mcp'.at = "received" /\ mcp'.ran = Absent
    <3>1. Idle \in McpRequest /\ Idle.ran = Absent
      BY <2>2 DEF Idle, McpRequest
    <3> DEFINE m1 == [Idle EXCEPT !.at = "received"]
               m2 == [m1 EXCEPT !.caller = caller]
    <3>2. mcp' = m2
      BY <2>1
    <3>3. m1 \in McpRequest
      BY <3>1, SetAt DEF McpStages
    <3>4. m1.at = "received" /\ m1.ran = Absent
      BY <3>1 DEF McpRequest
    <3> HIDE DEF m1
    <3>5. m2 \in McpRequest
      BY <3>3, SetCaller
    <3>6. m2.at = "received" /\ m2.ran = Absent
      BY <3>3, <3>4 DEF McpRequest
    <3>7. QED
      BY <3>2, <3>5, <3>6
  <2>4. QED
    BY <1>1, <2>3, McpParts DEF McpInv, McpTypeOK, RunsWhatIsListed, Receive
<1>2. CASE ParseEnvelope
  <2>1. PICK b \in Body, h \in Headers : mcp' = [mcp EXCEPT !.at = "parsed", !.body = b, !.headers = h]
    BY <1>2 DEF ParseEnvelope
  <2>2. mcp.at = "received" /\ mcp.caller /\ skillCache' = skillCache
    BY <1>2 DEF ParseEnvelope
  <2>3. mcp.ran = Absent
    BY <2>2 DEF McpInv
  <2>4. mcp' \in McpRequest /\ mcp'.at = "parsed" /\ mcp'.ran = Absent /\ mcp'.caller
    <3> DEFINE m1 == [mcp EXCEPT !.at = "parsed"]
               m2 == [m1 EXCEPT !.body = b]
               m3 == [m2 EXCEPT !.headers = h]
    <3>1. mcp' = m3
      BY <2>1
    <3>2. m1 \in McpRequest
      BY McpParts, SetAt DEF McpStages
    <3>3. m1.at = "parsed" /\ m1.ran = Absent /\ m1.caller
      BY <2>2, <2>3, McpParts DEF McpRequest
    <3> HIDE DEF m1
    <3>4. m2 \in McpRequest
      BY <3>2, SetBody
    <3>5. m2.at = "parsed" /\ m2.ran = Absent /\ m2.caller
      BY <3>2, <3>3 DEF McpRequest
    <3> HIDE DEF m2
    <3>6. m3 \in McpRequest
      BY <3>4, SetHeaders
    <3>7. m3.at = "parsed" /\ m3.ran = Absent /\ m3.caller
      BY <3>4, <3>5 DEF McpRequest
    <3>8. QED
      BY <3>1, <3>6, <3>7
  <2>5. QED
    BY <2>2, <2>4, McpParts DEF McpInv, McpTypeOK, RunsWhatIsListed
<1>3. QED
  BY <1>1, <1>2

LEMMA ValidateKeeps ==
  ASSUME McpInv, Validate
  PROVE  McpInv'
<1> DEFINE verdict == IF Modern(mcp.body, mcp.headers) THEN HeadersVerdict(mcp.body, mcp.headers) ELSE "none"
<1>1. mcp.at = "parsed" /\ mcp.caller
  BY DEF Validate, McpInv
<1>2. verdict \in {"none", "params", "mismatch", "version"}
  BY DEF HeadersVerdict
<1>3. CASE verdict # "none"
  BY <1>1, <1>2, <1>3, RespondKeeps DEF McpStatuses, McpCodes, Validate
<1>4. CASE verdict = "none" /\ mcp.body.notification
  BY <1>1, <1>4, RespondKeeps DEF McpStatuses, McpCodes, Validate
<1>5. CASE verdict = "none" /\ ~mcp.body.notification
  <2> DEFINE modern == Modern(mcp.body, mcp.headers)
             new == [mcp EXCEPT !.at = "accepted", !.modern = modern]
  <2>1. mcp' = new /\ skillCache' = skillCache
    BY <1>5 DEF Validate
  <2>2. modern \in BOOLEAN
    BY DEF Modern
  <2>3. /\ new \in McpRequest /\ new.at = "accepted" /\ new.body = mcp.body /\ new.headers = mcp.headers
        /\ new.ran = mcp.ran /\ new.caller = mcp.caller
    <3> DEFINE m1 == [mcp EXCEPT !.at = "accepted"]
               m2 == [m1 EXCEPT !.modern = modern]
    <3> HIDE DEF modern
    <3>1. m1 \in McpRequest
      BY McpParts, SetAt DEF McpStages
    <3> HIDE DEF m1
    <3>2. m2 \in McpRequest
      BY <2>2, <3>1, SetModern
    <3>3. new = m2
      BY Zenon DEF m1
    <3>4. new \in McpRequest
      BY <3>2, <3>3
    <3>5. QED
      BY <3>4, McpParts DEF McpRequest
  <2> HIDE DEF new
  <2>4. Agrees
    BY <1>5, McpParts, ValidAgrees
  <2>5. Agrees'
    BY <2>1, <2>3, <2>4 DEF Agrees
  <2>6. mcp.ran = Absent
    BY <1>1 DEF McpInv
  <2>7. QED
    BY <1>1, <1>5, <2>1, <2>3, <2>5, <2>6, McpParts DEF McpInv, McpTypeOK, RunsWhatIsListed
<1>6. QED
  BY <1>3, <1>4, <1>5

LEMMA NotFoundKeeps ==
  ASSUME McpInv, NotFound, mcp.at \in {"accepted", "dispatched"}
  PROVE  McpInv'
<1>1. \/ Respond(200, "params") \/ Respond(404, "method") \/ Respond(200, "method")
  BY DEF NotFound
<1>2. QED
  BY <1>1, RespondKeeps DEF McpStatuses, McpCodes

LEMMA DispatchKeeps ==
  ASSUME McpInv, DispatchPlain \/ DispatchSkill \/ ResolveCatalog \/ ListTools
  PROVE  McpInv'
<1>1. CASE DispatchPlain
  BY <1>1, RespondKeeps, NotFoundKeeps DEF McpStatuses, McpCodes, DispatchPlain
<1>2. CASE DispatchSkill
  <2>1. mcp.at = "accepted"
    BY <1>2 DEF DispatchSkill
  <2>2. CASE Respond(200, "params")
    BY <2>1, <2>2, RespondKeeps DEF McpStatuses, McpCodes
  <2>3. CASE ~Respond(200, "params")
    <3>1. PICK loaded \in BOOLEAN :
            LET after == IF skillCache = "empty" THEN (IF loaded THEN "loaded" ELSE "failed") ELSE skillCache IN
            /\ mcp' = [mcp EXCEPT !.at = "answered", !.status = 200, !.code = IF after = "loaded" THEN "none" ELSE "internal"]
            /\ skillCache' = after
      BY <1>2, <2>3 DEF DispatchSkill
    <3>2. skillCache' \in {"empty", "loaded", "failed"}
      BY <3>1, McpParts
    <3>3. PICK err \in {"none", "internal"} : mcp' = [mcp EXCEPT !.at = "answered", !.status = 200, !.code = err]
      BY <3>1
    <3> DEFINE new == [mcp EXCEPT !.at = "answered", !.status = 200, !.code = err]
    <3>4. /\ new \in McpRequest /\ new.at = "answered" /\ new.body = mcp.body
          /\ new.headers = mcp.headers /\ new.ran = mcp.ran /\ new.caller = mcp.caller
      <4>0. 200 \in McpStatuses /\ err \in McpCodes
        BY DEF McpStatuses, McpCodes
      <4>1. new \in McpRequest
        BY <4>0, McpParts, McpAnswered
      <4>2. QED
        BY <4>1, McpParts DEF McpRequest
    <3>5. mcp' = new
      BY <3>3
    <3> HIDE DEF new
    <3>6. Agrees' /\ mcp'.ran = Absent
      BY <2>1, <3>4, <3>5 DEF McpInv, Agrees
    <3>7. QED
      BY <3>2, <3>4, <3>5, <3>6 DEF McpInv, McpTypeOK, RunsWhatIsListed
  <2>4. QED
    BY <2>2, <2>3
<1>3. CASE ResolveCatalog
  <2>1. mcp.at = "accepted"
    BY <1>3 DEF ResolveCatalog
  <2>2. CASE Respond(200, "internal")
    BY <2>1, <2>2, RespondKeeps DEF McpStatuses, McpCodes
  <2>3. CASE ~Respond(200, "internal")
    <3>1. PICK entries \in SUBSET ActionIds : mcp' = [mcp EXCEPT !.at = "dispatched", !.catalog = entries]
      BY <1>3, <2>3 DEF ResolveCatalog
    <3>2. skillCache' = skillCache
      BY <1>3, <2>3 DEF ResolveCatalog
    <3> DEFINE new == [mcp EXCEPT !.at = "dispatched", !.catalog = entries]
    <3>3. /\ new \in McpRequest /\ new.at = "dispatched" /\ new.body = mcp.body
          /\ new.headers = mcp.headers /\ new.ran = mcp.ran /\ new.caller = mcp.caller
      <4> DEFINE m1 == [mcp EXCEPT !.at = "dispatched"]
                 m2 == [m1 EXCEPT !.catalog = entries]
      <4>1. m1 \in McpRequest
        BY McpParts, SetAt DEF McpStages
      <4> HIDE DEF m1
      <4>2. m2 \in McpRequest
        BY <4>1, SetCatalog
      <4>3. new = m2
        BY Zenon DEF m1
      <4>4. new \in McpRequest
        BY <4>2, <4>3
      <4>5. QED
        BY <4>4, McpParts DEF McpRequest
    <3>4. mcp' = new
      BY <3>1
    <3> HIDE DEF new
    <3>5. Agrees' /\ mcp'.ran = Absent /\ mcp'.caller /\ ~mcp'.body.notification
      BY <2>1, <3>3, <3>4 DEF McpInv, Agrees
    <3>6. QED
      BY <3>2, <3>3, <3>4, <3>5, McpParts DEF McpInv, McpTypeOK, RunsWhatIsListed
  <2>4. QED
    BY <2>2, <2>3
<1>4. CASE ListTools
  <2>1. Respond(200, "none") \/ Respond(200, "internal")
    BY <1>4 DEF ListTools
  <2>2. mcp.at = "dispatched"
    BY <1>4 DEF ListTools
  <2>3. QED
    BY <2>1, <2>2, RespondKeeps DEF McpStatuses, McpCodes
<1>5. QED
  BY <1>1, <1>2, <1>3, <1>4

LEMMA CallToolKeeps ==
  ASSUME McpInv, CallTool
  PROVE  McpInv'
<1>1. mcp.at = "dispatched" /\ mcp.body.method = "tools/call"
  BY DEF CallTool
<1>2. CASE Respond(200, "internal")
  BY <1>1, <1>2, RespondKeeps DEF McpStatuses, McpCodes
<1>3. CASE NotFound
  BY <1>1, <1>3, NotFoundKeeps
<1>4. CASE ~Respond(200, "internal") /\ ~NotFound
  <2>1. PICK a \in Found(mcp.catalog, mcp.body.name) : mcp' = [mcp EXCEPT !.at = "answered", !.status = 200, !.ran = a]
    BY <1>4 DEF CallTool
  <2>2. Usable(mcp.catalog) /\ skillCache' = skillCache
    BY <1>4 DEF CallTool
  <2>3. Found(mcp.catalog, mcp.body.name) = {a} /\ a \in Exposable /\ a \in ActionIds
    BY <2>1, <2>2, McpAssumption DEF Found, Usable
  <2> DEFINE new == [mcp EXCEPT !.at = "answered", !.status = 200, !.ran = a]
  <2>4. /\ new \in McpRequest /\ new.at = "answered" /\ new.body = mcp.body /\ new.catalog = mcp.catalog
        /\ new.headers = mcp.headers /\ new.ran = a /\ new.caller = mcp.caller
    <3> DEFINE m1 == [mcp EXCEPT !.at = "answered"]
               m2 == [m1 EXCEPT !.status = 200]
               m3 == [m2 EXCEPT !.ran = a]
    <3>1. m1 \in McpRequest
      BY McpParts, SetAt DEF McpStages
    <3> HIDE DEF m1
    <3>2. m2 \in McpRequest
      <4>1. 200 \in McpStatuses
        BY DEF McpStatuses
      <4>2. QED
        BY <3>1, <4>1, SetStatus
    <3> HIDE DEF m2
    <3>3. m3 \in McpRequest
      BY <2>3, <3>2, SetRan
    <3>4. new = m3
      BY Zenon DEF m1, m2
    <3>5. new \in McpRequest
      BY <3>3, <3>4
    <3>6. QED
      BY <3>5, McpParts DEF McpRequest
  <2>5. mcp' = new
    BY <2>1
  <2> HIDE DEF new
  <2>6. Agrees' /\ mcp'.caller /\ ~mcp'.body.notification
    BY <1>1, <2>4, <2>5 DEF McpInv, Agrees
  <2>7. RunsWhatIsListed'
    BY <1>1, <2>3, <2>4, <2>5, <2>6 DEF RunsWhatIsListed, Found
  <2>8. QED
    BY <2>2, <2>4, <2>5, <2>6, <2>7, McpParts DEF McpInv, McpTypeOK
<1>5. QED
  BY <1>2, <1>3, <1>4

LEMMA McpNextKeeps ==
  ASSUME McpInv, [McpNext]_mcpVars
  PROVE  McpInv'
<1>1. CASE Unauthorized \/ Malformed
  BY <1>1, RespondKeeps DEF McpStatuses, McpCodes, Unauthorized, Malformed
<1>2. CASE NextRequest
  <2>1. mcp' = Idle /\ skillCache' = skillCache
    BY <1>2 DEF NextRequest
  <2>2. NoBody \in Body /\ NoHeaders \in Headers
    BY DEF NoBody, Body, Methods, NoHeaders, Headers
  <2>3. Idle \in McpRequest /\ Idle.at = "idle" /\ Idle.ran = Absent
    BY <2>2 DEF Idle, McpRequest
  <2>4. QED
    BY <2>1, <2>3, McpParts DEF McpInv, McpTypeOK, RunsWhatIsListed
<1>3. CASE UNCHANGED mcpVars
  BY <1>3 DEF mcpVars, McpInv, McpTypeOK, RunsWhatIsListed, Agrees
<1>4. QED
  BY <1>1, <1>2, <1>3, ReceiveKeeps, ValidateKeeps, DispatchKeeps, CallToolKeeps DEF McpNext

LEMMA McpInvariant == McpSpec => []McpInv
BY McpInitOK, McpNextKeeps, PTL DEF McpSpec

\* What is carried out is what the headers announce, and what runs is the one action
\* of the caller's own catalog that has the name, for any catalog and any names
\* (mcp/server.ts, protocol.ts, tools.ts).
THEOREM EnvelopesAreSound == McpSpec => []McpSound
<1>1. McpInv => McpSound
  <2> SUFFICES ASSUME McpInv PROVE McpSound
    OBVIOUS
  <2>1. DoneAsAnnounced
    BY DEF McpInv, DoneAsAnnounced, Agrees
  <2>2. QED
    BY <2>1 DEF McpSound, McpInv
<1>2. QED
  BY <1>1, McpInvariant, PTL

-----------------------------------------------------------------------------
(* The budgets of the front door.                                          *)

Window(k, t) == {a \in admitted : a.counter = k /\ a.resetAt = t}

\* A row has counted whoever its window let through, and whoever an earlier window
\* let through is a window's length behind.
RowCounts(k) ==
  /\ bucketRow[k].live =>
       /\ bucketRow[k].count <= Budget[k.bucket]
       /\ bucketRow[k].resetAt <= edgeClock + WindowLength
       /\ Cardinality(Window(k, bucketRow[k].resetAt)) <= bucketRow[k].count
       /\ \A a \in admitted : a.counter = k /\ a.resetAt # bucketRow[k].resetAt =>
            a.resetAt + WindowLength <= bucketRow[k].resetAt
  /\ ~bucketRow[k].live => \A a \in admitted : a.counter = k => a.resetAt <= edgeClock

\* A request has passed the budgets it has passed.
Metered(r) ==
  httpRequest[r].at \in {"checking", "handling", "done"} =>
    /\ \A i \in 1..httpRequest[r].passed : \E a \in admitted : a.request = r /\ a.counter = BudgetsOf(r)[i]
    /\ httpRequest[r].passed <= Len(BudgetsOf(r))
    /\ httpRequest[r].at = "checking" <=> httpRequest[r].passed < Len(BudgetsOf(r))

EdgeInv ==
  /\ EdgeTypeOK
  /\ IsFiniteSet(admitted)
  /\ WithinBudget
  /\ \A k \in Counters : RowCounts(k)
  /\ \A r \in Requests : Metered(r)

LEMMA EdgeInitOK == EdgeInit => EdgeInv
<1> SUFFICES ASSUME EdgeInit PROVE EdgeInv
  OBVIOUS
<1>1. (CHOOSE p \in Peers : TRUE) \in Peers
  BY EdgeAssumption
<1>2. NoRow \in BucketRow /\ ~NoRow.live
  BY DEF NoRow, BucketRow
<1>3. bucketRow \in [Counters -> {NoRow}] /\ admitted = {} /\ edgeClock = 0 /\ edgeFaults = 0
  BY DEF EdgeInit
<1> DEFINE new == [route |-> "nowhere", peer |-> CHOOSE p \in Peers : TRUE, passed |-> 0, at |-> "absent"]
<1>4. new \in HttpRequest /\ new.at = "absent"
  BY <1>1 DEF HttpRequest, AllRoutes
<1>5. httpRequest = [r \in Requests |-> new]
  BY DEF EdgeInit
<1> HIDE DEF new
<1>6. httpRequest \in [Requests -> HttpRequest] /\ \A r \in Requests : httpRequest[r].at = "absent"
  BY <1>4, <1>5
<1>7. EdgeTypeOK
  BY <1>2, <1>3, <1>6, EdgeAssumption DEF EdgeTypeOK
<1>8. IsFiniteSet(admitted)
  BY <1>3, FS_EmptySet
<1>9. WithinBudget /\ \A k \in Counters : RowCounts(k)
  BY <1>2, <1>3 DEF WithinBudget, RowCounts
<1>10. \A r \in Requests : Metered(r)
  BY <1>6 DEF Metered
<1>11. QED
  BY <1>7, <1>8, <1>9, <1>10 DEF EdgeInv

LEMMA EdgeNumbers ==
  /\ WindowLength \in Nat /\ WindowLength > 0 /\ MaxEdgeTime \in Nat /\ MaxEdgeFaults \in Nat
  /\ \A k \in Counters : Budget[k.bucket] \in Nat /\ Budget[k.bucket] > 0
<1>1. \A k \in Counters : k.bucket \in Buckets
  BY DEF Counters
<1>2. QED
  BY <1>1, EdgeAssumption

LEMMA EdgeParts ==
  ASSUME EdgeInv
  PROVE  /\ bucketRow \in [Counters -> BucketRow] /\ httpRequest \in [Requests -> HttpRequest]
         /\ admitted \subseteq [counter : Counters, request : Requests, resetAt : Nat] /\ IsFiniteSet(admitted)
         /\ edgeClock \in 0..MaxEdgeTime /\ edgeClock \in Nat /\ edgeFaults \in 0..MaxEdgeFaults
         /\ \A k \in Counters : RowCounts(k)
         /\ \A r \in Requests : Metered(r)
BY EdgeNumbers DEF EdgeInv, EdgeTypeOK

\* A route draws on two budgets at most, all of them counters of its peer.
LEMMA BudgetsAre ==
  ASSUME NEW route \in AllRoutes, NEW peer \in Peers
  PROVE  Budgets(route, peer) \in Seq(Counters) /\ Len(Budgets(route, peer)) \in 0..2
<1>1. \A b \in Buckets, x \in {"", "ws:", "start:", "claim:"} : Counter(b, x, peer) \in Counters
  BY DEF Counter, Counters
<1>2. EdgeBudget(route, peer) = <<>> \/ \E k \in Counters : EdgeBudget(route, peer) = <<k>>
  BY <1>1, Zenon DEF EdgeBudget, Buckets
<1>3. OwnBudget(route, peer) = <<>> \/ \E k \in Counters : OwnBudget(route, peer) = <<k>>
  BY <1>1, Zenon DEF OwnBudget, Buckets
<1>4. EdgeBudget(route, peer) \in Seq(Counters) /\ Len(EdgeBudget(route, peer)) \in 0..1
  <2>1. CASE EdgeBudget(route, peer) = <<>>
    BY <2>1
  <2>2. ASSUME NEW k \in Counters, EdgeBudget(route, peer) = <<k>>
        PROVE  EdgeBudget(route, peer) \in Seq(Counters) /\ Len(EdgeBudget(route, peer)) = 1
    BY <2>2
  <2>3. QED
    BY <1>2, <2>1, <2>2
<1>5. OwnBudget(route, peer) \in Seq(Counters) /\ Len(OwnBudget(route, peer)) \in 0..1
  <2>1. CASE OwnBudget(route, peer) = <<>>
    BY <2>1
  <2>2. ASSUME NEW k \in Counters, OwnBudget(route, peer) = <<k>>
        PROVE  OwnBudget(route, peer) \in Seq(Counters) /\ Len(OwnBudget(route, peer)) = 1
    BY <2>2
  <2>3. QED
    BY <1>3, <2>1, <2>2
<1>6. QED
  BY <1>4, <1>5 DEF Budgets

LEMMA BudgetsOfRequest ==
  ASSUME EdgeInv, NEW r \in Requests
  PROVE  BudgetsOf(r) \in Seq(Counters) /\ Len(BudgetsOf(r)) \in 0..2 /\ httpRequest[r] \in HttpRequest
<1>1. httpRequest[r] \in HttpRequest /\ httpRequest[r].route \in AllRoutes /\ httpRequest[r].peer \in Peers
  BY EdgeParts DEF HttpRequest
<1>2. QED
  BY <1>1, BudgetsAre DEF BudgetsOf

LEMMA WindowsAreFinite ==
  ASSUME EdgeInv, NEW k, NEW t
  PROVE  IsFiniteSet(Window(k, t)) /\ Cardinality(Window(k, t)) \in Nat
<1>1. Window(k, t) \subseteq admitted
  BY DEF Window
<1>2. QED
  BY <1>1, EdgeParts, FS_Subset, FS_CardinalityType

\* The row a granted call leaves counts one call more than its window let through,
\* and every earlier window is over.
LEMMA ConsumedRow ==
  ASSUME EdgeInv, NEW k \in Counters, Allows(k)
  PROVE  /\ Consumed(k) \in BucketRow /\ Consumed(k).live
         /\ Consumed(k).count <= Budget[k.bucket] /\ Consumed(k).resetAt <= edgeClock + WindowLength
         /\ Cardinality(Window(k, Consumed(k).resetAt)) < Consumed(k).count
         /\ \A a \in admitted : a.counter = k /\ a.resetAt # Consumed(k).resetAt =>
              a.resetAt + WindowLength <= Consumed(k).resetAt
<1> DEFINE row == bucketRow[k]
           fresh == [live |-> TRUE, count |-> 1, resetAt |-> edgeClock + WindowLength]
           next == [row EXCEPT !.count = row.count + 1]
<1>1. row \in BucketRow /\ RowCounts(k) /\ \A a \in admitted : a.resetAt \in Nat
  BY EdgeParts
<1>2. row.live \in BOOLEAN /\ row.count \in Nat /\ row.resetAt \in Nat
  BY <1>1 DEF BucketRow
<1>3. CASE ~row.live \/ Lapsed(row)
  <2>1. Consumed(k) = fresh
    BY <1>3 DEF Consumed
  <2>2. fresh \in BucketRow /\ fresh.live /\ fresh.count = 1 /\ fresh.resetAt = edgeClock + WindowLength
    BY EdgeParts, EdgeNumbers DEF BucketRow
  <2> HIDE DEF fresh
  <2>3. \A a \in admitted : a.counter = k => a.resetAt <= edgeClock
    <3>1. CASE ~row.live
      BY <1>1, <3>1 DEF RowCounts
    <3>2. CASE row.live /\ row.resetAt <= edgeClock
      <4>1. \A a \in admitted : a.counter = k => a.resetAt = row.resetAt \/ a.resetAt + WindowLength <= row.resetAt
        BY <1>1, <3>2 DEF RowCounts
      <4>2. QED
        BY <1>1, <1>2, <3>2, <4>1, EdgeParts, EdgeNumbers
    <3>3. QED
      BY <1>2, <1>3, <3>1, <3>2 DEF Lapsed
  <2>4. Window(k, fresh.resetAt) = {}
    BY <1>1, <2>2, <2>3, EdgeParts, EdgeNumbers DEF Window
  <2>5. Cardinality(Window(k, fresh.resetAt)) = 0
    BY <2>4, FS_EmptySet
  <2>6. \A a \in admitted : a.counter = k => a.resetAt + WindowLength <= fresh.resetAt
    BY <1>1, <2>2, <2>3, EdgeParts, EdgeNumbers
  <2>7. 1 <= Budget[k.bucket] /\ fresh.resetAt <= edgeClock + WindowLength
    BY <2>2, EdgeNumbers, EdgeParts
  <2>8. QED
    BY <2>1, <2>2, <2>5, <2>6, <2>7
<1>4. CASE row.live /\ ~Lapsed(row)
  <2>1. Consumed(k) = next /\ row.count < Budget[k.bucket]
    BY <1>4 DEF Consumed, Allows
  <2>2. next \in BucketRow /\ next.live /\ next.count = row.count + 1 /\ next.resetAt = row.resetAt
    BY <1>1, <1>2, <1>4 DEF BucketRow
  <2> HIDE DEF next
  <2>3. /\ Cardinality(Window(k, row.resetAt)) <= row.count /\ row.resetAt <= edgeClock + WindowLength
        /\ \A a \in admitted : a.counter = k /\ a.resetAt # row.resetAt => a.resetAt + WindowLength <= row.resetAt
    BY <1>1, <1>4 DEF RowCounts
  <2>4. Cardinality(Window(k, row.resetAt)) < row.count + 1 /\ row.count + 1 <= Budget[k.bucket]
    BY <1>2, <2>1, <2>3, WindowsAreFinite, EdgeNumbers
  <2>5. QED
    BY <2>1, <2>2, <2>3, <2>4
<1>5. QED
  BY <1>2, <1>3, <1>4

\* A granted call is counted, and the request it let through noted, unless the
\* answer is lost.
LEMMA GrantKeeps ==
  ASSUME EdgeInv, NEW k \in Counters, NEW r \in Requests, NEW n \in BucketRow,
         n.live, n.count <= Budget[k.bucket], n.resetAt <= edgeClock + WindowLength,
         Cardinality(Window(k, n.resetAt)) < n.count,
         \A a \in admitted : a.counter = k /\ a.resetAt # n.resetAt => a.resetAt + WindowLength <= n.resetAt,
         bucketRow' = [bucketRow EXCEPT ![k] = n], edgeClock' = edgeClock,
         admitted' \in {admitted, admitted \cup {[counter |-> k, request |-> r, resetAt |-> n.resetAt]}}
  PROVE  /\ bucketRow' \in [Counters -> BucketRow]
         /\ admitted' \subseteq [counter : Counters, request : Requests, resetAt : Nat] /\ IsFiniteSet(admitted')
         /\ WithinBudget' /\ \A x \in Counters : RowCounts(x)'
<1> DEFINE t == n.resetAt
           e == [counter |-> k, request |-> r, resetAt |-> t]
<1>1. t \in Nat /\ n.count \in Nat /\ edgeClock \in Nat
  BY EdgeParts DEF BucketRow
<1>2. e \in [counter : Counters, request : Requests, resetAt : Nat] /\ e.counter = k /\ e.resetAt = t
  BY <1>1
<1>3. admitted \subseteq admitted' /\ admitted' \subseteq admitted \cup {e}
  OBVIOUS
<1>4. \A a \in admitted : a.counter = k /\ a.resetAt # t => a.resetAt + WindowLength <= t
  OBVIOUS
<1> HIDE DEF t, e
<1>5. /\ bucketRow' \in [Counters -> BucketRow] /\ bucketRow'[k] = n
      /\ \A x \in Counters : x # k => bucketRow'[x] = bucketRow[x]
  BY EdgeParts
<1>6. admitted' \subseteq [counter : Counters, request : Requests, resetAt : Nat] /\ IsFiniteSet(admitted')
  <2>1. IsFiniteSet(admitted \cup {e})
    BY EdgeParts, FS_AddElement
  <2>2. QED
    BY <1>2, <1>3, <2>1, EdgeParts, FS_Subset
<1>7. Cardinality({a \in admitted' : a.counter = k /\ a.resetAt = t}) <= n.count
  <2> DEFINE old == {a \in admitted : a.counter = k /\ a.resetAt = t}
             new == {a \in admitted' : a.counter = k /\ a.resetAt = t}
  <2>1. IsFiniteSet(old) /\ Cardinality(old) \in Nat /\ Cardinality(old) < n.count
    <3>1. old = Window(k, t)
      BY DEF Window
    <3>2. Cardinality(Window(k, t)) < n.count
      BY DEF t
    <3>3. QED
      BY <3>1, <3>2, WindowsAreFinite
  <2>2. new \subseteq old \cup {e}
    BY <1>3
  <2> HIDE DEF old, new
  <2>3. IsFiniteSet(old \cup {e}) /\ Cardinality(old \cup {e}) <= Cardinality(old) + 1
    <3>1. IsFiniteSet(old \cup {e}) /\ (Cardinality(old \cup {e}) = Cardinality(old) \/ Cardinality(old \cup {e}) = Cardinality(old) + 1)
      BY <2>1, FS_AddElement, Zenon
    <3>2. QED
      BY <2>1, <3>1
  <2>4. Cardinality(new) <= Cardinality(old \cup {e}) /\ Cardinality(new) \in Nat /\ Cardinality(old \cup {e}) \in Nat
    BY <2>2, <2>3, FS_Subset, FS_CardinalityType
  <2>5. Cardinality(new) <= n.count
    BY <1>1, <2>1, <2>3, <2>4
  <2>6. QED
    BY <2>5 DEF new
<1>8. ASSUME NEW x, NEW u, x # k \/ u # t
      PROVE  {a \in admitted' : a.counter = x /\ a.resetAt = u} = Window(x, u)
  BY <1>2, <1>3, <1>8 DEF Window
<1>9. \A a \in admitted' : a.counter # k \/ a.resetAt # t => a \in admitted
  BY <1>2, <1>3
<1>10. ASSUME NEW a \in admitted'
       PROVE  /\ Cardinality({b \in admitted' : b.counter = a.counter /\ b.resetAt = a.resetAt}) <= Budget[a.counter.bucket]
              /\ \A b \in admitted' :
                   b.counter = a.counter /\ b.resetAt > a.resetAt => b.resetAt >= a.resetAt + WindowLength
  <2>1. CASE a.counter = k /\ a.resetAt = t
    <3>1. Cardinality({b \in admitted' : b.counter = a.counter /\ b.resetAt = a.resetAt}) <= n.count
      BY <1>7, <2>1
    <3>2. Cardinality({b \in admitted' : b.counter = k /\ b.resetAt = t}) \in Nat
      <4>1. {b \in admitted' : b.counter = k /\ b.resetAt = t} \subseteq admitted'
        OBVIOUS
      <4>2. QED
        BY <1>6, <4>1, FS_Subset, FS_CardinalityType
    <3>3. \A b \in admitted' : b.resetAt \in Nat
      BY <1>6
    <3>4. \A b \in admitted' : b.counter = k /\ b.resetAt > t => b.resetAt + WindowLength <= t
      BY <1>1, <1>4, <1>9, <3>3
    <3>5. \A b \in admitted' : ~(b.counter = k /\ b.resetAt > t)
      BY <1>1, <3>3, <3>4, EdgeNumbers
    <3>6. QED
      BY <1>1, <2>1, <3>1, <3>2, <3>5, EdgeNumbers
  <2>2. CASE a.counter # k \/ a.resetAt # t
    <3>1. a \in admitted
      BY <1>9, <2>2
    <3>2. /\ Cardinality(Window(a.counter, a.resetAt)) <= Budget[a.counter.bucket]
          /\ \A b \in admitted :
               b.counter = a.counter /\ b.resetAt > a.resetAt => b.resetAt >= a.resetAt + WindowLength
      BY <3>1 DEF EdgeInv, WithinBudget, Window
    <3>3. {b \in admitted' : b.counter = a.counter /\ b.resetAt = a.resetAt} = Window(a.counter, a.resetAt)
      BY <1>8, <2>2
    <3>4. ASSUME NEW b \in admitted', b.counter = a.counter, b.resetAt > a.resetAt
          PROVE  b.resetAt >= a.resetAt + WindowLength
      <4>1. CASE b \in admitted
        BY <3>2, <3>4, <4>1
      <4>2. CASE b \notin admitted
        <5>1. b.counter = k /\ b.resetAt = t
          BY <1>9, <4>2
        <5>2. a.resetAt + WindowLength <= t
          BY <1>4, <2>2, <3>1, <3>4, <5>1
        <5>3. a.resetAt \in Nat
          BY <1>6
        <5>4. QED
          BY <1>1, <5>1, <5>2, <5>3, EdgeNumbers
      <4>3. QED
        BY <4>1, <4>2
    <3>5. QED
      BY <3>2, <3>3, <3>4
  <2>3. QED
    BY <2>1, <2>2
<1>11. RowCounts(k)'
  <2>1. bucketRow'[k].live /\ bucketRow'[k].count = n.count /\ bucketRow'[k].resetAt = t
    BY <1>5 DEF t
  <2>2. Cardinality(Window(k, bucketRow[k].resetAt))' <= n.count
    BY <1>7, <2>1 DEF Window
  <2>3. \A a \in admitted' : a.counter = k /\ a.resetAt # t => a.resetAt + WindowLength <= t
    BY <1>4, <1>9
  <2>4. n.count <= Budget[k.bucket] /\ t <= edgeClock' + WindowLength
    BY DEF t
  <2>5. QED
    BY <2>1, <2>2, <2>3, <2>4 DEF RowCounts
<1>12. ASSUME NEW x \in Counters, x # k
       PROVE  RowCounts(x)'
  <2>1. RowCounts(x) /\ bucketRow'[x] = bucketRow[x]
    BY <1>5, <1>12, EdgeParts
  <2>2. \A a \in admitted' : a.counter = x => a \in admitted
    BY <1>9, <1>12
  <2>3. Window(x, bucketRow[x].resetAt)' = Window(x, bucketRow[x].resetAt)
    BY <1>8, <1>12, <2>1 DEF Window
  <2>4. Cardinality(Window(x, bucketRow[x].resetAt))' = Cardinality(Window(x, bucketRow[x].resetAt))
    BY <2>3
  <2>5. QED
    BY <2>1, <2>2, <2>4 DEF RowCounts
<1>13. QED
  BY <1>5, <1>6, <1>10, <1>11, <1>12 DEF WithinBudget

\* Where no row is written and nothing noted, the books stay right as time passes.
LEMMA BooksKept ==
  ASSUME EdgeInv, UNCHANGED <<bucketRow, admitted>>, edgeClock' \in Nat, edgeClock <= edgeClock'
  PROVE  WithinBudget' /\ \A k \in Counters : RowCounts(k)'
<1>1. WithinBudget'
  BY DEF EdgeInv, WithinBudget
<1>2. ASSUME NEW k \in Counters
      PROVE  RowCounts(k)'
  <2>1. RowCounts(k) /\ bucketRow[k] \in BucketRow /\ \A a \in admitted : a.resetAt \in Nat
    BY EdgeParts
  <2>2. bucketRow[k].resetAt \in Nat
    BY <2>1 DEF BucketRow
  <2>3. Cardinality(Window(k, bucketRow[k].resetAt))' = Cardinality(Window(k, bucketRow[k].resetAt))
    BY DEF Window
  <2>4. bucketRow[k].resetAt <= edgeClock + WindowLength => bucketRow[k].resetAt <= edgeClock' + WindowLength
    BY <2>2, EdgeParts, EdgeNumbers
  <2>5. \A a \in admitted : a.resetAt <= edgeClock => a.resetAt <= edgeClock'
    BY <2>1, EdgeParts
  <2>6. QED
    BY <2>1, <2>3, <2>4, <2>5 DEF RowCounts
<1>3. QED
  BY <1>1, <1>2

\* One request moves on, having passed what its new row says it has.
LEMMA RequestMoves ==
  ASSUME EdgeInv, NEW r \in Requests, NEW q \in HttpRequest, httpRequest' = [httpRequest EXCEPT ![r] = q],
         admitted \subseteq admitted',
         q.at \in {"checking", "handling", "done"} =>
           /\ \A i \in 1..q.passed : \E a \in admitted' : a.request = r /\ a.counter = Budgets(q.route, q.peer)[i]
           /\ q.passed <= Len(Budgets(q.route, q.peer))
           /\ q.at = "checking" <=> q.passed < Len(Budgets(q.route, q.peer))
  PROVE  httpRequest' \in [Requests -> HttpRequest] /\ \A x \in Requests : Metered(x)'
<1>1. /\ httpRequest' \in [Requests -> HttpRequest] /\ httpRequest'[r] = q
      /\ \A x \in Requests : x # r => httpRequest'[x] = httpRequest[x]
  BY EdgeParts
<1>2. Metered(r)'
  BY <1>1 DEF Metered, BudgetsOf
<1>3. ASSUME NEW x \in Requests, x # r
      PROVE  Metered(x)'
  <2>1. Metered(x) /\ httpRequest'[x] = httpRequest[x]
    BY <1>1, <1>3, EdgeParts
  <2>2. QED
    BY <2>1 DEF Metered, BudgetsOf
<1>4. QED
  BY <1>1, <1>2, <1>3

\* Past a budget: what a request is of stays, and it waits at the next one exactly
\* if there is one.
LEMMA OnwardRow ==
  ASSUME NEW q \in HttpRequest, q.passed <= Len(Budgets(q.route, q.peer))
  PROVE  /\ Onward(q) \in HttpRequest
         /\ Onward(q).route = q.route /\ Onward(q).peer = q.peer /\ Onward(q).passed = q.passed
         /\ Onward(q).at \in {"checking", "handling", "done"} =>
              (Onward(q).at = "checking" <=> q.passed < Len(Budgets(q.route, q.peer)))
<1>1. q.route \in AllRoutes /\ q.peer \in Peers /\ q.passed \in 0..2
  BY DEF HttpRequest
<1>2. Len(Budgets(q.route, q.peer)) \in 0..2
  BY <1>1, BudgetsAre
<1> DEFINE where == IF q.route = "nowhere" THEN "refused"
                    ELSE IF q.passed = Len(Budgets(q.route, q.peer)) THEN "handling" ELSE "checking"
           on == [q EXCEPT !.at = where]
<1>3. Onward(q) = on
  BY DEF Onward
<1>4. /\ where \in {"checking", "handling", "refused"}
      /\ where # "refused" => (where = "checking" <=> q.passed < Len(Budgets(q.route, q.peer)))
  BY <1>1, <1>2
<1> HIDE DEF where
<1>5. on \in HttpRequest /\ on.route = q.route /\ on.peer = q.peer /\ on.passed = q.passed /\ on.at = where
  BY <1>4 DEF HttpRequest
<1> HIDE DEF on
<1>6. QED
  BY <1>3, <1>4, <1>5

LEMMA ReceivePeerKeeps ==
  ASSUME EdgeInv, NEW r \in Requests, NEW route \in ServedRoutes, NEW p \in Peers, ArriveAtEdge(r, route, p)
  PROVE  EdgeInv'
<1> DEFINE q == [route |-> route, peer |-> p, passed |-> 0, at |-> "checking"]
<1>1. route \in AllRoutes
  BY EdgeAssumption
<1>2. q \in HttpRequest /\ q.passed = 0 /\ q.route = route /\ q.peer = p
  BY <1>1 DEF HttpRequest
<1>3. httpRequest' = [httpRequest EXCEPT ![r] = Onward(q)] /\ UNCHANGED <<bucketRow, admitted, edgeClock, edgeFaults>>
  BY DEF ArriveAtEdge
<1> HIDE DEF q
<1>4. q.passed <= Len(Budgets(q.route, q.peer))
  BY <1>1, <1>2, BudgetsAre
<1>5. /\ Onward(q) \in HttpRequest
      /\ Onward(q).route = q.route /\ Onward(q).peer = q.peer /\ Onward(q).passed = 0
      /\ Onward(q).at \in {"checking", "handling", "done"} =>
           (Onward(q).at = "checking" <=> q.passed < Len(Budgets(q.route, q.peer)))
  BY <1>2, <1>4, OnwardRow
<1>6. httpRequest' \in [Requests -> HttpRequest] /\ \A x \in Requests : Metered(x)'
  <2>1. 1..Onward(q).passed = {}
    BY <1>5
  <2>2. /\ \A i \in 1..Onward(q).passed :
               \E a \in admitted' : a.request = r /\ a.counter = Budgets(Onward(q).route, Onward(q).peer)[i]
        /\ Onward(q).passed <= Len(Budgets(Onward(q).route, Onward(q).peer))
    BY <1>2, <1>4, <1>5, <2>1
  <2>3. Onward(q).at \in {"checking", "handling", "done"} =>
          (Onward(q).at = "checking" <=> Onward(q).passed < Len(Budgets(Onward(q).route, Onward(q).peer)))
    BY <1>2, <1>5
  <2>4. PICK o \in HttpRequest : o = Onward(q)
    BY <1>5
  <2>5. QED
    BY <1>3, <2>2, <2>3, <2>4, RequestMoves
<1>7. WithinBudget' /\ \A k \in Counters : RowCounts(k)'
  BY <1>3, BooksKept, EdgeParts
<1>8. QED
  BY <1>3, <1>6, <1>7, EdgeParts DEF EdgeInv, EdgeTypeOK

\* The budget a waiting request is at is one of its route's.
LEMMA NextBudget ==
  ASSUME EdgeInv, NEW r \in Requests, httpRequest[r].at = "checking"
  PROVE  /\ httpRequest[r].passed \in Nat /\ httpRequest[r].passed + 1 <= Len(BudgetsOf(r)) /\ Len(BudgetsOf(r)) <= 2
         /\ BudgetsOf(r)[httpRequest[r].passed + 1] \in Counters
<1>1. httpRequest[r].passed \in 0..2 /\ Metered(r) /\ BudgetsOf(r) \in Seq(Counters) /\ Len(BudgetsOf(r)) \in 0..2
  BY EdgeParts, BudgetsOfRequest DEF HttpRequest
<1>2. httpRequest[r].passed < Len(BudgetsOf(r))
  BY <1>1 DEF Metered
<1>3. httpRequest[r].passed + 1 \in 1..Len(BudgetsOf(r))
  BY <1>1, <1>2
<1>4. \A i \in 1..Len(BudgetsOf(r)) : BudgetsOf(r)[i] \in Counters
  BY <1>1
<1>5. QED
  BY <1>1, <1>3, <1>4

\* What a granted call writes keeps the books, noted or not.
LEMMA GrantedKeeps ==
  ASSUME EdgeInv, NEW k \in Counters, NEW r \in Requests, Allows(k),
         bucketRow' = [bucketRow EXCEPT ![k] = Consumed(k)], edgeClock' = edgeClock,
         admitted' \in {admitted, admitted \cup {[counter |-> k, request |-> r, resetAt |-> Consumed(k).resetAt]}}
  PROVE  /\ bucketRow' \in [Counters -> BucketRow]
         /\ admitted' \subseteq [counter : Counters, request : Requests, resetAt : Nat] /\ IsFiniteSet(admitted')
         /\ WithinBudget' /\ \A x \in Counters : RowCounts(x)'
<1>1. PICK n \in BucketRow : n = Consumed(k)
  BY ConsumedRow
<1>2. /\ n.live /\ n.count <= Budget[k.bucket] /\ n.resetAt <= edgeClock + WindowLength
      /\ Cardinality(Window(k, n.resetAt)) < n.count
      /\ \A a \in admitted : a.counter = k /\ a.resetAt # n.resetAt => a.resetAt + WindowLength <= n.resetAt
  BY <1>1, ConsumedRow
<1>3. /\ bucketRow' = [bucketRow EXCEPT ![k] = n]
      /\ admitted' \in {admitted, admitted \cup {[counter |-> k, request |-> r, resetAt |-> n.resetAt]}}
  BY <1>1
<1>4. QED
  BY <1>2, <1>3, GrantKeeps

LEMMA ConsumeKeeps ==
  ASSUME EdgeInv, NEW r \in Requests, Consume(r)
  PROVE  EdgeInv'
<1> DEFINE k == BudgetsOf(r)[httpRequest[r].passed + 1]
           e == [counter |-> k, request |-> r, resetAt |-> Consumed(k).resetAt]
<1>1. httpRequest[r].at = "checking" /\ UNCHANGED <<edgeClock, edgeFaults>>
  BY DEF Consume
<1>2. /\ httpRequest[r].passed \in Nat /\ httpRequest[r].passed + 1 <= Len(BudgetsOf(r)) /\ Len(BudgetsOf(r)) <= 2
      /\ Len(BudgetsOf(r)) \in Nat /\ k \in Counters
  BY <1>1, NextBudget, BudgetsOfRequest
<1>3. CASE Allows(k) /\ admitted' = admitted \cup {e}
  <2> DEFINE q == [httpRequest[r] EXCEPT !.passed = httpRequest[r].passed + 1]
  <2>1. /\ bucketRow' = [bucketRow EXCEPT ![k] = Consumed(k)]
        /\ httpRequest' = [httpRequest EXCEPT ![r] = Onward(q)]
    <3>1. CASE Allows(k)
      BY <3>1 DEF Consume
    <3>2. QED
      BY <1>3, <3>1
  <2>2. e.request = r /\ e.counter = k
    OBVIOUS
  <2>3. /\ bucketRow' \in [Counters -> BucketRow]
        /\ admitted' \subseteq [counter : Counters, request : Requests, resetAt : Nat] /\ IsFiniteSet(admitted')
        /\ WithinBudget' /\ \A x \in Counters : RowCounts(x)'
    <3>1. PICK c \in Counters : c = k
      BY <1>2
    <3>2. QED
      BY <1>1, <1>3, <2>1, <3>1, GrantedKeeps
  <2>4. /\ q \in HttpRequest /\ q.passed = httpRequest[r].passed + 1
        /\ q.route = httpRequest[r].route /\ q.peer = httpRequest[r].peer
    <3>1. httpRequest[r].passed + 1 \in 0..2
      BY <1>2
    <3>2. QED
      BY <3>1, BudgetsOfRequest DEF HttpRequest
  <2> HIDE DEF q, e
  <2>5. BudgetsOf(r) = Budgets(q.route, q.peer)
    BY <2>4 DEF BudgetsOf
  <2>6. PICK o \in HttpRequest : o = Onward(q)
    BY <1>2, <2>4, <2>5, OnwardRow
  <2>7. /\ o.route = q.route /\ o.peer = q.peer /\ o.passed = q.passed
        /\ o.at \in {"checking", "handling", "done"} =>
             (o.at = "checking" <=> q.passed < Len(Budgets(q.route, q.peer)))
    BY <1>2, <2>4, <2>5, <2>6, OnwardRow
  <2>8. \A i \in 1..httpRequest[r].passed : \E a \in admitted : a.request = r /\ a.counter = BudgetsOf(r)[i]
    BY <1>1, EdgeParts DEF Metered
  <2>9. ASSUME NEW i \in 1..o.passed
        PROVE  \E a \in admitted' : a.request = r /\ a.counter = Budgets(o.route, o.peer)[i]
    <3>1. i \in 1..httpRequest[r].passed \/ i = httpRequest[r].passed + 1
      BY <1>2, <2>4, <2>7
    <3>2. Budgets(o.route, o.peer) = BudgetsOf(r)
      BY <2>5, <2>7
    <3>3. CASE i \in 1..httpRequest[r].passed
      BY <1>3, <2>8, <3>2, <3>3
    <3>4. CASE i = httpRequest[r].passed + 1
      BY <1>3, <2>2, <3>2, <3>4
    <3>5. QED
      BY <3>1, <3>3, <3>4
  <2>10. httpRequest' = [httpRequest EXCEPT ![r] = o] /\ admitted \subseteq admitted'
    BY <1>3, <2>1, <2>6
  <2>11. o.passed <= Len(Budgets(o.route, o.peer))
    BY <1>2, <2>4, <2>5, <2>7
  <2>12. httpRequest' \in [Requests -> HttpRequest] /\ \A x \in Requests : Metered(x)'
    BY <2>7, <2>9, <2>10, <2>11, RequestMoves
  <2>13. QED
    BY <1>1, <2>3, <2>12, EdgeParts DEF EdgeInv, EdgeTypeOK
<1>4. CASE ~Allows(k) /\ httpRequest' = [httpRequest EXCEPT ![r].at = "refused"] /\ UNCHANGED <<bucketRow, admitted>>
  <2> DEFINE q == [httpRequest[r] EXCEPT !.at = "refused"]
  <2>1. q \in HttpRequest /\ q.at = "refused"
    BY BudgetsOfRequest DEF HttpRequest
  <2>2. httpRequest' = [httpRequest EXCEPT ![r] = q]
    BY <1>4
  <2> HIDE DEF q
  <2>3. httpRequest' \in [Requests -> HttpRequest] /\ \A x \in Requests : Metered(x)'
    BY <1>4, <2>1, <2>2, RequestMoves
  <2>4. WithinBudget' /\ \A x \in Counters : RowCounts(x)'
    BY <1>1, <1>4, BooksKept, EdgeParts
  <2>5. QED
    BY <1>1, <1>4, <2>3, <2>4, EdgeParts DEF EdgeInv, EdgeTypeOK
<1>5. QED
  BY <1>3, <1>4 DEF Consume

\* A request that leaves its budgets leaves them all passed or is refused.
LEMMA RequestLeaves ==
  ASSUME EdgeInv, NEW r \in Requests, NEW s \in {"refused", "done"}, httpRequest[r].at \in {"checking", "handling"},
         s = "done" => httpRequest[r].at = "handling",
         httpRequest' = [httpRequest EXCEPT ![r].at = s], UNCHANGED admitted
  PROVE  httpRequest' \in [Requests -> HttpRequest] /\ \A x \in Requests : Metered(x)'
<1> DEFINE q == [httpRequest[r] EXCEPT !.at = s]
<1>1. q \in HttpRequest
  BY BudgetsOfRequest DEF HttpRequest
<1>2. /\ q.at = s /\ q.passed = httpRequest[r].passed
      /\ q.route = httpRequest[r].route /\ q.peer = httpRequest[r].peer
  BY BudgetsOfRequest DEF HttpRequest
<1>3. httpRequest' = [httpRequest EXCEPT ![r] = q]
  OBVIOUS
<1> HIDE DEF q
<1>4. BudgetsOf(r) = Budgets(q.route, q.peer)
  BY <1>2 DEF BudgetsOf
<1>5. s = "done" =>
        /\ \A i \in 1..q.passed : \E a \in admitted' : a.request = r /\ a.counter = Budgets(q.route, q.peer)[i]
        /\ q.passed <= Len(Budgets(q.route, q.peer))
        /\ ~(q.passed < Len(Budgets(q.route, q.peer)))
  BY <1>2, <1>4, EdgeParts DEF Metered
<1>6. QED
  BY <1>1, <1>2, <1>3, <1>5, RequestMoves

LEMMA ConsumeFailsKeeps ==
  ASSUME EdgeInv, NEW r \in Requests, ConsumeFails(r)
  PROVE  EdgeInv'
<1> DEFINE k == BudgetsOf(r)[httpRequest[r].passed + 1]
<1>1. /\ httpRequest[r].at = "checking" /\ UNCHANGED <<admitted, edgeClock>>
      /\ edgeFaults < MaxEdgeFaults /\ edgeFaults' = edgeFaults + 1
      /\ httpRequest' = [httpRequest EXCEPT ![r].at = "refused"]
      /\ bucketRow' = bucketRow \/ (Allows(k) /\ bucketRow' = [bucketRow EXCEPT ![k] = Consumed(k)])
  BY DEF ConsumeFails
<1>2. PICK c \in Counters : c = k
  BY <1>1, NextBudget
<1>3. httpRequest' \in [Requests -> HttpRequest] /\ \A x \in Requests : Metered(x)'
  BY <1>1, RequestLeaves
<1>4. /\ bucketRow' \in [Counters -> BucketRow] /\ WithinBudget' /\ \A x \in Counters : RowCounts(x)'
  <2>1. CASE bucketRow' = bucketRow
    BY <1>1, <2>1, BooksKept, EdgeParts
  <2>2. CASE Allows(c) /\ bucketRow' = [bucketRow EXCEPT ![c] = Consumed(c)]
    BY <1>1, <2>2, GrantedKeeps
  <2>3. QED
    BY <1>1, <1>2, <2>1, <2>2
<1>5. edgeFaults' \in 0..MaxEdgeFaults
  BY <1>1, EdgeParts, EdgeNumbers
<1>6. QED
  BY <1>1, <1>3, <1>4, <1>5, EdgeParts DEF EdgeInv, EdgeTypeOK

LEMMA HandlerKeeps ==
  ASSUME EdgeInv, NEW r \in Requests, BodyRejected(r) \/ Handle(r)
  PROVE  EdgeInv'
<1>1. /\ httpRequest[r].at = "handling" /\ UNCHANGED <<bucketRow, admitted, edgeClock, edgeFaults>>
      /\ \/ httpRequest' = [httpRequest EXCEPT ![r].at = "refused"]
         \/ httpRequest' = [httpRequest EXCEPT ![r].at = "done"]
  BY DEF BodyRejected, Handle
<1>2. httpRequest' \in [Requests -> HttpRequest] /\ \A x \in Requests : Metered(x)'
  BY <1>1, RequestLeaves
<1>3. WithinBudget' /\ \A x \in Counters : RowCounts(x)'
  BY <1>1, BooksKept, EdgeParts
<1>4. QED
  BY <1>1, <1>2, <1>3, EdgeParts DEF EdgeInv, EdgeTypeOK

\* A row is swept when its window is over, and then every window of the counter is.
LEMMA SweepBucketKeeps ==
  ASSUME EdgeInv, NEW k \in Counters, SweepBucket(k)
  PROVE  EdgeInv'
<1>1. /\ bucketRow[k].live /\ bucketRow[k].resetAt <= edgeClock /\ bucketRow' = [bucketRow EXCEPT ![k] = NoRow]
      /\ UNCHANGED <<httpRequest, admitted, edgeClock, edgeFaults>>
  BY DEF SweepBucket, Lapsed
<1>2. NoRow \in BucketRow /\ ~NoRow.live
  BY DEF NoRow, BucketRow
<1>3. /\ bucketRow' \in [Counters -> BucketRow] /\ ~bucketRow'[k].live
      /\ \A x \in Counters : x # k => bucketRow'[x] = bucketRow[x]
  BY <1>1, <1>2, EdgeParts
<1>4. ASSUME NEW a \in admitted, a.counter = k
      PROVE  a.resetAt <= edgeClock
  <2>1. a.resetAt \in Nat /\ bucketRow[k].resetAt \in Nat /\ edgeClock \in Nat
    BY EdgeParts DEF BucketRow
  <2>2. a.resetAt = bucketRow[k].resetAt \/ a.resetAt + WindowLength <= bucketRow[k].resetAt
    BY <1>1, <1>4, EdgeParts DEF RowCounts
  <2>3. QED
    BY <1>1, <2>1, <2>2, EdgeNumbers
<1>5. RowCounts(k)'
  BY <1>1, <1>3, <1>4 DEF RowCounts
<1>6. ASSUME NEW x \in Counters, x # k
      PROVE  RowCounts(x)'
  <2>1. RowCounts(x) /\ bucketRow'[x] = bucketRow[x]
    BY <1>3, <1>6, EdgeParts
  <2>2. Window(x, bucketRow[x].resetAt)' = Window(x, bucketRow[x].resetAt)
    BY <1>1, <2>1 DEF Window
  <2>3. Cardinality(Window(x, bucketRow[x].resetAt))' = Cardinality(Window(x, bucketRow[x].resetAt))
    BY <2>2
  <2>4. QED
    BY <1>1, <2>1, <2>3 DEF RowCounts
<1>7. WithinBudget' /\ \A r \in Requests : Metered(r)'
  <2>1. WithinBudget'
    BY <1>1 DEF EdgeInv, WithinBudget
  <2>2. \A r \in Requests : Metered(r)'
    BY <1>1, EdgeParts DEF Metered, BudgetsOf
  <2>3. QED
    BY <2>1, <2>2
<1>8. QED
  BY <1>1, <1>3, <1>5, <1>6, <1>7, EdgeParts DEF EdgeInv, EdgeTypeOK

LEMMA EdgeNextKeeps ==
  ASSUME EdgeInv, [EdgeNext]_edgeVars
  PROVE  EdgeInv'
<1>1. CASE EdgeTick
  <2>1. /\ edgeClock' = edgeClock + 1 /\ edgeClock < MaxEdgeTime
        /\ UNCHANGED <<bucketRow, httpRequest, admitted, edgeFaults>>
    BY <1>1 DEF EdgeTick
  <2>2. edgeClock' \in 0..MaxEdgeTime /\ edgeClock <= edgeClock' /\ edgeClock' \in Nat
    BY <2>1, EdgeParts, EdgeNumbers
  <2>3. WithinBudget' /\ \A k \in Counters : RowCounts(k)'
    BY <2>1, <2>2, BooksKept
  <2>4. \A r \in Requests : Metered(r)'
    BY <2>1, EdgeParts DEF Metered, BudgetsOf
  <2>5. QED
    BY <2>1, <2>2, <2>3, <2>4, EdgeParts DEF EdgeInv, EdgeTypeOK
<1>2. CASE UNCHANGED edgeVars
  <2>1. UNCHANGED <<bucketRow, httpRequest, admitted, edgeClock, edgeFaults>>
    BY <1>2 DEF edgeVars
  <2>2. WithinBudget' /\ \A k \in Counters : RowCounts(k)'
    BY <2>1, BooksKept, EdgeParts
  <2>3. \A r \in Requests : Metered(r)'
    BY <2>1, EdgeParts DEF Metered, BudgetsOf
  <2>4. QED
    BY <2>1, <2>2, <2>3, EdgeParts DEF EdgeInv, EdgeTypeOK
<1>3. QED
  BY <1>1, <1>2, ReceivePeerKeeps, ConsumeKeeps, ConsumeFailsKeeps, HandlerKeeps, SweepBucketKeeps DEF EdgeNext

LEMMA EdgeInvariant == EdgeSpec => []EdgeInv
BY EdgeInitOK, EdgeNextKeeps, PTL DEF EdgeSpec

\* However calls are lost, rows swept and requests interleaved: no peer gets more
\* through a budget than it holds, in windows that do not overlap, and no handler works
\* for a request some budget of its route did not let through
\* (convex service/rate_limits.ts, gateway distributed-rate-limit.ts, main.ts).
THEOREM BudgetsAreKept == EdgeSpec => []EdgeSound
<1>1. EdgeInv => EdgeSound
  <2> SUFFICES ASSUME EdgeInv PROVE EdgeSound
    OBVIOUS
  <2>1. ASSUME NEW r \in Requests, httpRequest[r].at = "done", NEW i \in DOMAIN BudgetsOf(r)
        PROVE  \E a \in admitted : a.request = r /\ a.counter = BudgetsOf(r)[i]
    <3>1. Metered(r) /\ BudgetsOf(r) \in Seq(Counters) /\ Len(BudgetsOf(r)) \in Nat /\ httpRequest[r].passed \in Nat
      BY EdgeParts, BudgetsOfRequest DEF HttpRequest
    <3>2. httpRequest[r].passed = Len(BudgetsOf(r))
      BY <2>1, <3>1 DEF Metered
    <3>3. i \in 1..Len(BudgetsOf(r))
      BY <3>1
    <3>4. QED
      BY <2>1, <3>1, <3>2, <3>3 DEF Metered
  <2>2. QED
    BY <2>1 DEF EdgeSound, NothingUnmetered, EdgeInv
<1>2. QED
  BY <1>1, EdgeInvariant, PTL

=============================================================================
