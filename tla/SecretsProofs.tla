---------------------------- MODULE SecretsProofs ----------------------------
(***************************************************************************)
(* Theorems about the secrets the system keeps: the credential of a        *)
(* connection (Credentials), the signing key an agent trusts (KeyTrust),   *)
(* what a deployment is given or makes for itself (Deployment), the        *)
(* credential of the device on its machine (LocalCredential), for any      *)
(* number of calls, gateways, grants, keys, sessions, jobs, builds,        *)
(* commands and faults.                                                    *)
(***************************************************************************)
EXTENDS Credentials, KeyTrust, Deployment, LocalCredential, TLAPS

-----------------------------------------------------------------------------
(* The credential of a connection.                                         *)

\* A lease is on an active, renewable row; grants are issued in order, and a row
\* has had no more ids than grants.
RowOK ==
  /\ conn.lease # Nobody => conn.status = "active" /\ conn.renewable
  /\ conn.lapsed => conn.lease # Nobody
  /\ conn.id <= conn.grant
  /\ provider[conn.grant].issued
  /\ \A g, h \in Grants : provider[g].issued /\ h < g => provider[h].issued
  /\ \A g \in Grants : ~provider[g].issued => provider[g].place = 0

\* The attempts that remember a stored credential, and whether the row still is
\* of the generation they read.
Attempting == {"renewing", "committing", "lost race", "aborting"}
Matches(c) == call[c].id = conn.id /\ call[c].version = conn.version

\* While the row is of the generation an attempt read, it holds what was read:
\* every change of what it holds is a new version, or a new id.
CallOK(c) ==
  /\ call[c].passes < MaxPasses
  /\ call[c].state # "joined" => call[c].leader = Nobody
  /\ call[c].state \in Attempting =>
       /\ provider[call[c].grant].issued
       /\ call[c].id <= conn.id
       /\ call[c].id = conn.id => call[c].version <= conn.version
  /\ call[c].state = "renewing" \/ (call[c].state = "aborting" /\ call[c].permanent) =>
       (Matches(c) => call[c].grant = conn.grant /\ call[c].place = conn.place)
  /\ call[c].state = "committing" =>
       (Matches(c) => call[c].grant = conn.grant /\ call[c].place >= conn.place)

\* Without faults an attempt has its lease and the token the server accepts, or
\* its grant is no longer what the row is about.
Held(c) ==
  \/ Owns(c) /\ ~conn.lapsed /\ call[c].grant = conn.grant /\ call[c].place = provider[conn.grant].place
  \/ conn.lease # c /\ (conn.status # "active" \/ conn.grant # call[c].grant)

Faultless ==
  /\ \A c \in CredCalls : call[c].state = "aborting" => call[c].permanent
  /\ \A c \in CredCalls : call[c].state \in {"renewing", "committing"} => Held(c)
  /\ conn.status = "active" =>
       \/ provider[conn.grant].place = conn.place
       \/ \E c \in CredCalls :
            call[c].state = "committing" /\ Owns(c) /\ call[c].place = provider[conn.grant].place

CredInv ==
  /\ CredTypeOK /\ RowOK
  /\ \A c \in CredCalls : CallOK(c)
  /\ credFaults = 0 => Faultless

-----------------------------------------------------------------------------
\* The parts of the type invariant about calls that share a renewal.
JoinedOK ==
  \A c \in CredCalls : call[c].state = "joined" =>
    /\ call[c].leader \in CredCalls
    /\ call[call[c].leader].state \in Leading
    /\ CredGateway[call[c].leader] = CredGateway[c]

Together(c, k) ==
  /\ CredGateway[c] = CredGateway[k]
  /\ call[c].state \in Leading /\ call[k].state \in Leading
  /\ call[c].key = call[k].key

OneRenewal == \A c, k \in CredCalls : Together(c, k) => c = k

CredTypes ==
  /\ conn \in ConnRow
  /\ provider \in [Grants -> [issued : BOOLEAN, place : 0..MaxRotations, dead : BOOLEAN]]
  /\ call \in [CredCalls -> CredCall]
  /\ credFaults \in 0..MaxCredFaults

LEMMA CredTypeParts == CredTypeOK <=> CredTypes /\ JoinedOK /\ OneRenewal
<1>1. (\A c \in CredCalls : call[c].state = "joined" =>
         call[c].leader \in {k \in CredCalls : call[k].state \in Leading /\ CredGateway[k] = CredGateway[c]})
        <=> JoinedOK
  BY DEF JoinedOK
<1>2. ASSUME NEW c \in CredCalls, NEW k \in CredCalls
      PROVE  c \in InFlight(CredGateway[c], call[c].key) /\ k \in InFlight(CredGateway[c], call[c].key) <=> Together(c, k)
  BY DEF InFlight, Together
<1>3. QED
  BY <1>1, <1>2 DEF CredTypeOK, CredTypes, OneRenewal

LEMMA CredTyped ==
  ASSUME CredInv
  PROVE  CredTypes /\ JoinedOK /\ OneRenewal
BY CredTypeParts DEF CredInv

\* The defaults of a call.
LEMMA AnsweredRow ==
  /\ Answered \in CredCall
  /\ Answered.state = "answered" /\ Answered.leader = Nobody /\ Answered.passes = 0
<1>1. 0 \in 0..CredGrants /\ 1 \in Grants /\ 0 \in 0..MaxRotations /\ 0 \in 0..MaxPasses
  BY CredentialsAssumption DEF Grants
<1>2. QED
  BY <1>1 DEF Answered, NewCall, CredCall, CredStates, Leases

\* What a step of one call leaves of the others: as they were, or answered with it.
Bystanders(c) ==
  /\ call' \in [CredCalls -> CredCall]
  /\ \A k \in CredCalls : k # c => call'[k] = call[k] \/ (call'[k] = Answered /\ call[k].state = "joined")

LEMMA SettleStep ==
  ASSUME CredInv, NEW c \in CredCalls, Settle(c)
  PROVE  Bystanders(c) /\ call'[c] = Answered /\ JoinedOK' /\ OneRenewal'
<1>1. /\ call' \in [CredCalls -> CredCall]
      /\ \A k \in CredCalls : call'[k] = IF k = c \/ call[k].leader = c THEN Answered ELSE call[k]
  BY AnsweredRow, CredTyped DEF Settle, CredTypes
<1>2. \A k \in CredCalls : call[k].leader = c => call[k].state = "joined"
  BY CredentialsAssumption DEF CredInv, CallOK
<1>3. Bystanders(c)
  BY <1>1, <1>2 DEF Bystanders
<1>4. ASSUME NEW k \in CredCalls, call'[k].state = "joined"
      PROVE  /\ call'[k].leader \in CredCalls
             /\ call'[call'[k].leader].state \in Leading
             /\ CredGateway[call'[k].leader] = CredGateway[k]
  <2>1. call'[k] = call[k] /\ call[k].leader # c
    BY <1>1, <1>4, AnsweredRow
  <2>2. call[k].leader \in CredCalls /\ call[call[k].leader].state \in Leading /\ CredGateway[call[k].leader] = CredGateway[k]
    BY <1>4, <2>1, CredTyped DEF JoinedOK
  <2>3. call[call[k].leader].leader # c
    BY <1>2, <2>2 DEF Leading
  <2>4. QED
    BY <1>1, <2>1, <2>2, <2>3
<1>5. JoinedOK'
  BY <1>4 DEF JoinedOK
<1>6. \A k \in CredCalls : call'[k].state \in Leading => call'[k] = call[k]
  BY <1>1, AnsweredRow DEF Leading
<1>7. OneRenewal'
  BY <1>6, CredTyped DEF OneRenewal, Together
<1>8. QED
  BY <1>1, <1>3, <1>5, <1>7

\* A call that leads goes on leading, for the same connection.
LEMMA LeaderStep ==
  ASSUME CredInv, NEW c \in CredCalls, NEW row \in CredCall, call' = [call EXCEPT ![c] = row],
         call[c].state \in Leading, row.state \in Leading, row.key = call[c].key
  PROVE  Bystanders(c) /\ call'[c] = row /\ JoinedOK' /\ OneRenewal'
<1>1. /\ call' \in [CredCalls -> CredCall] /\ call'[c] = row
      /\ \A k \in CredCalls : k # c => call'[k] = call[k]
  BY CredTyped DEF CredTypes
<1>2. \A k \in CredCalls : /\ call'[k].state \in Leading <=> call[k].state \in Leading
                           /\ call[k].state \in Leading => call'[k].key = call[k].key
                           /\ call'[k].state = "joined" => call'[k] = call[k]
  BY <1>1 DEF Leading
<1>3. JoinedOK'
  BY <1>2, CredTyped DEF JoinedOK
<1>4. OneRenewal'
  BY <1>2, CredTyped DEF OneRenewal, Together
<1>5. QED
  BY <1>1, <1>3, <1>4 DEF Bystanders

\* The row's generations only go on, and each is of one credential.
CallOnward ==
  /\ conn' \in ConnRow /\ conn.id <= conn'.id
  /\ conn'.id = conn.id => conn.version <= conn'.version
  /\ conn'.id = conn.id /\ conn'.version = conn.version => conn'.grant = conn.grant /\ conn'.place = conn.place
  /\ provider' \in [Grants -> [issued : BOOLEAN, place : 0..MaxRotations, dead : BOOLEAN]]
  /\ \A g \in Grants : provider[g].issued => provider'[g].issued

\* An attempt that nothing happens to still knows what it knew.
LEMMA AttemptKept ==
  ASSUME CredInv, CallOnward, NEW k \in CredCalls, call'[k] \in {call[k], Answered}
  PROVE  CallOK(k)'
<1>1. CASE call'[k] = Answered
  BY <1>1, AnsweredRow, CredentialsAssumption DEF CallOK, Attempting
<1>2. CASE call'[k] = call[k]
  <2>1. CallOK(k) /\ call[k] \in CredCall /\ conn \in ConnRow
    BY CredTyped DEF CredInv, CredTypes
  <2>2. call[k].id \in Nat /\ call[k].version \in Nat /\ conn.id \in Nat /\ conn.version \in Nat
        /\ conn'.id \in Nat /\ conn'.version \in Nat /\ call[k].grant \in Grants
    BY <2>1, CredentialsAssumption DEF CredCall, ConnRow, CallOnward
  <2>3. call[k].state \in Attempting /\ Matches(k)' => Matches(k) /\ conn'.grant = conn.grant /\ conn'.place = conn.place
    BY <1>2, <2>1, <2>2 DEF Matches, CallOK, CallOnward
  <2>4. call[k].state \in Attempting =>
          /\ provider'[call[k].grant].issued
          /\ call[k].id <= conn'.id
          /\ call[k].id = conn'.id => call[k].version <= conn'.version
    <3> HAVE call[k].state \in Attempting
    <3>1. /\ provider[call[k].grant].issued /\ call[k].id <= conn.id
          /\ call[k].id = conn.id => call[k].version <= conn.version
      BY <2>1 DEF CallOK
    <3>2. conn.id <= conn'.id /\ (conn'.id = conn.id => conn.version <= conn'.version) /\ provider'[call[k].grant].issued
      BY <2>2, <3>1 DEF CallOnward
    <3>3. QED
      BY <2>2, <3>1, <3>2
  <2>5. QED
    BY <1>2, <2>1, <2>3, <2>4 DEF CallOK, Attempting
<1>3. QED
  BY <1>1, <1>2

\* What a step must do to keep the invariant.
LEMMA CredMove ==
  ASSUME CredInv, CallOnward, RowOK', NEW c \in CredCalls, Bystanders(c), CallOK(c)', JoinedOK', OneRenewal',
         credFaults' \in 0..MaxCredFaults, credFaults' = 0 => Faultless'
  PROVE  CredInv'
<1>1. \A k \in CredCalls : CallOK(k)'
  BY AttemptKept DEF Bystanders
<1>2. CredTypes'
  BY DEF CredTypes, CallOnward, Bystanders
<1>3. CredTypeOK'
  BY <1>2, CredTypeParts, PTL
<1>4. QED
  BY <1>1, <1>3 DEF CredInv

LEMMA CredFaultCounts ==
  ASSUME CredInv, CredFault
  PROVE  credFaults' \in 0..MaxCredFaults /\ credFaults' # 0
BY CredTyped, CredentialsAssumption DEF CredFault, CredTypes

\* A row that only its token's age sets apart from the one before.
Alike ==
  /\ conn' \in ConnRow
  /\ conn'.id = conn.id /\ conn'.status = conn.status /\ conn'.grant = conn.grant /\ conn'.place = conn.place
  /\ conn'.renewable = conn.renewable /\ conn'.version = conn.version
  /\ conn'.lease = conn.lease /\ conn'.lapsed = conn.lapsed
  /\ UNCHANGED provider

LEMMA AlikeStep ==
  ASSUME CredInv, Alike
  PROVE  CallOnward /\ RowOK'
<1>1. conn \in ConnRow /\ RowOK /\ conn.id \in Nat /\ conn.version \in Nat
  BY CredTyped, CredentialsAssumption DEF CredInv, CredTypes, ConnRow
<1>2. CallOnward
  BY <1>1, CredTyped DEF Alike, CallOnward, CredTypes
<1>3. RowOK'
  BY <1>1 DEF Alike, RowOK
<1>4. QED
  BY <1>2, <1>3

\* A call that nothing happens to keeps its hold on a row like the one before.
LEMMA AlikeHold ==
  ASSUME Alike, NEW k, call'[k] = call[k]
  PROVE  (Owns(k)' <=> Owns(k)) /\ (Held(k)' <=> Held(k))
BY DEF Alike, Owns, ActiveWith, Held

LEMMA QuietKeepsFaultless ==
  ASSUME CredInv, Alike, Faultless, NEW c \in CredCalls, Bystanders(c),
         call'[c].state = "aborting" => call'[c].permanent,
         call'[c].state \in {"renewing", "committing"} => Held(c)',
         ~(call[c].state = "committing" /\ Owns(c)) \/ call'[c] = call[c]
  PROVE  Faultless'
<1>1. ASSUME NEW k \in CredCalls, call'[k].state = "aborting"
      PROVE  call'[k].permanent
  BY <1>1, AnsweredRow DEF Faultless, Bystanders
<1>2. ASSUME NEW k \in CredCalls, call'[k].state \in {"renewing", "committing"}
      PROVE  Held(k)'
  <2>1. CASE k = c
    BY <1>2, <2>1
  <2>2. CASE k # c
    <3>1. call'[k] = call[k]
      BY <1>2, <2>2, AnsweredRow DEF Bystanders
    <3>2. QED
      BY <1>2, <3>1, AlikeHold DEF Faultless
  <2>3. QED
    BY <2>1, <2>2
<1>3. ASSUME conn'.status = "active", provider'[conn'.grant].place # conn'.place
      PROVE  \E k \in CredCalls :
               call'[k].state = "committing" /\ Owns(k)' /\ call'[k].place = provider'[conn'.grant].place
  <2>1. PICK k \in CredCalls :
          call[k].state = "committing" /\ Owns(k) /\ call[k].place = provider[conn.grant].place
    BY <1>3 DEF Alike, Faultless
  <2>2. call'[k] = call[k]
    BY <2>1 DEF Bystanders
  <2>3. QED
    BY <2>1, <2>2, AlikeHold DEF Alike
<1>4. QED
  BY <1>1, <1>2, <1>3 DEF Faultless

\* A step of one call that leaves the row as it is.
LEMMA QuietCredStep ==
  ASSUME CredInv, Alike, NEW c \in CredCalls, Bystanders(c), CallOK(c)', JoinedOK', OneRenewal',
         credFaults' \in 0..MaxCredFaults,
         credFaults' = 0 =>
           /\ credFaults = 0
           /\ call'[c].state = "aborting" => call'[c].permanent
           /\ call'[c].state \in {"renewing", "committing"} => Held(c)'
           /\ ~(call[c].state = "committing" /\ Owns(c)) \/ call'[c] = call[c]
  PROVE  CredInv'
<1>1. credFaults' = 0 => Faultless'
  BY QuietKeepsFaultless DEF CredInv
<1>2. QED
  BY <1>1, AlikeStep, CredMove

LEMMA SameIsAlike == ASSUME CredInv, UNCHANGED <<conn, provider>> PROVE Alike
BY CredTyped DEF Alike, CredTypes

\* A call is answered, and nothing else happens but perhaps a fault.
LEMMA JustSettles ==
  ASSUME CredInv, NEW c \in CredCalls, Settle(c), UNCHANGED <<conn, provider>>,
         ~(call[c].state = "committing" /\ Owns(c)), UNCHANGED credFaults \/ CredFault
  PROVE  CredInv'
<1>1. Bystanders(c) /\ call'[c] = Answered /\ JoinedOK' /\ OneRenewal'
  BY SettleStep
<1>2. Alike /\ CallOnward
  BY SameIsAlike, AlikeStep
<1>3. CallOK(c)'
  BY <1>1, <1>2, AttemptKept
<1>4. credFaults' \in 0..MaxCredFaults /\ (credFaults' = 0 => credFaults = 0)
  BY CredFaultCounts, CredTyped DEF CredTypes
<1>5. call'[c].state \notin {"aborting", "renewing", "committing"}
  BY <1>1, AnsweredRow
<1>6. QED
  BY <1>1, <1>2, <1>3, <1>4, <1>5, QuietCredStep

\* A call that does not lead does not lead yet.
LEMMA FollowerStep ==
  ASSUME CredInv, NEW c \in CredCalls, NEW row \in CredCall, call' = [call EXCEPT ![c] = row],
         call[c].state \notin Leading, row.state \notin Leading \cup {"joined"}
  PROVE  Bystanders(c) /\ call'[c] = row /\ JoinedOK' /\ OneRenewal'
<1>1. /\ call' \in [CredCalls -> CredCall] /\ call'[c] = row
      /\ \A k \in CredCalls : k # c => call'[k] = call[k]
  BY CredTyped DEF CredTypes
<1>2. \A k \in CredCalls : /\ call'[k].state \in Leading <=> call[k].state \in Leading
                           /\ call[k].state \in Leading => call'[k].key = call[k].key
                           /\ call'[k].state = "joined" => call'[k] = call[k]
  BY <1>1
<1>3. JoinedOK'
  BY <1>1, <1>2, CredTyped DEF JoinedOK
<1>4. OneRenewal'
  BY <1>2, CredTyped DEF OneRenewal, Together
<1>5. QED
  BY <1>1, <1>3, <1>4 DEF Bystanders

LEMMA ResolveQueryKeeps ==
  ASSUME CredInv, NEW c \in CredCalls, ResolveQuery(c)
  PROVE  CredInv'
<1>1. call[c].state = "idle" /\ UNCHANGED <<conn, provider, credFaults>>
  BY DEF ResolveQuery
<1>2. CASE Settle(c)
  BY <1>1, <1>2, JustSettles
<1>3. CASE call' = [call EXCEPT ![c].state = "deciding", ![c].id = conn.id]
  <2> DEFINE row == [call[c] EXCEPT !.state = "deciding", !.id = conn.id]
  <2>1. /\ row \in CredCall /\ row.state = "deciding" /\ row.passes = call[c].passes /\ row.leader = call[c].leader
    BY CredTyped DEF CredTypes, CredCall, CredStates, ConnRow
  <2>2. call' = [call EXCEPT ![c] = row]
    BY <1>3, CredTyped DEF CredTypes, CredCall
  <2> HIDE DEF row
  <2>3. Bystanders(c) /\ call'[c] = row /\ JoinedOK' /\ OneRenewal'
    BY <1>1, <2>1, <2>2, FollowerStep DEF Leading
  <2>4. CallOK(c)
    BY DEF CredInv
  <2>5. CallOK(c)'
    BY <1>1, <2>1, <2>3, <2>4 DEF CallOK, Attempting
  <2>6. QED
    BY <1>1, <2>1, <2>3, <2>5, SameIsAlike, QuietCredStep, CredTyped DEF CredTypes
<1>4. QED
  BY <1>2, <1>3 DEF ResolveQuery

LEMMA ResolveDecideKeeps ==
  ASSUME CredInv, NEW c \in CredCalls, ResolveDecide(c)
  PROVE  CredInv'
<1> DEFINE shared == InFlight(CredGateway[c], call[c].id)
           lead == CHOOSE k \in shared : TRUE
           row == IF shared = {} THEN [call[c] EXCEPT !.state = "begun", !.key = call[c].id]
                  ELSE [NewCall EXCEPT !.state = "joined", !.leader = lead]
<1>1. call[c].state = "deciding" /\ UNCHANGED <<conn, provider, credFaults>> /\ call' = [call EXCEPT ![c] = row]
  BY DEF ResolveDecide
<1>2. call[c] \in CredCall /\ CallOK(c)
  BY CredTyped DEF CredTypes, CredInv
<1>3. CASE shared = {}
  <2>1. /\ row \in CredCall /\ row.state = "begun" /\ row.key = call[c].id
        /\ row.passes = call[c].passes /\ row.leader = call[c].leader
    BY <1>2, <1>3 DEF CredCall, CredStates, Leading
  <2> HIDE DEF row
  <2>2. /\ call' \in [CredCalls -> CredCall] /\ call'[c] = row
        /\ \A k \in CredCalls : k # c => call'[k] = call[k]
    BY <1>1, <2>1, CredTyped DEF CredTypes
  <2>3. Bystanders(c)
    BY <2>2 DEF Bystanders
  <2>4. JoinedOK'
    <3>1. ASSUME NEW k \in CredCalls, call'[k].state = "joined"
          PROVE  /\ call'[k].leader \in CredCalls /\ call'[call'[k].leader].state \in Leading
                 /\ CredGateway[call'[k].leader] = CredGateway[k]
      <4>1. call'[k] = call[k] /\ call[k].state = "joined"
        BY <2>1, <2>2, <3>1
      <4>2. call[k].leader \in CredCalls /\ call[call[k].leader].state \in Leading /\ CredGateway[call[k].leader] = CredGateway[k]
        BY <4>1, CredTyped DEF JoinedOK
      <4>3. call'[call[k].leader] = call[call[k].leader]
        BY <1>1, <2>2, <4>2 DEF Leading
      <4>4. QED
        BY <4>1, <4>2, <4>3
    <3>2. QED
      BY <3>1 DEF JoinedOK
  <2>5. OneRenewal'
    <3>1. \A k \in CredCalls : ~(CredGateway[k] = CredGateway[c] /\ call[k].state \in Leading /\ call[k].key = call[c].id)
      BY <1>3 DEF InFlight
    <3>2. QED
      BY <2>1, <2>2, <3>1, CredTyped DEF OneRenewal, Together
  <2>6. CallOK(c)'
    BY <1>1, <1>2, <2>1, <2>2 DEF CallOK, Attempting
  <2>7. QED
    BY <1>1, <2>1, <2>2, <2>3, <2>4, <2>5, <2>6, SameIsAlike, QuietCredStep, CredTyped DEF CredTypes
<1>4. CASE shared # {}
  <2>1. lead \in CredCalls /\ call[lead].state \in Leading /\ CredGateway[lead] = CredGateway[c]
    BY <1>4 DEF InFlight
  <2> HIDE DEF lead
  <2>2. row \in CredCall /\ row.state = "joined" /\ row.leader = lead /\ row.passes = 0
    <3>1. NewCall \in CredCall
      BY CredentialsAssumption DEF NewCall, CredCall, CredStates, Leases, Grants
    <3>2. row = [NewCall EXCEPT !.state = "joined", !.leader = lead]
      BY <1>4
    <3>3. QED
      BY <2>1, <3>1, <3>2 DEF NewCall, CredCall, CredStates, Leases
  <2> HIDE DEF row, shared
  <2>3. /\ call' \in [CredCalls -> CredCall] /\ call'[c] = row
        /\ \A k \in CredCalls : k # c => call'[k] = call[k]
    BY <1>1, <2>2, CredTyped DEF CredTypes
  <2>4. Bystanders(c)
    BY <2>3 DEF Bystanders
  <2>5. \A k \in CredCalls : call[k].state \in Leading => call'[k] = call[k] /\ k # c
    BY <1>1, <2>3 DEF Leading
  <2>6. JoinedOK'
    <3>1. ASSUME NEW k \in CredCalls, call'[k].state = "joined"
          PROVE  /\ call'[k].leader \in CredCalls /\ call'[call'[k].leader].state \in Leading
                 /\ CredGateway[call'[k].leader] = CredGateway[k]
      <4>1. CASE k = c
        BY <2>1, <2>2, <2>3, <2>5, <4>1
      <4>2. CASE k # c
        BY <2>3, <2>5, <3>1, <4>2, CredTyped DEF JoinedOK
      <4>3. QED
        BY <4>1, <4>2
    <3>2. QED
      BY <3>1 DEF JoinedOK
  <2>7. OneRenewal'
    <3>1. \A k \in CredCalls : call'[k].state \in Leading => call'[k] = call[k]
      BY <2>2, <2>3 DEF Leading
    <3>2. QED
      BY <3>1, CredTyped DEF OneRenewal, Together
  <2>8. CallOK(c)'
    <3>1. call'[c].state = "joined" /\ call'[c].passes < MaxPasses
      BY <2>2, <2>3, CredentialsAssumption
    <3>2. QED
      BY <3>1 DEF CallOK, Attempting
  <2>9. QED
    BY <1>1, <2>2, <2>3, <2>4, <2>6, <2>7, <2>8, SameIsAlike, QuietCredStep, CredTyped DEF CredTypes
<1>5. QED
  BY <1>3, <1>4

\* A call goes on from one state of a leader to another, and the row stays.
LEMMA QuietLeader ==
  ASSUME CredInv, NEW c \in CredCalls, NEW row \in CredCall, call' = [call EXCEPT ![c] = row],
         call[c].state \in Leading, row.state \in Leading, row.key = call[c].key, row.leader = call[c].leader,
         row.passes < MaxPasses, row.state \in Attempting \ {"renewing"} =>
           /\ call[c].state \in Attempting
           /\ row.id = call[c].id /\ row.version = call[c].version /\ row.grant = call[c].grant,
         row.state # "committing",
         row.state = "aborting" => ~row.permanent \/ (call[c].state = "renewing" /\ row.place = call[c].place),
         row.state # "renewing",
         UNCHANGED <<conn, provider>>, credFaults' \in 0..MaxCredFaults,
         credFaults' = 0 => /\ credFaults = 0
                            /\ row.state = "aborting" => row.permanent
                            /\ ~(call[c].state = "committing" /\ Owns(c))
  PROVE  CredInv'
<1>1. Bystanders(c) /\ call'[c] = row /\ JoinedOK' /\ OneRenewal'
  BY LeaderStep
<1>2. CallOK(c)
  BY DEF CredInv
<1>3. CallOK(c)'
  <2>1. row.leader = Nobody
    BY <1>2 DEF CallOK, Leading
  <2>2. CASE row.state \notin Attempting
    BY <1>1, <2>1, <2>2 DEF CallOK, Attempting
  <2>3. CASE row.state \in Attempting
    <3>1. /\ call[c].state \in Attempting
          /\ row.id = call[c].id /\ row.version = call[c].version /\ row.grant = call[c].grant
      BY <2>3
    <3>2. Matches(c)' <=> Matches(c)
      BY <1>1, <3>1 DEF Matches
    <3>3. QED
      BY <1>1, <1>2, <2>1, <3>1, <3>2 DEF CallOK
  <2>4. QED
    BY <2>2, <2>3
<1>4. QED
  BY <1>1, <1>3, SameIsAlike, QuietCredStep

LEMMA RequeryKeeps ==
  ASSUME CredInv, NEW c \in CredCalls, Requery(c)
  PROVE  CredInv'
<1>1. call[c].state = "waiting" /\ UNCHANGED <<conn, provider, credFaults>>
  BY DEF Requery
<1>2. CASE Settle(c)
  BY <1>1, <1>2, JustSettles
<1>3. CASE ~Settle(c)
  <2> DEFINE row == [call[c] EXCEPT !.state = "begun", !.id = conn.id, !.passes = call[c].passes + 1]
  <2>1. call' = [call EXCEPT ![c].state = "begun", ![c].id = conn.id, ![c].passes = @ + 1] /\ call[c].passes + 1 # MaxPasses
    BY <1>3 DEF Requery
  <2>2. call[c] \in CredCall /\ call[c].passes < MaxPasses /\ conn \in ConnRow
    BY CredTyped DEF CredTypes, CredInv, CallOK
  <2>3. call[c].passes + 1 \in 0..MaxPasses /\ call[c].passes + 1 < MaxPasses
    BY <2>1, <2>2, CredentialsAssumption DEF CredCall
  <2>4. /\ row \in CredCall /\ row.state = "begun" /\ row.key = call[c].key /\ row.leader = call[c].leader
        /\ row.passes < MaxPasses
    BY <2>2, <2>3 DEF CredCall, CredStates, Leading, ConnRow
  <2>5. call' = [call EXCEPT ![c] = row]
    BY <2>1, <2>2, CredTyped DEF CredTypes, CredCall
  <2> HIDE DEF row
  <2>6. QED
    BY <1>1, <2>4, <2>5, QuietLeader, CredTyped DEF Leading, Attempting, CredTypes
<1>4. QED
  BY <1>2, <1>3

LEMMA QueryFailsKeeps ==
  ASSUME CredInv, NEW c \in CredCalls, QueryFails(c)
  PROVE  CredInv'
<1>1. UNCHANGED <<conn, provider>> /\ CredFault
  BY DEF QueryFails
<1>2. CASE call[c].state \in {"idle", "waiting"} /\ Settle(c)
  BY <1>1, <1>2, JustSettles
<1>3. CASE call[c].state = "lost race" /\ call' = [call EXCEPT ![c].state = "aborting", ![c].permanent = FALSE]
  <2> DEFINE row == [call[c] EXCEPT !.state = "aborting", !.permanent = FALSE]
  <2>1. call[c] \in CredCall /\ call[c].passes < MaxPasses
    BY CredTyped DEF CredTypes, CredInv, CallOK
  <2>2. /\ row \in CredCall /\ row.state = "aborting" /\ row.key = call[c].key /\ row.leader = call[c].leader
        /\ row.passes < MaxPasses /\ ~row.permanent
        /\ row.id = call[c].id /\ row.version = call[c].version /\ row.grant = call[c].grant
    BY <2>1 DEF CredCall, CredStates, Leading
  <2>3. call' = [call EXCEPT ![c] = row]
    BY <1>3, <2>1, CredTyped DEF CredTypes, CredCall
  <2> HIDE DEF row
  <2>4. QED
    BY <1>1, <1>3, <2>2, <2>3, QuietLeader, CredFaultCounts DEF Leading, Attempting
<1>4. QED
  BY <1>2, <1>3 DEF QueryFails

\* The same credential, whatever becomes of the row's status and lease.
SameCredential ==
  /\ conn' \in ConnRow
  /\ conn'.id = conn.id /\ conn'.version = conn.version
  /\ conn'.grant = conn.grant /\ conn'.place = conn.place
  /\ conn'.renewable = conn.renewable

\* beginRefresh leaves the row, ends it, or leases it, and never the credential.
LEMMA BegunRows ==
  ASSUME CredInv, NEW c \in CredCalls, conn' = BegunRow(c)
  PROVE  /\ SameCredential
         /\ \/ conn' = conn
            \/ /\ ~conn.renewable /\ conn.age = "over" /\ conn.status = "active"
               /\ conn'.status = "expired" /\ conn'.lease = Nobody /\ ~conn'.lapsed
            \/ /\ ActiveWith(call[c].id) /\ conn.age # "fresh" /\ conn.renewable /\ LeaseFree(c)
               /\ conn'.status = "active" /\ conn'.lease = c /\ ~conn'.lapsed
<1>1. conn \in ConnRow
  BY CredTyped DEF CredTypes
<1>2. CASE ~ActiveWith(call[c].id) \/ conn.age = "fresh"
  BY <1>1, <1>2 DEF BegunRow, SameCredential
<1>3. CASE ActiveWith(call[c].id) /\ conn.age # "fresh" /\ ~conn.renewable
  <2>1. CASE conn.age = "due"
    BY <1>1, <1>3, <2>1 DEF BegunRow, SameCredential
  <2>2. CASE conn.age # "due"
    <3>1. conn' = [Unleased(conn) EXCEPT !.status = "expired"]
      BY <1>3, <2>2 DEF BegunRow
    <3>2. conn.age = "over" /\ conn.status = "active"
      BY <1>1, <1>3, <2>2 DEF ConnRow, Ages, ActiveWith
    <3>3. /\ conn' \in ConnRow /\ conn'.id = conn.id /\ conn'.version = conn.version
          /\ conn'.grant = conn.grant /\ conn'.place = conn.place /\ conn'.renewable = conn.renewable
          /\ conn'.status = "expired" /\ conn'.lease = Nobody /\ ~conn'.lapsed
      BY <1>1, <3>1 DEF ConnRow, Unleased, Leases
    <3>4. QED
      BY <1>3, <3>2, <3>3 DEF SameCredential
  <2>3. QED
    BY <2>1, <2>2
<1>4. CASE ActiveWith(call[c].id) /\ conn.age # "fresh" /\ conn.renewable
  <2>1. CASE ~LeaseFree(c)
    BY <1>1, <1>4, <2>1 DEF BegunRow, SameCredential
  <2>2. CASE LeaseFree(c)
    <3>1. conn' = [conn EXCEPT !.lease = c, !.lapsed = FALSE]
      BY <1>4, <2>2 DEF BegunRow
    <3>2. /\ conn' \in ConnRow /\ conn'.id = conn.id /\ conn'.version = conn.version
          /\ conn'.grant = conn.grant /\ conn'.place = conn.place /\ conn'.renewable = conn.renewable
          /\ conn'.status = conn.status /\ conn'.lease = c /\ ~conn'.lapsed
      BY <1>1, <3>1 DEF ConnRow, Leases
    <3>3. QED
      BY <1>4, <2>2, <3>2 DEF SameCredential, ActiveWith
  <2>3. QED
    BY <2>1, <2>2
<1>5. QED
  BY <1>2, <1>3, <1>4

LEMMA SameCredentialOnward ==
  ASSUME CredInv, SameCredential, UNCHANGED provider
  PROVE  CallOnward
<1>1. conn \in ConnRow /\ conn.id \in Nat /\ conn.version \in Nat
  BY CredTyped, CredentialsAssumption DEF CredTypes, ConnRow
<1>2. QED
  BY <1>1, CredTyped DEF SameCredential, CallOnward, CredTypes

LEMMA BegunRowOK ==
  ASSUME CredInv, NEW c \in CredCalls, conn' = BegunRow(c), UNCHANGED provider
  PROVE  CallOnward /\ RowOK'
<1>1. RowOK /\ Nobody \notin CredCalls
  BY CredentialsAssumption DEF CredInv
<1>2. RowOK'
  BY <1>1, BegunRows DEF RowOK, SameCredential
<1>3. QED
  BY <1>2, BegunRows, SameCredentialOnward

\* Nobody who works has a lease that another may take.
LEMMA FreeLeaseIsNobodys ==
  ASSUME CredInv, Faultless, NEW c \in CredCalls, LeaseFree(c), call[c].state = "begun",
         NEW k \in CredCalls, call[k].state \in {"renewing", "committing"}
  PROVE  ~(Owns(k) /\ ~conn.lapsed)
BY CredentialsAssumption DEF LeaseFree, Owns

\* The row is leased to the call that asks, which remembers what it was sent.
LEMMA LeaseTaken ==
  ASSUME CredInv, NEW c \in CredCalls, call[c].state = "begun", conn' = BegunRow(c),
         conn'.status = "active", conn'.lease = c, ~conn'.lapsed, LeaseFree(c), conn.status = "active",
         call' = [call EXCEPT ![c] = Stored(c, "renewing")], UNCHANGED <<provider, credFaults>>
  PROVE  CredInv'
<1> DEFINE row == Stored(c, "renewing")
<1>1. call[c] \in CredCall /\ conn \in ConnRow /\ CallOK(c) /\ conn.id \in Nat /\ conn.version \in Nat
  BY CredTyped, CredentialsAssumption DEF CredTypes, ConnRow, CredInv
<1>2. /\ row \in CredCall /\ row.state = "renewing" /\ row.key = call[c].key /\ row.leader = call[c].leader
      /\ row.passes = call[c].passes /\ row.id = conn.id /\ row.grant = conn.grant /\ row.place = conn.place
      /\ row.version = conn.version
  BY <1>1 DEF Stored, CredCall, CredStates, Leading, ConnRow
<1> HIDE DEF row
<1>3. Bystanders(c) /\ call'[c] = row /\ JoinedOK' /\ OneRenewal'
  BY <1>2, LeaderStep DEF Leading, row
<1>4. CallOnward /\ RowOK' /\ SameCredential
  BY BegunRowOK, BegunRows
<1>5. CallOK(c)'
  <2>1. row.passes < MaxPasses /\ row.leader = Nobody
    BY <1>1, <1>2 DEF CallOK
  <2>2. provider'[row.grant].issued
    BY <1>2 DEF CredInv, RowOK
  <2>3. row.id = conn'.id /\ row.version = conn'.version /\ row.grant = conn'.grant /\ row.place = conn'.place
    BY <1>2, <1>4 DEF SameCredential
  <2>4. row.id <= conn'.id /\ row.version <= conn'.version
    BY <1>1, <1>2, <2>3
  <2>5. QED
    BY <1>2, <1>3, <2>1, <2>2, <2>3, <2>4 DEF CallOK
<1>6. ASSUME credFaults' = 0
      PROVE  Faultless'
  <2>1. Faultless
    BY <1>6 DEF CredInv
  <2>2. \A k \in CredCalls : call[k].state \in {"renewing", "committing"} =>
          conn.lease # k /\ (conn.status # "active" \/ conn.grant # call[k].grant)
    BY <2>1, FreeLeaseIsNobodys DEF Faultless, Held
  <2>3. provider[conn.grant].place = conn.place
    BY <2>1, <2>2 DEF Faultless, Owns
  <2>4. Held(c)'
    BY <1>2, <1>3, <1>4, <2>3 DEF Held, Owns, ActiveWith, SameCredential
  <2>5. ASSUME NEW k \in CredCalls, k # c, call'[k].state \in {"renewing", "committing"}
        PROVE  Held(k)'
    <3>1. call'[k] = call[k]
      BY <1>3, <2>5, AnsweredRow DEF Bystanders
    <3>2. QED
      BY <1>4, <2>2, <2>5, <3>1 DEF Held, SameCredential
  <2>6. ASSUME NEW k \in CredCalls, call'[k].state = "aborting"
        PROVE  call'[k].permanent
    BY <1>2, <1>3, <2>1, <2>6, AnsweredRow DEF Bystanders, Faultless
  <2>7. QED
    BY <1>4, <2>3, <2>4, <2>5, <2>6 DEF Faultless, SameCredential
<1>7. QED
  BY <1>3, <1>4, <1>5, <1>6, CredMove, CredTyped DEF CredTypes

\* A row that ends, whoever ends it, is nobody's.
LEMMA EndedIsFaultless ==
  ASSUME CredInv, Faultless, NEW c \in CredCalls, Bystanders(c), conn'.status # "active", conn'.lease = Nobody,
         call'[c].state \notin {"aborting", "renewing", "committing"}
  PROVE  Faultless'
<1>1. ASSUME NEW k \in CredCalls, call'[k].state = "aborting"
      PROVE  call'[k].permanent
  BY <1>1, AnsweredRow DEF Faultless, Bystanders
<1>2. \A k \in CredCalls : Held(k)'
  BY CredentialsAssumption DEF Held
<1>3. QED
  BY <1>1, <1>2 DEF Faultless

LEMMA BeginRefreshKeeps ==
  ASSUME CredInv, NEW c \in CredCalls, BeginRefresh(c)
  PROVE  CredInv'
<1>1. call[c].state = "begun" /\ conn' = BegunRow(c) /\ UNCHANGED <<provider, credFaults>>
  BY DEF BeginRefresh
<1>2. CallOnward /\ RowOK'
  BY <1>1, BegunRowOK
<1>3. credFaults' \in 0..MaxCredFaults
  BY <1>1, CredTyped DEF CredTypes
<1>4. CASE ~ActiveWith(call[c].id) \/ conn.age = "fresh" \/ ~conn.renewable
  <2>1. Settle(c)
    BY <1>4 DEF BeginRefresh
  <2>2. CASE conn' = conn
    BY <1>1, <2>1, <2>2, JustSettles
  <2>3. CASE conn' # conn
    <3>1. conn'.status = "expired" /\ conn'.lease = Nobody
      BY <1>1, <1>4, <2>3, BegunRows
    <3>2. Bystanders(c) /\ call'[c] = Answered /\ JoinedOK' /\ OneRenewal'
      BY <2>1, SettleStep
    <3>3. CallOK(c)'
      BY <1>2, <3>2, AttemptKept
    <3>4. credFaults' = 0 => Faultless'
      BY <1>1, <3>1, <3>2, AnsweredRow, EndedIsFaultless DEF CredInv
    <3>5. QED
      BY <1>2, <1>3, <3>2, <3>3, <3>4, CredMove
  <2>4. QED
    BY <2>2, <2>3
<1>5. CASE ActiveWith(call[c].id) /\ conn.age # "fresh" /\ conn.renewable /\ LeaseFree(c)
  <2>1. call' = [call EXCEPT ![c] = Stored(c, "renewing")]
    BY <1>5 DEF BeginRefresh
  <2>2. conn' = [conn EXCEPT !.lease = c, !.lapsed = FALSE]
    BY <1>1, <1>5 DEF BegunRow
  <2>3. conn'.status = "active" /\ conn'.lease = c /\ ~conn'.lapsed /\ conn.status = "active"
    BY <1>5, <2>2, CredTyped DEF CredTypes, ConnRow, ActiveWith
  <2>4. QED
    BY <1>1, <1>5, <2>1, <2>3, LeaseTaken
<1>6. CASE ActiveWith(call[c].id) /\ conn.age # "fresh" /\ conn.renewable /\ ~LeaseFree(c)
  <2> DEFINE row == [call[c] EXCEPT !.state = "waiting"]
  <2>1. conn' = conn /\ call' = [call EXCEPT ![c] = row]
    BY <1>1, <1>6 DEF BegunRow, BeginRefresh
  <2>2. call[c] \in CredCall /\ call[c].passes < MaxPasses
    BY CredTyped DEF CredTypes, CredInv, CallOK
  <2>3. /\ row \in CredCall /\ row.state = "waiting" /\ row.key = call[c].key /\ row.leader = call[c].leader
        /\ row.passes < MaxPasses
    BY <2>2 DEF CredCall, CredStates, Leading
  <2> HIDE DEF row
  <2>4. QED
    BY <1>1, <1>3, <2>1, <2>3, QuietLeader DEF Leading, Attempting
<1>7. QED
  BY <1>4, <1>5, <1>6

\* With a fault on the books, what holds without any is not asked.
LEMMA FaultySettles ==
  ASSUME CredInv, NEW c \in CredCalls, Settle(c), CallOnward, RowOK', CredFault
  PROVE  CredInv'
<1>1. Bystanders(c) /\ call'[c] = Answered /\ JoinedOK' /\ OneRenewal'
  BY SettleStep
<1>2. CallOK(c)'
  BY <1>1, AttemptKept
<1>3. QED
  BY <1>1, <1>2, CredFaultCounts, CredMove

LEMMA BeginFailsKeeps ==
  ASSUME CredInv, NEW c \in CredCalls, BeginFails(c)
  PROVE  CredInv'
<1>1. Settle(c) /\ CredFault /\ UNCHANGED provider /\ (conn' = conn \/ conn' = BegunRow(c))
  BY DEF BeginFails
<1>2. CallOnward /\ RowOK'
  BY <1>1, BegunRowOK, SameIsAlike, AlikeStep
<1>3. QED
  BY <1>1, <1>2, FaultySettles

-----------------------------------------------------------------------------
\* The server answers: the call is about to store the token it now accepts.
LEMMA RefreshGrantedKeeps ==
  ASSUME CredInv, NEW c \in CredCalls, RefreshGranted(c)
  PROVE  CredInv'
<1> DEFINE g == call[c].grant
<1>1. PICK next \in {call[c].place, call[c].place + 1} \cap 0..MaxRotations :
        /\ provider' = [provider EXCEPT ![g].place = next]
        /\ call' = [call EXCEPT ![c].place = next, ![c].state = "committing"]
  BY DEF RefreshGranted
<1>2. call[c].state = "renewing" /\ provider[g].issued /\ UNCHANGED <<conn, credFaults>>
  BY DEF RefreshGranted, Accepts
<1>3. /\ call[c] \in CredCall /\ conn \in ConnRow /\ CallOK(c) /\ g \in Grants
      /\ call[c].place \in Nat /\ next \in 0..MaxRotations /\ next >= call[c].place
  BY CredTyped, CredentialsAssumption DEF CredTypes, CredCall, CredInv
<1>4. /\ provider' \in [Grants -> [issued : BOOLEAN, place : 0..MaxRotations, dead : BOOLEAN]]
      /\ \A h \in Grants : provider'[h].issued = provider[h].issued
      /\ \A h \in Grants : provider'[h].place = IF h = g THEN next ELSE provider[h].place
  BY <1>1, <1>3, CredTyped DEF CredTypes
<1> DEFINE row == [call[c] EXCEPT !.place = next, !.state = "committing"]
<1>5. /\ row \in CredCall /\ row.state = "committing" /\ row.place = next /\ row.key = call[c].key
      /\ row.leader = call[c].leader /\ row.passes = call[c].passes /\ row.id = call[c].id
      /\ row.grant = g /\ row.version = call[c].version
  BY <1>3 DEF CredCall, CredStates, Leading
<1>6. call' = [call EXCEPT ![c] = row]
  BY <1>1, <1>3, CredTyped DEF CredTypes, CredCall
<1> HIDE DEF row, g
<1>7. Bystanders(c) /\ call'[c] = row /\ JoinedOK' /\ OneRenewal'
  BY <1>2, <1>5, <1>6, LeaderStep DEF Leading
<1>8. CallOnward
  BY <1>2, <1>3, <1>4, CredentialsAssumption DEF CallOnward, ConnRow
<1>9. RowOK'
  <2>1. RowOK
    BY DEF CredInv
  <2>2. QED
    BY <1>2, <1>3, <1>4, <2>1 DEF RowOK, ConnRow
<1>10. CallOK(c)'
  <2>1. Matches(c)' <=> Matches(c)
    BY <1>2, <1>5, <1>7 DEF Matches
  <2>2. Matches(c) => g = conn.grant /\ call[c].place = conn.place
    BY <1>2, <1>3 DEF CallOK, g
  <2>3. Matches(c) => g = conn.grant /\ next >= conn.place
    BY <1>3, <2>2
  <2>4. provider'[g].issued
    BY <1>2, <1>3, <1>4
  <2>5. /\ call[c].passes < MaxPasses /\ call[c].leader = Nobody /\ call[c].id <= conn.id
        /\ call[c].id = conn.id => call[c].version <= conn.version
    BY <1>2, <1>3 DEF CallOK, Attempting
  <2>6. QED
    BY <1>2, <1>5, <1>7, <2>1, <2>3, <2>4, <2>5 DEF CallOK
<1>11. ASSUME credFaults' = 0
       PROVE  Faultless'
  <2>1. Faultless /\ Held(c)
    BY <1>2, <1>11 DEF CredInv, Faultless
  <2>2. Owns(c)' <=> Owns(c)
    BY <1>2, <1>5, <1>7 DEF Owns, ActiveWith
  <2>3. Held(c)'
    BY <1>2, <1>3, <1>4, <1>5, <1>7, <2>1, <2>2 DEF Held, g
  <2>4. conn.status = "active" /\ conn.grant = g => Owns(c)
    BY <2>1 DEF Held, g
  <2>5. conn.grant \in Grants
    BY <1>3 DEF ConnRow
  <2>6. ASSUME NEW k \in CredCalls, k # c, Owns(k), call'[k] = call[k]
        PROVE  Owns(k)' /\ provider'[conn.grant].place = provider[conn.grant].place
    <3>1. conn.grant # g
      BY <2>4, <2>6 DEF Owns, ActiveWith
    <3>2. QED
      BY <1>2, <1>4, <2>5, <2>6, <3>1 DEF Owns, ActiveWith
  <2>7. ASSUME NEW k \in CredCalls, k # c, call'[k].state \in {"renewing", "committing"}
        PROVE  Held(k)'
    <3>1. call'[k] = call[k]
      BY <1>7, <2>7, AnsweredRow DEF Bystanders
    <3>2. Held(k)
      BY <2>1, <2>7, <3>1 DEF Faultless
    <3>3. QED
      BY <1>2, <2>6, <2>7, <3>1, <3>2 DEF Held
  <2>8. \A k \in CredCalls : call'[k].state = "aborting" => call'[k].permanent
    BY <1>5, <1>7, <2>1, AnsweredRow DEF Bystanders, Faultless
  <2>9. ASSUME conn.status = "active", provider'[conn.grant].place # conn.place
        PROVE  \E k \in CredCalls :
                 call'[k].state = "committing" /\ Owns(k)' /\ call'[k].place = provider'[conn.grant].place
    <3>1. CASE conn.grant = g
      BY <1>3, <1>4, <1>5, <1>7, <2>2, <2>4, <2>9, <3>1
    <3>2. CASE conn.grant # g
      <4>1. PICK k \in CredCalls :
              call[k].state = "committing" /\ Owns(k) /\ call[k].place = provider[conn.grant].place
        BY <1>4, <2>1, <2>5, <2>9, <3>2 DEF Faultless
      <4>2. k # c /\ call'[k] = call[k]
        BY <1>2, <1>7, <4>1 DEF Bystanders
      <4>3. QED
        BY <2>6, <4>1, <4>2
    <3>3. QED
      BY <3>1, <3>2
  <2>10. QED
    BY <1>2, <2>3, <2>7, <2>8, <2>9 DEF Faultless
<1>12. QED
  BY <1>2, <1>7, <1>8, <1>9, <1>10, <1>11, CredMove, CredTyped DEF CredTypes

LEMMA RefreshRefusedKeeps ==
  ASSUME CredInv, NEW c \in CredCalls, RefreshRefused(c)
  PROVE  CredInv'
<1> DEFINE row == [call[c] EXCEPT !.state = "aborting", !.permanent = TRUE]
<1>1. /\ call[c].state = "renewing" /\ UNCHANGED <<conn, provider, credFaults>>
      /\ call' = [call EXCEPT ![c].state = "aborting", ![c].permanent = TRUE]
  BY DEF RefreshRefused
<1>2. call[c] \in CredCall /\ call[c].passes < MaxPasses
  BY CredTyped DEF CredTypes, CredInv, CallOK
<1>3. /\ row \in CredCall /\ row.state = "aborting" /\ row.permanent /\ row.key = call[c].key /\ row.leader = call[c].leader
      /\ row.passes < MaxPasses /\ row.place = call[c].place
      /\ row.id = call[c].id /\ row.version = call[c].version /\ row.grant = call[c].grant
  BY <1>2 DEF CredCall, CredStates, Leading
<1>4. call' = [call EXCEPT ![c] = row]
  BY <1>1, <1>2, CredTyped DEF CredTypes, CredCall
<1> HIDE DEF row
<1>5. QED
  BY <1>1, <1>3, <1>4, QuietLeader, CredTyped DEF Leading, Attempting, CredTypes

\* A call aborts after a fault, whatever of the row or the server changed.
LEMMA FaultyAborts ==
  ASSUME CredInv, NEW c \in CredCalls, NEW b \in BOOLEAN, call[c].state \in {"renewing", "committing"},
         b => call[c].state = "renewing",
         call' = [call EXCEPT ![c].state = "aborting", ![c].permanent = b], CallOnward, RowOK', CredFault
  PROVE  CredInv'
<1> DEFINE row == [call[c] EXCEPT !.state = "aborting", !.permanent = b]
<1>1. call[c] \in CredCall /\ CallOK(c) /\ conn \in ConnRow
  BY CredTyped DEF CredTypes, CredInv
<1>2. /\ row \in CredCall /\ row.state = "aborting" /\ row.permanent = b /\ row.key = call[c].key /\ row.leader = call[c].leader
      /\ row.passes = call[c].passes /\ row.place = call[c].place
      /\ row.id = call[c].id /\ row.version = call[c].version /\ row.grant = call[c].grant
  BY <1>1 DEF CredCall, CredStates, Leading
<1>3. call' = [call EXCEPT ![c] = row]
  BY <1>1, CredTyped DEF CredTypes, CredCall
<1> HIDE DEF row
<1>4. Bystanders(c) /\ call'[c] = row /\ JoinedOK' /\ OneRenewal'
  BY <1>2, <1>3, LeaderStep DEF Leading
<1>5. call[c].id \in Nat /\ call[c].version \in Nat /\ conn.id \in Nat /\ conn.version \in Nat
      /\ conn'.id \in Nat /\ conn'.version \in Nat /\ call[c].grant \in Grants
  BY <1>1, CredentialsAssumption DEF CredCall, ConnRow, CallOnward
<1>6. /\ call[c].passes < MaxPasses /\ call[c].leader = Nobody /\ provider[call[c].grant].issued
      /\ call[c].id <= conn.id /\ (call[c].id = conn.id => call[c].version <= conn.version)
      /\ b /\ Matches(c) => call[c].grant = conn.grant /\ call[c].place = conn.place
  BY <1>1 DEF CallOK, Attempting
<1>7. conn.id <= conn'.id /\ (conn'.id = conn.id => conn.version <= conn'.version) /\ provider'[call[c].grant].issued
  BY <1>5, <1>6 DEF CallOnward
<1>8. Matches(c)' => Matches(c) /\ conn'.grant = conn.grant /\ conn'.place = conn.place
  <2> HAVE Matches(c)'
  <2>1. call[c].id = conn'.id /\ call[c].version = conn'.version
    BY <1>2, <1>4 DEF Matches
  <2>2. conn'.id = conn.id /\ conn'.version = conn.version
    BY <1>5, <1>6, <1>7, <2>1
  <2>3. QED
    BY <2>1, <2>2 DEF Matches, CallOnward
<1>9. call[c].id <= conn'.id /\ (call[c].id = conn'.id => call[c].version <= conn'.version)
  BY <1>5, <1>6, <1>7
<1>10. CallOK(c)'
  BY <1>2, <1>4, <1>6, <1>7, <1>8, <1>9 DEF CallOK
<1>11. QED
  BY <1>4, <1>10, CredFaultCounts, CredMove

LEMMA RefreshFailsKeeps ==
  ASSUME CredInv, NEW c \in CredCalls, RefreshFails(c)
  PROVE  CredInv'
<1>1. call[c].state = "renewing" /\ CredFault /\ UNCHANGED conn
  BY DEF RefreshFails
<1>2. PICK b \in BOOLEAN : call' = [call EXCEPT ![c].state = "aborting", ![c].permanent = b]
  BY DEF RefreshFails
<1>3. CallOnward /\ RowOK'
  <2>1. CASE UNCHANGED provider
    BY <1>1, <2>1, SameIsAlike, AlikeStep
  <2>2. CASE Accepts(c) /\ call[c].place < MaxRotations /\ provider' = [provider EXCEPT ![call[c].grant].place = @ + 1]
    <3>1. call[c].grant \in Grants /\ provider[call[c].grant].issued /\ provider[call[c].grant].place = call[c].place
      BY <2>2, CredTyped DEF CredTypes, CredCall, Accepts
    <3>2. call[c].place + 1 \in 0..MaxRotations
      BY <2>2, CredTyped, CredentialsAssumption DEF CredTypes, CredCall
    <3>3. /\ provider' \in [Grants -> [issued : BOOLEAN, place : 0..MaxRotations, dead : BOOLEAN]]
          /\ \A h \in Grants : provider'[h].issued = provider[h].issued
          /\ \A h \in Grants : h # call[c].grant => provider'[h].place = provider[h].place
      BY <2>2, <3>1, <3>2, CredTyped DEF CredTypes
    <3>4. RowOK /\ conn \in ConnRow /\ conn.id \in Nat /\ conn.version \in Nat
      BY CredTyped, CredentialsAssumption DEF CredInv, CredTypes, ConnRow
    <3>5. CallOnward
      BY <1>1, <3>3, <3>4 DEF CallOnward
    <3>6. RowOK'
      BY <1>1, <3>1, <3>3, <3>4 DEF RowOK, ConnRow
    <3>7. QED
      BY <3>5, <3>6
  <2>3. QED
    BY <2>1, <2>2 DEF RefreshFails
<1>4. QED
  BY <1>1, <1>2, <1>3, FaultyAborts

-----------------------------------------------------------------------------
\* What the steps that answer calls, or change none, must do.
LEMMA CredSweep ==
  ASSUME CredInv, CallOnward, RowOK', call' \in [CredCalls -> CredCall],
         \A k \in CredCalls : call'[k] \in {call[k], Answered}, JoinedOK', OneRenewal',
         credFaults' \in 0..MaxCredFaults, credFaults' = 0 => Faultless'
  PROVE  CredInv'
<1>1. \A k \in CredCalls : CallOK(k)'
  BY AttemptKept
<1>2. CredTypes'
  BY DEF CredTypes, CallOnward
<1>3. CredTypeOK'
  BY <1>2, CredTypeParts, PTL
<1>4. QED
  BY <1>1, <1>3 DEF CredInv

LEMMA CallsStand ==
  ASSUME CredInv, UNCHANGED call, CallOnward, RowOK',
         credFaults' \in 0..MaxCredFaults, credFaults' = 0 => Faultless'
  PROVE  CredInv'
<1>1. CredTypes /\ JoinedOK /\ OneRenewal
  BY CredTyped
<1>2. JoinedOK' /\ OneRenewal'
  BY <1>1 DEF JoinedOK, OneRenewal, Together
<1>3. QED
  BY <1>1, <1>2, CredSweep DEF CredTypes

LEMMA GrantRevokedKeeps ==
  ASSUME CredInv, NEW g \in Grants, GrantRevoked(g)
  PROVE  CredInv'
<1>1. UNCHANGED <<conn, call>> /\ CredFault /\ provider' = [provider EXCEPT ![g].dead = TRUE]
  BY DEF GrantRevoked
<1>2. /\ provider' \in [Grants -> [issued : BOOLEAN, place : 0..MaxRotations, dead : BOOLEAN]]
      /\ \A h \in Grants : provider'[h].issued = provider[h].issued /\ provider'[h].place = provider[h].place
  BY <1>1, CredTyped DEF CredTypes
<1>3. RowOK /\ conn \in ConnRow /\ conn.id \in Nat /\ conn.version \in Nat
  BY CredTyped, CredentialsAssumption DEF CredInv, CredTypes, ConnRow
<1>4. CallOnward
  BY <1>1, <1>2, <1>3 DEF CallOnward
<1>5. RowOK'
  BY <1>1, <1>2, <1>3 DEF RowOK, ConnRow
<1>6. QED
  BY <1>1, <1>4, <1>5, CallsStand, CredFaultCounts

\* What a commit by the lease's owner leaves: the next version, the token the
\* server gave for the one the row held, and nobody's lease.
LEMMA RenewedRow ==
  ASSUME CredInv, NEW c \in CredCalls, call[c].state = "committing", Owns(c), conn' = Renewed(c), UNCHANGED provider
  PROVE  /\ CallOnward /\ RowOK'
         /\ conn'.status = conn.status /\ conn'.lease = Nobody
         /\ conn'.grant = conn.grant /\ conn'.place = call[c].place /\ conn'.place >= conn.place
<1>1. conn \in ConnRow /\ call[c] \in CredCall /\ RowOK /\ CallOK(c)
  BY CredTyped DEF CredTypes, CredInv
<1>2. conn.version \in Nat /\ conn.id \in Nat /\ conn.version + 1 \in Nat
  BY <1>1, CredentialsAssumption DEF ConnRow
<1>3. call[c].grant = conn.grant /\ call[c].place >= conn.place
  BY <1>1 DEF CallOK, Matches, Owns, ActiveWith
<1>4. /\ conn' \in ConnRow /\ conn'.id = conn.id /\ conn'.status = conn.status /\ conn'.grant = call[c].grant
      /\ conn'.place = call[c].place /\ conn'.version = conn.version + 1 /\ conn'.lease = Nobody /\ ~conn'.lapsed
  BY <1>1, <1>2 DEF Renewed, Unleased, ConnRow, CredCall, Ages, Leases
<1>5. CallOnward
  BY <1>2, <1>4, CredTyped DEF CallOnward, CredTypes
<1>6. RowOK'
  BY <1>1, <1>3, <1>4 DEF RowOK
<1>7. QED
  BY <1>3, <1>4, <1>5, <1>6

LEMMA FinishRefreshKeeps ==
  ASSUME CredInv, NEW c \in CredCalls, FinishRefresh(c)
  PROVE  CredInv'
<1>1. call[c].state = "committing" /\ UNCHANGED <<provider, credFaults>>
  BY DEF FinishRefresh
<1>2. CASE Owns(c)
  <2>1. conn' = Renewed(c) /\ Settle(c)
    BY <1>2 DEF FinishRefresh, MayFinish
  <2>2. Bystanders(c) /\ call'[c] = Answered /\ JoinedOK' /\ OneRenewal'
    BY <2>1, SettleStep
  <2>3. /\ CallOnward /\ RowOK' /\ conn'.status = conn.status /\ conn'.lease = Nobody
        /\ conn'.grant = conn.grant /\ conn'.place = call[c].place
    BY <1>1, <1>2, <2>1, RenewedRow
  <2>4. CallOK(c)'
    BY <2>2, <2>3, AttemptKept
  <2>5. ASSUME credFaults' = 0
        PROVE  Faultless'
    <3>1. Faultless /\ Held(c)
      BY <1>1, <2>5 DEF CredInv, Faultless
    <3>2. call[c].place = provider[conn.grant].place
      BY <1>2, <3>1 DEF Held, Owns
    <3>3. ASSUME NEW k \in CredCalls, call'[k].state \in {"renewing", "committing"}
          PROVE  Held(k)'
      <4>1. k # c /\ call'[k] = call[k]
        BY <2>2, <3>3, AnsweredRow DEF Bystanders
      <4>2. conn.status # "active" \/ conn.grant # call[k].grant
        BY <1>2, <3>1, <3>3, <4>1 DEF Faultless, Held, Owns
      <4>3. QED
        BY <2>3, <4>1, <4>2, CredentialsAssumption DEF Held
    <3>4. \A k \in CredCalls : call'[k].state = "aborting" => call'[k].permanent
      BY <2>2, <3>1, AnsweredRow DEF Bystanders, Faultless
    <3>5. QED
      BY <1>1, <2>3, <3>2, <3>3, <3>4 DEF Faultless
  <2>6. QED
    BY <1>1, <2>2, <2>3, <2>4, <2>5, CredMove, CredTyped DEF CredTypes
<1>3. CASE ~Owns(c)
  <2> DEFINE row == [call[c] EXCEPT !.state = "lost race"]
  <2>1. UNCHANGED conn /\ call' = [call EXCEPT ![c].state = "lost race"]
    BY <1>3 DEF FinishRefresh, MayFinish
  <2>2. call[c] \in CredCall /\ call[c].passes < MaxPasses
    BY CredTyped DEF CredTypes, CredInv, CallOK
  <2>3. /\ row \in CredCall /\ row.state = "lost race" /\ row.key = call[c].key /\ row.leader = call[c].leader
        /\ row.passes < MaxPasses
        /\ row.id = call[c].id /\ row.version = call[c].version /\ row.grant = call[c].grant
    BY <2>2 DEF CredCall, CredStates, Leading
  <2>4. call' = [call EXCEPT ![c] = row]
    BY <2>1, <2>2, CredTyped DEF CredTypes, CredCall
  <2> HIDE DEF row
  <2>5. QED
    BY <1>1, <1>3, <2>1, <2>3, <2>4, QuietLeader, CredTyped DEF Leading, Attempting, CredTypes
<1>4. QED
  BY <1>2, <1>3

LEMMA FinishFailsKeeps ==
  ASSUME CredInv, NEW c \in CredCalls, FinishFails(c)
  PROVE  CredInv'
<1>1. /\ call[c].state = "committing" /\ CredFault /\ UNCHANGED provider
      /\ call' = [call EXCEPT ![c].state = "aborting", ![c].permanent = FALSE]
      /\ conn' = conn \/ (Owns(c) /\ conn' = Renewed(c))
  BY DEF FinishFails, MayFinish
<1>2. CallOnward /\ RowOK'
  BY <1>1, RenewedRow, SameIsAlike, AlikeStep
<1>3. QED
  BY <1>1, <1>2, FaultyAborts

LEMMA QueryWinnerKeeps ==
  ASSUME CredInv, NEW c \in CredCalls, QueryWinner(c)
  PROVE  CredInv'
BY JustSettles DEF QueryWinner

\* What abortRefresh leaves of the row: the same credential, under no lease if
\* the lease was the call's, and ended if the refusal is for good.
LEMMA AbortedRow ==
  ASSUME CredInv, NEW c \in CredCalls, Owns(c), UNCHANGED provider,
         conn' = Unleased(IF call[c].permanent THEN [conn EXCEPT !.status = "expired"] ELSE conn)
  PROVE  /\ CallOnward /\ RowOK' /\ SameCredential /\ conn'.lease = Nobody
         /\ conn'.status = IF call[c].permanent THEN "expired" ELSE conn.status
<1>1. conn \in ConnRow /\ RowOK
  BY CredTyped DEF CredTypes, CredInv
<1>2. /\ SameCredential /\ conn'.lease = Nobody /\ ~conn'.lapsed
      /\ conn'.status = IF call[c].permanent THEN "expired" ELSE conn.status
  <2>1. CASE call[c].permanent
    BY <1>1, <2>1 DEF Unleased, ConnRow, Leases, SameCredential
  <2>2. CASE ~call[c].permanent
    BY <1>1, <2>2 DEF Unleased, ConnRow, Leases, SameCredential
  <2>3. QED
    BY <2>1, <2>2
<1>3. RowOK'
  BY <1>1, <1>2 DEF RowOK, SameCredential
<1>4. QED
  BY <1>2, <1>3, SameCredentialOnward

LEMMA AbortRefreshKeeps ==
  ASSUME CredInv, NEW c \in CredCalls, AbortRefresh(c)
  PROVE  CredInv'
<1>1. call[c].state = "aborting" /\ Settle(c) /\ UNCHANGED <<provider, credFaults>>
  BY DEF AbortRefresh
<1>2. CASE ~Owns(c)
  BY <1>1, <1>2, JustSettles DEF AbortRefresh
<1>3. CASE Owns(c)
  <2>1. /\ CallOnward /\ RowOK' /\ conn'.lease = Nobody
        /\ conn'.status = IF call[c].permanent THEN "expired" ELSE conn.status
    BY <1>1, <1>3, AbortedRow DEF AbortRefresh
  <2>2. Bystanders(c) /\ call'[c] = Answered /\ JoinedOK' /\ OneRenewal'
    BY <1>1, SettleStep
  <2>3. CallOK(c)'
    BY <2>1, <2>2, AttemptKept
  <2>4. ASSUME credFaults' = 0
        PROVE  Faultless'
    <3>1. Faultless /\ call[c].permanent
      BY <1>1, <2>4 DEF CredInv, Faultless
    <3>2. QED
      BY <2>1, <2>2, <3>1, AnsweredRow, EndedIsFaultless
  <2>5. QED
    BY <1>1, <2>1, <2>2, <2>3, <2>4, CredMove, CredTyped DEF CredTypes
<1>4. QED
  BY <1>2, <1>3

LEMMA AbortFailsKeeps ==
  ASSUME CredInv, NEW c \in CredCalls, AbortFails(c)
  PROVE  CredInv'
BY JustSettles DEF AbortFails

-----------------------------------------------------------------------------
LEMMA AgeingKeeps ==
  ASSUME CredInv, Ageing
  PROVE  CredInv'
<1>1. UNCHANGED <<provider, call, credFaults>>
  BY DEF Ageing
<1>2. Alike
  BY CredTyped DEF Ageing, CredTypes, ConnRow, Ages, Alike
<1>3. CallOnward /\ RowOK'
  BY <1>2, AlikeStep
<1>4. ASSUME credFaults' = 0
      PROVE  Faultless'
  <2>1. Faultless
    BY <1>1, <1>4 DEF CredInv
  <2>2. \A k \in CredCalls : (Owns(k)' <=> Owns(k)) /\ (Held(k)' <=> Held(k))
    BY <1>1, <1>2, AlikeHold
  <2>3. QED
    BY <1>1, <1>2, <2>1, <2>2 DEF Faultless, Alike
<1>5. QED
  BY <1>1, <1>3, <1>4, CallsStand, CredTyped DEF CredTypes

LEMMA LeaseLapsesKeeps ==
  ASSUME CredInv, LeaseLapses
  PROVE  CredInv'
<1>1. /\ conn.lease # Nobody /\ conn' = [conn EXCEPT !.lapsed = TRUE] /\ UNCHANGED <<provider, call>>
      /\ IF Working(conn.lease) THEN CredFault ELSE UNCHANGED credFaults
  BY DEF LeaseLapses
<1>2. conn \in ConnRow /\ RowOK
  BY CredTyped DEF CredTypes, CredInv
<1>3. SameCredential /\ conn'.status = conn.status /\ conn'.lease = conn.lease /\ conn'.lapsed
  BY <1>1, <1>2 DEF ConnRow, SameCredential
<1>4. CallOnward /\ RowOK'
  BY <1>1, <1>2, <1>3, SameCredentialOnward DEF RowOK, SameCredential
<1>5. credFaults' \in 0..MaxCredFaults
  BY <1>1, CredFaultCounts, CredTyped DEF CredTypes
<1>6. ASSUME credFaults' = 0
      PROVE  Faultless'
  <2>1. ~Working(conn.lease) /\ Faultless
    BY <1>1, <1>6, CredFaultCounts DEF CredInv
  <2>2. \A k \in CredCalls : call[k].state \in {"renewing", "committing"} => ~Owns(k)
    BY <2>1 DEF Owns, Working
  <2>3. \A k \in CredCalls : call[k].state \in {"renewing", "committing"} =>
          conn.lease # k /\ (conn.status # "active" \/ conn.grant # call[k].grant)
    BY <2>1, <2>2 DEF Faultless, Held
  <2>4. \A k \in CredCalls : call[k].state \in {"renewing", "committing"} => Held(k)'
    BY <1>1, <1>3, <2>3 DEF Held, SameCredential
  <2>5. conn.status = "active" => provider[conn.grant].place = conn.place
    BY <2>1, <2>2 DEF Faultless
  <2>6. QED
    BY <1>1, <1>3, <2>1, <2>4, <2>5 DEF Faultless, SameCredential
<1>7. QED
  BY <1>1, <1>4, <1>5, <1>6, CallsStand

\* A grant that was not issued yet is later than the row's.
LEMMA NewGrantIsLater ==
  ASSUME CredInv, NEW g \in Grants, ~provider[g].issued
  PROVE  g > conn.grant /\ conn.id + 1 \in 0..CredGrants /\ conn.id + 1 <= g
<1>1. RowOK /\ conn.grant \in Grants /\ conn.id \in Nat /\ g \in Nat /\ conn.grant \in Nat /\ g <= CredGrants
  BY CredTyped, CredentialsAssumption DEF CredInv, CredTypes, ConnRow, Grants
<1>2. g # conn.grant /\ ~(g < conn.grant)
  BY <1>1 DEF RowOK
<1>3. conn.id <= conn.grant
  BY <1>1 DEF RowOK
<1>4. QED
  BY <1>1, <1>2, <1>3, CredentialsAssumption

LEMMA ReconnectedRow ==
  ASSUME CredInv, NEW g \in Grants, NEW renewable \in BOOLEAN, ~provider[g].issued,
         conn' = Reconnected(g, renewable)
  PROVE  /\ conn' \in ConnRow /\ conn'.status = "active" /\ conn'.grant = g /\ conn'.place = 0
         /\ conn'.lease = Nobody /\ ~conn'.lapsed
         /\ \/ conn'.id = conn.id /\ conn'.version = conn.version + 1
            \/ conn'.id = conn.id + 1 /\ conn'.version = 1
<1>1. conn \in ConnRow /\ conn.version + 1 \in Nat /\ conn.id + 1 \in 0..CredGrants /\ 0 \in 0..MaxRotations
  BY CredTyped, NewGrantIsLater, CredentialsAssumption DEF CredTypes, ConnRow
<1> DEFINE fresh == [Unleased(conn) EXCEPT !.status = "active", !.grant = g, !.place = 0,
                                           !.age = "fresh", !.renewable = renewable]
<1>2. /\ fresh \in ConnRow /\ fresh.status = "active" /\ fresh.grant = g /\ fresh.place = 0
      /\ fresh.lease = Nobody /\ ~fresh.lapsed /\ fresh.id = conn.id /\ fresh.version = conn.version
  BY <1>1 DEF Unleased, ConnRow, Ages, Leases
<1>3. conn' = IF conn.status = "removed" THEN [fresh EXCEPT !.id = @ + 1, !.version = 1]
                                         ELSE [fresh EXCEPT !.version = @ + 1]
  BY DEF Reconnected
<1> HIDE DEF fresh
<1>4. CASE conn.status = "removed"
  <2>1. conn' = [fresh EXCEPT !.id = conn.id + 1, !.version = 1]
    BY <1>2, <1>3, <1>4 DEF ConnRow
  <2>2. conn'.id = conn.id + 1 /\ conn'.version = 1
    BY <1>2, <2>1 DEF ConnRow
  <2>3. conn' \in ConnRow
    <3>1. 1 \in Nat
      OBVIOUS
    <3>2. QED
      BY <1>1, <1>2, <2>1, <3>1 DEF ConnRow
  <2>4. /\ conn'.status = "active" /\ conn'.grant = g /\ conn'.place = 0 /\ conn'.lease = Nobody /\ ~conn'.lapsed
    BY <1>2, <2>1 DEF ConnRow
  <2>5. QED
    BY <2>2, <2>3, <2>4
<1>5. CASE conn.status # "removed"
  <2>1. conn' = [fresh EXCEPT !.version = conn.version + 1]
    BY <1>2, <1>3, <1>5 DEF ConnRow
  <2>2. conn'.id = conn.id /\ conn'.version = conn.version + 1
    BY <1>2, <2>1 DEF ConnRow
  <2>3. conn' \in ConnRow
    BY <1>1, <1>2, <2>1 DEF ConnRow
  <2>4. /\ conn'.status = "active" /\ conn'.grant = g /\ conn'.place = 0 /\ conn'.lease = Nobody /\ ~conn'.lapsed
    BY <1>2, <2>1 DEF ConnRow
  <2>5. QED
    BY <2>2, <2>3, <2>4
<1>6. QED
  BY <1>4, <1>5

LEMMA ReconnectKeeps ==
  ASSUME CredInv, Reconnect
  PROVE  CredInv'
<1>1. PICK g \in Grants, renewable \in BOOLEAN :
        /\ ~provider[g].issued /\ \A h \in Grants : h < g => provider[h].issued
        /\ provider' = [provider EXCEPT ![g].issued = TRUE]
        /\ conn' = Reconnected(g, renewable)
        /\ UNCHANGED <<call, credFaults>>
  BY DEF Reconnect
<1>2. /\ conn' \in ConnRow /\ conn'.status = "active" /\ conn'.grant = g /\ conn'.place = 0
      /\ conn'.lease = Nobody /\ ~conn'.lapsed
      /\ \/ conn'.id = conn.id /\ conn'.version = conn.version + 1
         \/ conn'.id = conn.id + 1 /\ conn'.version = 1
  BY <1>1, ReconnectedRow
<1>3. /\ RowOK /\ conn.id \in Nat /\ conn.version \in Nat /\ g \in Nat /\ conn.id + 1 <= g
      /\ Grants \subseteq Nat
  BY <1>1, NewGrantIsLater, CredTyped, CredentialsAssumption DEF CredInv, CredTypes, ConnRow, Grants
<1>4. /\ provider' \in [Grants -> [issued : BOOLEAN, place : 0..MaxRotations, dead : BOOLEAN]]
      /\ \A h \in Grants : provider'[h].issued <=> h = g \/ provider[h].issued
      /\ \A h \in Grants : provider'[h].place = provider[h].place
  BY <1>1, CredTyped DEF CredTypes
<1>5. CallOnward
  BY <1>2, <1>3, <1>4 DEF CallOnward
<1>6. RowOK'
  <2>1. conn'.id <= conn'.grant
    BY <1>2, <1>3
  <2>2. \A h, j \in Grants : provider'[h].issued /\ j < h => provider'[j].issued
    BY <1>1, <1>3, <1>4 DEF RowOK
  <2>3. \A h \in Grants : ~provider'[h].issued => provider'[h].place = 0
    BY <1>3, <1>4 DEF RowOK
  <2>4. QED
    BY <1>2, <1>4, <2>1, <2>2, <2>3 DEF RowOK
<1>7. ASSUME credFaults' = 0
      PROVE  Faultless'
  <2>1. Faultless
    BY <1>1, <1>7 DEF CredInv
  <2>2. ASSUME NEW k \in CredCalls, call[k].state \in {"renewing", "committing"}
        PROVE  Held(k)'
    <3>1. call[k].grant # g
      BY <1>1, <2>2 DEF CredInv, CallOK, Attempting
    <3>2. QED
      BY <1>1, <1>2, <3>1, CredentialsAssumption DEF Held
  <2>3. provider'[conn'.grant].place = conn'.place
    BY <1>1, <1>2, <1>3, <1>4 DEF RowOK
  <2>4. QED
    BY <1>1, <2>1, <2>2, <2>3 DEF Faultless
<1>8. QED
  BY <1>1, <1>5, <1>6, <1>7, CallsStand, CredTyped DEF CredTypes

LEMMA RemoveKeeps ==
  ASSUME CredInv, Remove
  PROVE  CredInv'
<1>1. conn' = [Unleased(conn) EXCEPT !.status = "removed"] /\ UNCHANGED <<provider, call, credFaults>>
  BY DEF Remove
<1>2. conn \in ConnRow /\ RowOK
  BY CredTyped DEF CredTypes, CredInv
<1>3. SameCredential /\ conn'.status = "removed" /\ conn'.lease = Nobody /\ ~conn'.lapsed
  BY <1>1, <1>2 DEF Unleased, ConnRow, Leases, SameCredential
<1>4. CallOnward /\ RowOK'
  BY <1>1, <1>2, <1>3, SameCredentialOnward DEF RowOK, SameCredential
<1>5. ASSUME credFaults' = 0
      PROVE  Faultless'
  <2>1. Faultless
    BY <1>1, <1>5 DEF CredInv
  <2>2. \A k \in CredCalls : Held(k)'
    BY <1>3, CredentialsAssumption DEF Held
  <2>3. QED
    BY <1>1, <1>3, <2>1, <2>2 DEF Faultless
<1>6. QED
  BY <1>1, <1>4, <1>5, CallsStand, CredTyped DEF CredTypes

\* A process dies with every call it runs: a call and the one whose promise it
\* shares are of one process.
LEMMA GatewayCrashKeeps ==
  ASSUME CredInv, NEW p, GatewayCrash(p)
  PROVE  CredInv'
<1> DEFINE dying == {c \in CredCalls : CredGateway[c] = p /\ call[c].state \notin {"idle", "answered"}}
<1>1. call' = [c \in CredCalls |-> IF c \in dying THEN Answered ELSE call[c]] /\ CredFault /\ UNCHANGED <<conn, provider>>
  BY DEF GatewayCrash
<1>2. CredTypes /\ JoinedOK /\ OneRenewal
  BY CredTyped
<1>3. /\ call' \in [CredCalls -> CredCall]
      /\ \A k \in CredCalls : call'[k] = IF k \in dying THEN Answered ELSE call[k]
  BY <1>1, <1>2, AnsweredRow DEF CredTypes
<1>4. \A k \in CredCalls : call'[k].state \in Leading \cup {"joined"} => call'[k] = call[k] /\ k \notin dying
  BY <1>3, AnsweredRow DEF Leading
<1>5. JoinedOK'
  <2>1. ASSUME NEW k \in CredCalls, call'[k].state = "joined"
        PROVE  /\ call'[k].leader \in CredCalls /\ call'[call'[k].leader].state \in Leading
               /\ CredGateway[call'[k].leader] = CredGateway[k]
    <3>1. call'[k] = call[k] /\ CredGateway[k] # p
      BY <1>4, <2>1
    <3>2. call[k].leader \in CredCalls /\ call[call[k].leader].state \in Leading /\ CredGateway[call[k].leader] = CredGateway[k]
      BY <1>2, <2>1, <3>1 DEF JoinedOK
    <3>3. call[k].leader \notin dying
      BY <3>1, <3>2
    <3>4. QED
      BY <1>3, <3>1, <3>2, <3>3
  <2>2. QED
    BY <2>1 DEF JoinedOK
<1>6. OneRenewal'
  BY <1>2, <1>4 DEF OneRenewal, Together
<1>7. CallOnward /\ RowOK'
  BY <1>1, SameIsAlike, AlikeStep
<1>8. QED
  BY <1>1, <1>3, <1>5, <1>6, <1>7, CredSweep, CredFaultCounts

LEMMA CredStutterKeeps ==
  ASSUME CredInv, UNCHANGED credVars
  PROVE  CredInv'
<1>1. UNCHANGED <<conn, provider, call, credFaults>>
  BY DEF credVars
<1>2. CallOnward /\ RowOK'
  BY <1>1, SameIsAlike, AlikeStep
<1>3. credFaults' = 0 => Faultless'
  BY <1>1 DEF CredInv, Faultless, Held, Owns, ActiveWith
<1>4. QED
  BY <1>1, <1>2, <1>3, CallsStand, CredTyped DEF CredTypes

LEMMA CredInitOK == CredInit => CredInv
<1> SUFFICES ASSUME CredInit PROVE CredInv
  OBVIOUS
<1>1. 0 \in 0..CredGrants /\ 1 \in Grants /\ 0 \in 0..MaxRotations /\ 0 \in 0..MaxPasses /\ 0 < MaxPasses
      /\ 1 \in 0..CredGrants /\ 0 \in 0..MaxCredFaults /\ Grants \subseteq Nat
  BY CredentialsAssumption DEF Grants
<1>2. NewCall \in CredCall /\ NewCall.state = "idle" /\ NewCall.leader = Nobody /\ NewCall.passes = 0
  BY <1>1 DEF NewCall, CredCall, CredStates, Leases
<1>3. /\ conn \in ConnRow /\ conn.id = 1 /\ conn.grant = 1 /\ conn.place = 0 /\ conn.lease = Nobody /\ ~conn.lapsed
  BY <1>1 DEF CredInit, ConnRow, Ages, Leases
<1>4. /\ provider \in [Grants -> [issued : BOOLEAN, place : 0..MaxRotations, dead : BOOLEAN]]
      /\ \A g \in Grants : (provider[g].issued <=> g = 1) /\ provider[g].place = 0
  BY <1>1 DEF CredInit
<1>5. call \in [CredCalls -> CredCall] /\ \A c \in CredCalls : call[c] = NewCall
  BY <1>2 DEF CredInit
<1>6. CredTypes /\ JoinedOK /\ OneRenewal
  BY <1>1, <1>2, <1>3, <1>4, <1>5 DEF CredInit, CredTypes, JoinedOK, OneRenewal, Together, Leading
<1>7. RowOK
  <2>1. \A g, h \in Grants : g = 1 => ~(h < g)
    BY DEF Grants
  <2>2. QED
    BY <1>1, <1>3, <1>4, <2>1 DEF RowOK
<1>8. \A c \in CredCalls : CallOK(c)
  BY <1>1, <1>2, <1>5 DEF CallOK, Attempting
<1>9. Faultless
  BY <1>1, <1>2, <1>3, <1>4, <1>5 DEF Faultless
<1>10. QED
  BY <1>6, <1>7, <1>8, <1>9, CredTypeParts DEF CredInv

LEMMA CredNextKeeps ==
  ASSUME CredInv, [CredNext]_credVars
  PROVE  CredInv'
<1>1. ASSUME NEW c \in CredCalls, ResolveQuery(c) \/ CallRuns(c)
      PROVE  CredInv'
  BY <1>1, ResolveQueryKeeps, ResolveDecideKeeps, QueryFailsKeeps, BeginRefreshKeeps, BeginFailsKeeps, RequeryKeeps,
     RefreshGrantedKeeps, RefreshRefusedKeeps, RefreshFailsKeeps, FinishRefreshKeeps, FinishFailsKeeps,
     QueryWinnerKeeps, AbortRefreshKeeps, AbortFailsKeeps DEF CallRuns
<1>2. ASSUME NEW c \in CredCalls, GatewayCrash(CredGateway[c])
      PROVE  CredInv'
  BY <1>2, GatewayCrashKeeps
<1>3. CASE Ageing \/ LeaseLapses \/ Reconnect \/ Remove
  BY <1>3, AgeingKeeps, LeaseLapsesKeeps, ReconnectKeeps, RemoveKeeps
<1>4. CASE UNCHANGED credVars
  BY <1>4, CredStutterKeeps
<1>5. QED
  BY <1>1, <1>2, <1>3, <1>4, GrantRevokedKeeps DEF CredNext

LEMMA CredInvariant == CredSpec => []CredInv
BY CredInitOK, CredNextKeeps, PTL DEF CredSpec

-----------------------------------------------------------------------------
(* What follows of the credential.                                         *)

\* The row goes on to a later credential, or keeps the one it has.
Advances ==
  \/ conn'.grant > conn.grant
  \/ conn'.grant = conn.grant /\ conn'.place >= conn.place

\* The row ends over its own credential: it cannot be renewed and is over, or
\* an attempt with that very credential was refused for good.
EndsOverItsOwn ==
  conn.status = "active" /\ conn'.status = "expired" =>
    \/ ~conn.renewable /\ conn.age = "over"
    \/ \E c \in CredCalls : /\ call[c].state = "aborting" /\ call[c].permanent
                            /\ call[c].grant = conn.grant /\ call[c].place = conn.place

LEMMA SameStands ==
  ASSUME CredInv, UNCHANGED conn
  PROVE  Advances /\ EndsOverItsOwn
<1>1. conn.place \in Nat
  BY CredTyped, CredentialsAssumption DEF CredTypes, ConnRow
<1>2. QED
  BY <1>1 DEF Advances, EndsOverItsOwn

LEMMA SameCredentialAdvances ==
  ASSUME CredInv, SameCredential
  PROVE  Advances
<1>1. conn.place \in Nat
  BY CredTyped, CredentialsAssumption DEF CredTypes, ConnRow
<1>2. QED
  BY <1>1 DEF Advances, SameCredential

LEMMA BegunStands ==
  ASSUME CredInv, NEW c \in CredCalls, conn' = BegunRow(c)
  PROVE  Advances /\ EndsOverItsOwn
<1>1. Advances
  BY BegunRows, SameCredentialAdvances
<1>2. EndsOverItsOwn
  BY BegunRows DEF EndsOverItsOwn
<1>3. QED
  BY <1>1, <1>2

LEMMA RenewedStands ==
  ASSUME CredInv, NEW c \in CredCalls, call[c].state = "committing", Owns(c), conn' = Renewed(c), UNCHANGED provider
  PROVE  Advances /\ EndsOverItsOwn
BY RenewedRow DEF Advances, EndsOverItsOwn

LEMMA AbortedStands ==
  ASSUME CredInv, NEW c \in CredCalls, AbortRefresh(c)
  PROVE  Advances /\ EndsOverItsOwn
<1>1. CASE ~Owns(c)
  BY <1>1, SameStands DEF AbortRefresh
<1>2. CASE Owns(c)
  <2>1. SameCredential /\ conn'.status = IF call[c].permanent THEN "expired" ELSE conn.status
    BY <1>2, AbortedRow DEF AbortRefresh
  <2>2. call[c].state = "aborting" /\ (call[c].permanent => call[c].grant = conn.grant /\ call[c].place = conn.place)
    BY <1>2 DEF AbortRefresh, CredInv, CallOK, Matches, Owns, ActiveWith
  <2>3. EndsOverItsOwn
    BY <2>1, <2>2 DEF EndsOverItsOwn
  <2>4. QED
    BY <2>1, <2>3, SameCredentialAdvances
<1>3. QED
  BY <1>1, <1>2

LEMMA CredentialStands ==
  ASSUME CredInv, [CredNext]_credVars
  PROVE  Advances /\ EndsOverItsOwn
<1>1. ASSUME NEW c \in CredCalls, ResolveQuery(c) \/ CallRuns(c)
      PROVE  Advances /\ EndsOverItsOwn
  <2>1. CASE UNCHANGED conn
    BY <2>1, SameStands
  <2>2. CASE BeginRefresh(c) \/ BeginFails(c)
    BY <2>2, SameStands, BegunStands DEF BeginRefresh, BeginFails
  <2>3. CASE FinishRefresh(c) \/ FinishFails(c)
    <3>1. /\ call[c].state = "committing" /\ UNCHANGED provider
          /\ conn' = conn \/ (Owns(c) /\ conn' = Renewed(c))
      BY <2>3 DEF FinishRefresh, FinishFails, MayFinish
    <3>2. QED
      BY <3>1, SameStands, RenewedStands
  <2>4. CASE AbortRefresh(c)
    BY <2>4, AbortedStands
  <2>5. QED
    BY <1>1, <2>1, <2>2, <2>3, <2>4 DEF CallRuns, ResolveQuery, ResolveDecide, QueryFails, Requery, RefreshGranted,
       RefreshRefused, RefreshFails, QueryWinner, AbortFails
<1>2. CASE Ageing \/ LeaseLapses \/ Remove
  <2>1. conn \in ConnRow
    BY CredTyped DEF CredTypes
  <2>2. SameCredential /\ (conn'.status = conn.status \/ conn'.status = "removed")
    BY <1>2, <2>1 DEF Ageing, LeaseLapses, Remove, Unleased, ConnRow, Ages, Leases, SameCredential
  <2>3. QED
    BY <2>2, SameCredentialAdvances DEF EndsOverItsOwn
<1>3. CASE Reconnect
  <2>1. PICK g \in Grants, renewable \in BOOLEAN : ~provider[g].issued /\ conn' = Reconnected(g, renewable)
    BY <1>3 DEF Reconnect
  <2>2. conn'.grant > conn.grant /\ conn'.status = "active"
    BY <2>1, NewGrantIsLater, ReconnectedRow
  <2>3. QED
    BY <2>2 DEF Advances, EndsOverItsOwn
<1>4. CASE UNCHANGED conn
  BY <1>4, SameStands
<1>5. QED
  BY <1>1, <1>2, <1>3, <1>4 DEF CredNext, GrantRevoked, GatewayCrash, credVars

\* Every variable of the credential's model has its type; a joined call awaits a
\* leader of its process, and one process renews a connection once at a time.
THEOREM CredentialTyped == CredSpec => []CredTypeOK
<1>1. CredInv => CredTypeOK
  BY DEF CredInv
<1>2. QED
  BY <1>1, CredInvariant, PTL

\* Without a lost answer or a stall, the row holds the refresh token that the
\* server accepts, or the holder of its lease is about to store it.
THEOREM RenewableUnlessFaulty == CredSpec => []StaysRenewable
<1>1. CredInv => StaysRenewable
  BY DEF CredInv, Faultless, StaysRenewable
<1>2. QED
  BY <1>1, CredInvariant, PTL

\* No attempt, however stale, takes the row back to an earlier credential or
\* ends it over another one, and without faults it can always be renewed
\* (service/connections.ts: finishRefresh and abortRefresh).
THEOREM RenewalsAreSound == CredSpec => CredentialsSound
<1>1. CredInv => StaysRenewable
  BY DEF CredInv, Faultless, StaysRenewable
<1>2. CredInv /\ [CredNext]_credVars => [Advances]_credVars
  BY CredentialStands
<1>3. CredInv /\ [CredNext]_credVars => [EndsOverItsOwn]_credVars
  BY CredentialStands
<1>4. CredSpec => [][Advances]_credVars
  BY <1>2, CredInvariant, PTL DEF CredSpec
<1>5. CredSpec => [][EndsOverItsOwn]_credVars
  BY <1>3, CredInvariant, PTL DEF CredSpec
<1>6. CredSpec => CredentialsOnlyAdvance
  BY <1>4 DEF CredentialsOnlyAdvance, Advances
<1>7. CredSpec => ExpiresOverItsOwn
  BY <1>5 DEF ExpiresOverItsOwn, EndsOverItsOwn
<1>8. QED
  BY <1>1, <1>6, <1>7, CredInvariant, PTL DEF CredentialsSound, CredentialsStand

-----------------------------------------------------------------------------
(* The key an agent trusts.                                                *)

\* A job that is importing the pinned key imports the one that is pinned still,
\* unless a rotation overtook it.
ImportsOK ==
  \A j \in KeyJobs : checking[j].state = "import" =>
    keyStore.pinned # NoKey /\ (checking[j].by = keyStore.pinned \/ overtaken)

\* A replica that sends a statement has a key before its own to sign it with; a
\* key about to be adopted is the first, or the one after the key that was pinned
\* when it was announced.
StatementsOK ==
  /\ \A g \in KeyGateways : fleet[g].previous => fleet[g].key > 1
  /\ \A w \in Greetings : greeting[w].state = "proof" => greeting[w].by # NoKey /\ greeting[w].key > 1
  /\ \A w \in Greetings : greeting[w].state = "import" =>
       greeting[w].by = NoKey \/ (greeting[w].by >= 1 /\ greeting[w].key = greeting[w].by + 1)

InTurn == \A v, w \in Greetings : v < w /\ greeting[w].state # "unsent" => greeting[v].state # "unsent"

\* Without faults one greeting is handled at a time, about the key that is pinned,
\* and what is pinned is on disk.
OneAtATime ==
  /\ keyStore.disk = keyStore.pinned
  /\ \A v, w \in Greetings : v < w /\ greeting[w].state # "unsent" => greeting[v].state = "done"
  /\ \A w \in Greetings : greeting[w].state \in {"proof", "import"} => greeting[w].by = keyStore.pinned

KeyInv ==
  /\ KeyTypeOK /\ VerifierIsPinned
  /\ ImportsOK /\ StatementsOK /\ InTurn
  /\ keyFaults = 0 => OneAtATime

KeyTypes ==
  /\ fleet \in [KeyGateways -> [key : 1..MaxKey, previous : BOOLEAN]]
  /\ keyStore \in [pinned : Pins, verifier : Pins, disk : Pins]
  /\ greeting \in [Greetings -> Greeting]
  /\ checking \in [KeyJobs -> Checking]
  /\ overtaken \in BOOLEAN
  /\ keyFaults \in 0..MaxKeyFaults

LEMMA KeyTyped ==
  ASSUME KeyInv
  PROVE  KeyTypes /\ (keyStore.pinned = NoKey => keyStore.verifier = NoKey)
BY DEF KeyInv, KeyTypeOK, KeyTypes

\* Numbers, and what is not one.
LEMMA KeyNumbers ==
  /\ FleetKeys \subseteq Nat /\ NoKey \notin FleetKeys /\ 1..MaxKey \subseteq FleetKeys
  /\ 0 \in FleetKeys /\ FleetKeys \subseteq Pins /\ NoKey \in Pins /\ Greetings \subseteq Nat
BY KeyTrustAssumption DEF FleetKeys, Pins, Greetings

LEMMA KeyFaultCounts ==
  ASSUME KeyInv, KeyFault
  PROVE  keyFaults' \in 0..MaxKeyFaults /\ keyFaults' # 0
BY KeyTyped, KeyTrustAssumption DEF KeyFault, KeyTypes

\* One greeting goes on; the others are where they were.
LEMMA GreetingStep ==
  ASSUME KeyInv, NEW w \in Greetings, NEW row \in Greeting, greeting' = [greeting EXCEPT ![w] = row]
  PROVE  /\ greeting' \in [Greetings -> Greeting] /\ greeting'[w] = row
         /\ \A v \in Greetings : v # w => greeting'[v] = greeting[v]
BY KeyTyped DEF KeyTypes

LEMMA DeployKeeps ==
  ASSUME KeyInv, NEW g \in KeyGateways, Deploy(g)
  PROVE  KeyInv'
<1>1. PICK key \in (fleet[g].key - 1)..(fleet[g].key + 1) \cap 1..MaxKey, previous \in BOOLEAN :
        /\ previous => key > 1
        /\ fleet' = [fleet EXCEPT ![g] = [key |-> key, previous |-> previous]]
  BY DEF Deploy
<1>2. UNCHANGED <<keyStore, greeting, checking, overtaken, keyFaults>>
  BY DEF Deploy
<1>3. key \in 1..MaxKey
  BY <1>1
<1>4. /\ fleet' \in [KeyGateways -> [key : 1..MaxKey, previous : BOOLEAN]]
      /\ \A h \in KeyGateways : fleet'[h] = fleet[h] \/ (fleet'[h].previous => fleet'[h].key > 1)
  BY <1>1, <1>3, KeyTyped DEF KeyTypes
<1>5. KeyTypeOK' /\ VerifierIsPinned'
  BY <1>2, <1>4 DEF KeyInv, KeyTypeOK, VerifierIsPinned
<1>6. ImportsOK' /\ StatementsOK' /\ InTurn'
  BY <1>2, <1>4 DEF KeyInv, ImportsOK, StatementsOK, InTurn
<1>7. keyFaults' = 0 => OneAtATime'
  BY <1>2 DEF KeyInv, OneAtATime
<1>8. QED
  BY <1>5, <1>6, <1>7 DEF KeyInv

\* What trust makes of an announcement.
LEMMA AnnouncedRow ==
  ASSUME KeyInv, NEW key \in FleetKeys, NEW proof \in BOOLEAN, proof => key > 1
  PROVE  /\ Announced(key, proof) \in Greeting
         /\ Announced(key, proof).state \in {"proof", "import", "done"}
         /\ Announced(key, proof).by = keyStore.pinned /\ Announced(key, proof).key = key
         /\ Announced(key, proof).state = "proof" => keyStore.pinned # NoKey /\ key > 1
         /\ Announced(key, proof).state = "import" => keyStore.pinned = NoKey
<1>1. keyStore.pinned \in Pins
  BY KeyTyped DEF KeyTypes
<1>2. QED
  BY <1>1 DEF Announced, Greeting

LEMMA GreetKeeps ==
  ASSUME KeyInv, NEW w \in Greetings, Greet(w)
  PROVE  KeyInv'
<1>1. /\ greeting[w].state = "unsent" /\ UNCHANGED <<fleet, keyStore, checking, overtaken>>
      /\ \A v \in Greetings : v < w => greeting[v].state # "unsent"
      /\ IF \A v \in Greetings : v < w => greeting[v].state = "done" THEN UNCHANGED keyFaults ELSE KeyFault
  BY DEF Greet
<1>2. PICK key \in FleetKeys, proof \in BOOLEAN :
        (proof => key > 1) /\ greeting' = [greeting EXCEPT ![w] = Announced(key, proof)]
  <2>1. CASE \E g \in KeyGateways : greeting' = [greeting EXCEPT ![w] = Announced(fleet[g].key, fleet[g].previous)]
    <3>1. PICK g \in KeyGateways : greeting' = [greeting EXCEPT ![w] = Announced(fleet[g].key, fleet[g].previous)]
      BY <2>1
    <3>2. fleet[g].key \in FleetKeys /\ fleet[g].previous \in BOOLEAN /\ (fleet[g].previous => fleet[g].key > 1)
      BY KeyTyped, KeyNumbers DEF KeyTypes, KeyInv, StatementsOK
    <3>3. QED
      BY <3>1, <3>2
  <2>2. CASE greeting' = [greeting EXCEPT ![w] = Announced(0, FALSE)]
    BY <2>2, KeyNumbers
  <2>3. QED
    BY <2>1, <2>2 DEF Greet
<1> DEFINE row == Announced(key, proof)
<1>3. /\ row \in Greeting /\ row.state \in {"proof", "import", "done"} /\ row.by = keyStore.pinned /\ row.key = key
      /\ row.state = "proof" => keyStore.pinned # NoKey /\ key > 1
      /\ row.state = "import" => keyStore.pinned = NoKey
  BY <1>2, AnnouncedRow
<1>4. greeting' = [greeting EXCEPT ![w] = row]
  BY <1>2
<1> HIDE DEF row
<1>5. /\ greeting' \in [Greetings -> Greeting] /\ greeting'[w] = row
      /\ \A v \in Greetings : v # w => greeting'[v] = greeting[v]
  BY <1>3, <1>4, GreetingStep
<1>6. keyFaults' \in 0..MaxKeyFaults
  BY <1>1, KeyFaultCounts, KeyTyped DEF KeyTypes
<1>7. KeyTypeOK' /\ VerifierIsPinned'
  BY <1>1, <1>5, <1>6 DEF KeyInv, KeyTypeOK, VerifierIsPinned
<1>8. ImportsOK'
  BY <1>1 DEF KeyInv, ImportsOK
<1>9. StatementsOK'
  BY <1>1, <1>3, <1>5 DEF KeyInv, StatementsOK
<1>10. InTurn'
  BY <1>1, <1>3, <1>5 DEF KeyInv, InTurn
<1>11. ASSUME keyFaults' = 0
       PROVE  OneAtATime'
  <2>1. keyFaults = 0 /\ \A v \in Greetings : v < w => greeting[v].state = "done"
    BY <1>1, <1>11, KeyFaultCounts
  <2>2. OneAtATime /\ InTurn
    BY <2>1 DEF KeyInv
  <2>3. ASSUME NEW v \in Greetings, NEW u \in Greetings, v < u, greeting'[u].state # "unsent"
        PROVE  greeting'[v].state = "done"
    <3>1. v # w
      <4>1. CASE v = w
        <5>1. u # w /\ greeting[u].state # "unsent"
          BY <1>5, <2>3, <4>1, KeyNumbers
        <5>2. QED
          BY <1>1, <2>2, <2>3, <4>1, <5>1 DEF InTurn
      <4>2. QED
        BY <4>1
    <3>2. QED
      BY <1>5, <2>1, <2>2, <2>3, <3>1 DEF OneAtATime
  <2>4. ASSUME NEW u \in Greetings, greeting'[u].state \in {"proof", "import"}
        PROVE  greeting'[u].by = keyStore'.pinned
    BY <1>1, <1>3, <1>5, <2>2, <2>4 DEF OneAtATime
  <2>5. QED
    BY <1>1, <2>2, <2>3, <2>4 DEF OneAtATime
<1>12. QED
  BY <1>7, <1>8, <1>9, <1>10, <1>11 DEF KeyInv

\* A greeting that has been sent moves on, and nothing is pinned.
LEMMA CheckProofKeeps ==
  ASSUME KeyInv, NEW w \in Greetings, CheckProof(w)
  PROVE  KeyInv'
<1> DEFINE row == [greeting[w] EXCEPT !.state = IF Authorized(w) THEN "import" ELSE "done"]
<1>1. /\ greeting[w].state = "proof" /\ UNCHANGED <<fleet, keyStore, checking, overtaken, keyFaults>>
      /\ greeting' = [greeting EXCEPT ![w].state = IF Authorized(w) THEN "import" ELSE "done"]
  BY DEF CheckProof
<1>2. greeting[w] \in Greeting /\ greeting[w].key \in Nat
  BY KeyTyped, KeyNumbers DEF KeyTypes, Greeting
<1>3. /\ row \in Greeting /\ row.state = (IF Authorized(w) THEN "import" ELSE "done")
      /\ row.by = greeting[w].by /\ row.key = greeting[w].key
  BY <1>2 DEF Greeting
<1>4. greeting' = [greeting EXCEPT ![w] = row]
  BY <1>1, <1>2, KeyTyped DEF KeyTypes, Greeting
<1> HIDE DEF row
<1>5. /\ greeting' \in [Greetings -> Greeting] /\ greeting'[w] = row
      /\ \A v \in Greetings : v # w => greeting'[v] = greeting[v]
  BY <1>3, <1>4, GreetingStep
<1>6. KeyTypeOK' /\ VerifierIsPinned' /\ ImportsOK'
  BY <1>1, <1>5 DEF KeyInv, KeyTypeOK, VerifierIsPinned, ImportsOK
<1>7. greeting[w].key > 1
  BY <1>1 DEF KeyInv, StatementsOK
<1>8. row.state = "import" => row.by >= 1 /\ row.key = row.by + 1
  BY <1>2, <1>3, <1>7 DEF Authorized
<1>9. StatementsOK'
  BY <1>1, <1>3, <1>5, <1>8 DEF KeyInv, StatementsOK
<1>10. InTurn'
  BY <1>1, <1>3, <1>5 DEF KeyInv, InTurn
<1>11. keyFaults' = 0 => OneAtATime'
  BY <1>1, <1>3, <1>5 DEF KeyInv, OneAtATime
<1>12. QED
  BY <1>6, <1>9, <1>10, <1>11 DEF KeyInv

LEMMA AdoptKeeps ==
  ASSUME KeyInv, NEW w \in Greetings, Adopt(w)
  PROVE  KeyInv'
<1> DEFINE row == [greeting[w] EXCEPT !.state = "done"]
           key == greeting[w].key
<1>1. /\ greeting[w].state = "import" /\ greeting' = [greeting EXCEPT ![w].state = "done"] /\ UNCHANGED <<fleet, checking>>
      /\ overtaken' = (overtaken \/ \E j \in KeyJobs : checking[j].state = "import" /\ checking[j].by # key)
  BY DEF Adopt
<1>2. greeting[w] \in Greeting /\ key \in FleetKeys /\ key \in Pins /\ key # NoKey
  BY KeyTyped, KeyNumbers DEF KeyTypes, Greeting
<1>3. row \in Greeting /\ row.state = "done"
  BY <1>2 DEF Greeting
<1>4. greeting' = [greeting EXCEPT ![w] = row]
  BY <1>1, <1>2, KeyTyped DEF KeyTypes, Greeting
<1>5. /\ keyStore' \in [pinned : Pins, verifier : Pins, disk : Pins]
      /\ keyStore'.pinned = key /\ keyStore'.verifier = key
      /\ keyFaults' \in 0..MaxKeyFaults
      /\ keyFaults' = 0 => keyFaults = 0 /\ keyStore'.disk = key
  <2>1. keyStore \in [pinned : Pins, verifier : Pins, disk : Pins] /\ keyFaults \in 0..MaxKeyFaults
    BY KeyTyped DEF KeyTypes
  <2>2. CASE keyStore' = [pinned |-> key, verifier |-> key, disk |-> key] /\ UNCHANGED keyFaults
    BY <1>2, <2>1, <2>2
  <2>3. CASE keyStore' = [keyStore EXCEPT !.pinned = key, !.verifier = key] /\ KeyFault
    BY <1>2, <2>1, <2>3, KeyFaultCounts
  <2>4. QED
    BY <2>2, <2>3 DEF Adopt
<1> HIDE DEF row, key
<1>6. /\ greeting' \in [Greetings -> Greeting] /\ greeting'[w] = row
      /\ \A v \in Greetings : v # w => greeting'[v] = greeting[v]
  BY <1>3, <1>4, GreetingStep
<1>7. overtaken' \in BOOLEAN
  BY <1>1
<1>8. KeyTypeOK' /\ VerifierIsPinned'
  BY <1>1, <1>2, <1>5, <1>6, <1>7, KeyTyped DEF KeyTypes, KeyTypeOK, VerifierIsPinned
<1>9. ImportsOK'
  BY <1>1, <1>2, <1>5 DEF ImportsOK
<1>10. StatementsOK' /\ InTurn'
  BY <1>1, <1>3, <1>6 DEF KeyInv, StatementsOK, InTurn
<1>11. ASSUME keyFaults' = 0
       PROVE  OneAtATime'
  <2>1. OneAtATime
    BY <1>5, <1>11 DEF KeyInv
  <2>2. \A u \in Greetings : u # w => greeting[u].state \notin {"proof", "import"}
    <3>1. ASSUME NEW u \in Greetings, u # w
          PROVE  greeting[u].state \notin {"proof", "import"}
      <4>1. u < w \/ w < u
        BY <3>1, KeyNumbers
      <4>2. QED
        BY <1>1, <2>1, <4>1 DEF OneAtATime
    <3>2. QED
      BY <3>1
  <2>3. ASSUME NEW v \in Greetings, NEW u \in Greetings, v < u, greeting'[u].state # "unsent"
        PROVE  greeting'[v].state = "done"
    <3>1. greeting[u].state # "unsent"
      BY <1>1, <1>6, <2>3
    <3>2. greeting[v].state = "done"
      BY <2>1, <2>3, <3>1 DEF OneAtATime
    <3>3. QED
      BY <1>3, <1>6, <3>2
  <2>4. \A u \in Greetings : greeting'[u].state \notin {"proof", "import"}
    BY <1>3, <1>6, <2>2
  <2>5. QED
    BY <1>5, <1>11, <2>3, <2>4 DEF OneAtATime
<1>12. QED
  BY <1>8, <1>9, <1>10, <1>11 DEF KeyInv

LEMMA JobArrivesKeeps ==
  ASSUME KeyInv, NEW j \in KeyJobs, JobArrives(j)
  PROVE  KeyInv'
<1>1. UNCHANGED <<fleet, keyStore, greeting, overtaken, keyFaults>>
  BY DEF JobArrives
<1>2. PICK g \in KeyGateways :
        checking' = [checking EXCEPT ![j] =
          [key |-> fleet[g].key, by |-> keyStore.pinned,
           state |-> IF keyStore.pinned = NoKey THEN "refused"
                     ELSE IF keyStore.verifier = NoKey THEN "import"
                     ELSE Verdict(fleet[g].key, keyStore.verifier)]]
  BY DEF JobArrives
<1> DEFINE row == [key |-> fleet[g].key, by |-> keyStore.pinned,
                   state |-> IF keyStore.pinned = NoKey THEN "refused"
                             ELSE IF keyStore.verifier = NoKey THEN "import"
                             ELSE Verdict(fleet[g].key, keyStore.verifier)]
<1>3. fleet[g].key \in FleetKeys /\ keyStore.pinned \in Pins
  BY KeyTyped, KeyNumbers DEF KeyTypes
<1>4. row \in Checking /\ row.by = keyStore.pinned /\ (row.state = "import" => keyStore.pinned # NoKey)
  BY <1>3 DEF Checking, Verdict
<1>5. checking' = [checking EXCEPT ![j] = row]
  BY <1>2
<1> HIDE DEF row
<1>6. /\ checking' \in [KeyJobs -> Checking] /\ checking'[j] = row
      /\ \A k \in KeyJobs : k # j => checking'[k] = checking[k]
  BY <1>4, <1>5, KeyTyped DEF KeyTypes
<1>7. KeyTypeOK' /\ VerifierIsPinned'
  BY <1>1, <1>6 DEF KeyInv, KeyTypeOK, VerifierIsPinned
<1>8. ImportsOK'
  BY <1>1, <1>4, <1>6 DEF KeyInv, ImportsOK
<1>9. StatementsOK' /\ InTurn' /\ (keyFaults' = 0 => OneAtATime')
  BY <1>1 DEF KeyInv, StatementsOK, InTurn, OneAtATime
<1>10. QED
  BY <1>7, <1>8, <1>9 DEF KeyInv

LEMMA JobImportedKeeps ==
  ASSUME KeyInv, NEW j \in KeyJobs, JobImported(j)
  PROVE  KeyInv'
<1> DEFINE row == [checking[j] EXCEPT !.state = Verdict(checking[j].key, checking[j].by)]
<1>1. /\ checking[j].state = "import" /\ UNCHANGED <<fleet, greeting, overtaken, keyFaults>>
      /\ keyStore' = [keyStore EXCEPT !.verifier = checking[j].by]
      /\ checking' = [checking EXCEPT ![j].state = Verdict(checking[j].key, checking[j].by)]
  BY DEF JobImported
<1>2. checking[j] \in Checking /\ keyStore \in [pinned : Pins, verifier : Pins, disk : Pins]
  BY KeyTyped DEF KeyTypes
<1>3. /\ keyStore' \in [pinned : Pins, verifier : Pins, disk : Pins] /\ keyStore'.verifier = checking[j].by
      /\ keyStore'.pinned = keyStore.pinned /\ keyStore'.disk = keyStore.disk
  BY <1>1, <1>2 DEF Checking
<1>4. row \in Checking /\ row.state # "import"
  BY <1>2 DEF Checking, Verdict
<1>5. checking' = [checking EXCEPT ![j] = row]
  BY <1>1, <1>2, KeyTyped DEF KeyTypes, Checking
<1> HIDE DEF row
<1>6. /\ checking' \in [KeyJobs -> Checking] /\ checking'[j] = row
      /\ \A k \in KeyJobs : k # j => checking'[k] = checking[k]
  BY <1>4, <1>5, KeyTyped DEF KeyTypes
<1>7. keyStore.pinned # NoKey /\ (checking[j].by = keyStore.pinned \/ overtaken)
  BY <1>1 DEF KeyInv, ImportsOK
<1>8. KeyTypeOK' /\ VerifierIsPinned'
  BY <1>1, <1>3, <1>6, <1>7, KeyTyped DEF KeyTypes, KeyTypeOK, VerifierIsPinned
<1>9. ImportsOK'
  BY <1>1, <1>3, <1>4, <1>6 DEF KeyInv, ImportsOK
<1>10. StatementsOK' /\ InTurn' /\ (keyFaults' = 0 => OneAtATime')
  BY <1>1, <1>3 DEF KeyInv, StatementsOK, InTurn, OneAtATime
<1>11. QED
  BY <1>8, <1>9, <1>10 DEF KeyInv

LEMMA AgentRestartsKeeps ==
  ASSUME KeyInv, AgentRestarts
  PROVE  KeyInv'
<1>1. /\ keyStore' = [keyStore EXCEPT !.pinned = keyStore.disk, !.verifier = NoKey]
      /\ overtaken' = FALSE /\ UNCHANGED <<fleet, keyFaults>>
  BY DEF AgentRestarts
<1>2. KeyTypes
  BY KeyTyped
<1>3. /\ keyStore' \in [pinned : Pins, verifier : Pins, disk : Pins]
      /\ keyStore'.pinned = keyStore.disk /\ keyStore'.disk = keyStore.disk /\ keyStore'.verifier = NoKey
  BY <1>1, <1>2, KeyNumbers DEF KeyTypes
<1>4. /\ greeting' \in [Greetings -> Greeting]
      /\ \A w \in Greetings : greeting'[w].state = IF greeting[w].state = "unsent" THEN "unsent" ELSE "done"
  <2>1. \A w \in Greetings : greeting[w] \in Greeting /\ [greeting[w] EXCEPT !.state = "done"] \in Greeting
    BY <1>2 DEF KeyTypes, Greeting
  <2>2. \A w \in Greetings : [greeting[w] EXCEPT !.state = "done"].state = "done"
    BY <2>1 DEF Greeting
  <2>3. QED
    BY <2>1, <2>2 DEF AgentRestarts
<1>5. /\ checking' \in [KeyJobs -> Checking]
      /\ \A j \in KeyJobs : checking'[j].state # "import"
  <2>1. \A j \in KeyJobs : /\ checking[j] \in Checking /\ [checking[j] EXCEPT !.state = "refused"] \in Checking
                           /\ [checking[j] EXCEPT !.state = "refused"].state = "refused"
    BY <1>2 DEF KeyTypes, Checking
  <2>2. QED
    BY <2>1 DEF AgentRestarts
<1>6. KeyTypeOK' /\ VerifierIsPinned'
  BY <1>1, <1>2, <1>3, <1>4, <1>5 DEF KeyTypes, KeyTypeOK, VerifierIsPinned
<1>7. ImportsOK'
  BY <1>5 DEF ImportsOK
<1>8. StatementsOK' /\ InTurn'
  BY <1>1, <1>4 DEF KeyInv, StatementsOK, InTurn
<1>9. keyFaults' = 0 => OneAtATime'
  BY <1>1, <1>3, <1>4 DEF KeyInv, OneAtATime
<1>10. QED
  BY <1>6, <1>7, <1>8, <1>9 DEF KeyInv

LEMMA KeyInitOK == KeyInit => KeyInv
<1> SUFFICES ASSUME KeyInit PROVE KeyInv
  OBVIOUS
<1>1. 1 \in 1..MaxKey /\ 0 \in 0..MaxKeyFaults
  BY KeyTrustAssumption
<1>2. [state |-> "unsent", key |-> 0, proof |-> FALSE, by |-> NoKey] \in Greeting
  BY KeyNumbers DEF Greeting
<1>3. [state |-> "idle", key |-> 0, by |-> NoKey] \in Checking
  BY KeyNumbers DEF Checking
<1>4. KeyTypeOK
  BY <1>1, <1>2, <1>3, KeyNumbers DEF KeyInit, KeyTypeOK
<1>5. QED
  BY <1>4 DEF KeyInit, KeyInv, VerifierIsPinned, ImportsOK, StatementsOK, InTurn, OneAtATime

LEMMA KeyNextKeeps ==
  ASSUME KeyInv, [KeyNext]_keyVars
  PROVE  KeyInv'
<1>1. CASE UNCHANGED keyVars
  <2>1. UNCHANGED <<fleet, keyStore, greeting, checking, overtaken, keyFaults>>
    BY <1>1 DEF keyVars
  <2>2. QED
    BY <2>1 DEF KeyInv, KeyTypeOK, VerifierIsPinned, ImportsOK, StatementsOK, InTurn, OneAtATime
<1>2. QED
  BY <1>1, DeployKeeps, GreetKeeps, CheckProofKeeps, AdoptKeeps, JobArrivesKeeps, JobImportedKeeps, AgentRestartsKeeps
     DEF KeyNext

LEMMA KeyInvariant == KeySpec => []KeyInv
BY KeyInitOK, KeyNextKeeps, PTL DEF KeySpec

\* Without a fault, the pin stays, is the first one, or is one rotation ahead.
OneAhead ==
  LET from == keyStore.pinned
      to   == keyStore'.pinned
  IN keyFaults' = 0 => to = from \/ from = NoKey \/ (from >= 1 /\ to = from + 1)

LEMMA PinStep ==
  ASSUME KeyInv, [KeyNext]_keyVars
  PROVE  OneAhead
<1>1. keyStore \in [pinned : Pins, verifier : Pins, disk : Pins]
  BY KeyTyped DEF KeyTypes
<1>2. ASSUME NEW w \in Greetings, Adopt(w), keyFaults' = 0
      PROVE  OneAhead
  <2>1. keyFaults = 0 /\ keyStore'.pinned = greeting[w].key /\ greeting[w].state = "import"
    BY <1>1, <1>2, KeyFaultCounts DEF Adopt
  <2>2. greeting[w].by = keyStore.pinned
    BY <2>1 DEF KeyInv, OneAtATime
  <2>3. keyStore.pinned = NoKey \/ (keyStore.pinned >= 1 /\ greeting[w].key = keyStore.pinned + 1)
    BY <2>1, <2>2 DEF KeyInv, StatementsOK
  <2>4. QED
    BY <2>1, <2>3 DEF OneAhead
<1>3. ASSUME AgentRestarts, keyFaults' = 0
      PROVE  OneAhead
  <2>1. keyStore'.pinned = keyStore.disk /\ keyFaults = 0
    BY <1>1, <1>3 DEF AgentRestarts
  <2>2. QED
    BY <2>1 DEF KeyInv, OneAtATime, OneAhead
<1>4. ASSUME NEW j \in KeyJobs, JobImported(j)
      PROVE  OneAhead
  BY <1>1, <1>4 DEF JobImported, OneAhead
<1>5. CASE UNCHANGED keyStore
  BY <1>5 DEF OneAhead
<1>6. QED
  BY <1>2, <1>3, <1>4, <1>5 DEF KeyNext, Deploy, Greet, CheckProof, JobArrives, keyVars, OneAhead

\* Every variable of the key's model has its type, and a verifier needs a pin.
THEOREM KeysTyped == KeySpec => []KeyTypeOK
<1>1. KeyInv => KeyTypeOK
  BY DEF KeyInv
<1>2. QED
  BY <1>1, KeyInvariant, PTL

\* Jobs meet the key that is pinned unless a rotation overtook an import, and
\* from first use on the pin only moves one rotation ahead at a time, for any
\* fleet and any number of sessions (key-store.ts, key-rotation.ts).
THEOREM PinnedKeysAreSound == KeySpec => KeysSound
<1>1. KeyInv => VerifierIsPinned
  BY DEF KeyInv
<1>2. KeyInv /\ [KeyNext]_keyVars => [OneAhead]_keyVars
  BY PinStep
<1>3. KeySpec => [][OneAhead]_keyVars
  BY <1>2, KeyInvariant, PTL DEF KeySpec
<1>4. KeySpec => PinMovesAhead
  BY <1>3 DEF PinMovesAhead, OneAhead
<1>5. QED
  BY <1>1, <1>4, KeyInvariant, PTL DEF KeysSound

-----------------------------------------------------------------------------
(* A deployment that provisions itself.                                    *)

Begun(b) == build[b].at # "none"
Below(b)   == {c \in Builds : c < b}

\* Every build so far ran while no other did.
Serial == \A b \in Builds : Begun(b) => build[b].alone

\* The second half of the login's key pair is still to be written, or taken back.
HalfWritten(b) == build[b].at \in {"set jwks", "roll back"}
Paired         == convexEnv.key # 0 => convexEnv.jwks = convexEnv.key

\* What a build that reports no failure has made of the token Convex compares with.
Provisioned(b) ==
  /\ build[b].at \in {"deploy", "done"} /\ build[b].provisions /\ ~build[b].failed
  /\ Boots(build[b].with) /\ ~(build[b].with.root = "none" /\ build[b].with.token = "padded")
NoneAfter(b) == \A c \in Builds : c > b => ~Begun(c)

DeployInv ==
  /\ DeployTypeOK
  /\ \A b \in Builds : Begun(b) => \A c \in Below(b) : Begun(c)
  /\ \A b \in Builds : Begun(b) /\ build[b].alone => \A c \in Below(b) : c \notin Underway
  /\ Serial /\ ~torn =>
       /\ \A b \in Builds : HalfWritten(b) => convexEnv.key = b
       /\ (\A b \in Builds : ~HalfWritten(b)) => Paired
  /\ \A b \in Builds : Provisioned(b) /\ build[b].alone /\ NoneAfter(b) => convexEnv.token = TokenOf(build[b].with)
  /\ live # 0 => build[live].at = "done"
  /\ instance.of # 0 => build[instance.of].at = "done"
  /\ instance.app = "up" => instance.of # 0 /\ Boots(build[instance.of].with)

BuildRow ==
  [at : Steps \cup {"none", "done", "stopped"}, with : Settings, provisions : BOOLEAN, failed : BOOLEAN, alone : BOOLEAN]

LEMMA BuildNumbers ==
  /\ MaxBuilds \in Nat /\ MaxBuildFaults \in Nat /\ 0 \in 0..MaxBuilds /\ 0 \in 0..MaxBuildFaults
  /\ \A b \in Builds : b \in 0..MaxBuilds /\ b \in Nat /\ b # 0
  /\ \A n \in 0..MaxBuilds : n # 0 => n \in Builds
  /\ \A b, c \in Builds : b # c => b < c \/ c < b
BY DeploymentAssumption DEF Builds

LEMMA DeployInitOK == DeployInit => DeployInv
<1> SUFFICES ASSUME DeployInit PROVE DeployInv
  OBVIOUS
<1>1. NoBuild \in BuildRow /\ NoBuild.at = "none"
  BY DEF NoBuild, BuildRow, Settings
<1>2. build = [b \in Builds |-> NoBuild] /\ \A b \in Builds : build[b].at = "none"
  BY <1>1 DEF DeployInit
<1>3. DeployTypeOK
  <2>1. build \in [Builds -> BuildRow]
    BY <1>1, <1>2
  <2>2. convexEnv \in [key : 0..MaxBuilds, jwks : 0..MaxBuilds, site : BOOLEAN, token : Tokens]
    BY DeploymentAssumption DEF DeployInit, Tokens
  <2>3. live \in 0..MaxBuilds /\ instance \in [of : 0..MaxBuilds, app : {"none", "up"}] /\ torn \in BOOLEAN
        /\ buildFaults \in 0..MaxBuildFaults
    BY BuildNumbers DEF DeployInit
  <2>4. QED
    BY <2>1, <2>2, <2>3 DEF DeployTypeOK, BuildRow
<1>4. convexEnv.key = 0 /\ live = 0 /\ instance.of = 0 /\ instance.app = "none"
  BY DEF DeployInit
<1>5. \A b \in Builds : ~Begun(b) /\ ~HalfWritten(b) /\ ~Provisioned(b)
  BY <1>2 DEF Begun, HalfWritten, Provisioned
<1>6. QED
  BY <1>3, <1>4, <1>5 DEF DeployInv, Paired

LEMMA DeployParts ==
  ASSUME DeployInv
  PROVE  /\ build \in [Builds -> BuildRow]
         /\ convexEnv \in [key : 0..MaxBuilds, jwks : 0..MaxBuilds, site : BOOLEAN, token : Tokens]
         /\ live \in 0..MaxBuilds /\ instance \in [of : 0..MaxBuilds, app : {"none", "up"}]
         /\ torn \in BOOLEAN /\ buildFaults \in 0..MaxBuildFaults
         /\ Builds \subseteq Nat /\ MaxBuilds \in Nat /\ MaxBuildFaults \in Nat
         /\ \A b \in Builds : Begun(b) => \A c \in Below(b) : Begun(c)
         /\ \A b \in Builds : Begun(b) /\ build[b].alone => \A c \in Below(b) : c \notin Underway
BY DeploymentAssumption DEF DeployInv, DeployTypeOK, BuildRow, Builds

\* Two builds that run at once were not both alone.
LEMMA AloneIsAlone ==
  ASSUME DeployInv, NEW b \in Builds, NEW c \in Builds, b # c, b \in Underway, c \in Underway
  PROVE  ~build[b].alone \/ ~build[c].alone
<1>1. Begun(b) /\ Begun(c) /\ (b \in Below(c) \/ c \in Below(b))
  BY BuildNumbers DEF Underway, Begun, Steps, Below
<1>2. QED
  BY <1>1, DeployParts

\* A build runs one step: what it must leave behind for the invariant to hold.
LEMMA BuildStepKeeps ==
  ASSUME DeployInv, NEW b \in Builds, b \in Underway, NEW row \in BuildRow, build' = [build EXCEPT ![b] = row],
         row.at \in Steps \cup {"done", "stopped"}, row.with = build[b].with, row.provisions = build[b].provisions,
         row.alone = build[b].alone, build[b].failed => row.failed,
         convexEnv' \in [key : 0..MaxBuilds, jwks : 0..MaxBuilds, site : BOOLEAN, token : Tokens],
         buildFaults' \in 0..MaxBuildFaults, torn' \in BOOLEAN, torn => torn', instance' = instance,
         live' = live \/ (live' = b /\ row.at = "done"),
         ~torn' /\ (HalfWritten(b) => convexEnv.key = b) /\ (~HalfWritten(b) => Paired) =>
           IF row.at \in {"set jwks", "roll back"} THEN convexEnv'.key = b
           ELSE convexEnv'.key # 0 => convexEnv'.jwks = convexEnv'.key,
         Provisioned(b)' => convexEnv'.token = TokenOf(build[b].with) \/ (Provisioned(b) /\ convexEnv'.token = convexEnv.token)
  PROVE  DeployInv'
<1>1. /\ build' \in [Builds -> BuildRow] /\ build'[b] = row
      /\ \A c \in Builds : c # b => build'[c] = build[c]
  BY DeployParts
<1>2. DeployTypeOK'
  <2>1. live' \in 0..MaxBuilds
    BY BuildNumbers, DeployParts
  <2>2. QED
    BY <1>1, <2>1, DeployParts DEF DeployTypeOK, BuildRow
<1>3. \A c \in Builds : (Begun(c)' <=> Begun(c)) /\ build'[c].alone = build[c].alone /\ build'[c].with = build[c].with
  BY <1>1 DEF Begun, Underway, Steps
<1>4. Underway' \subseteq Underway
  BY <1>1 DEF Underway
<1>5. \A c \in Builds : Begun(c)' => \A d \in Below(c) : Begun(d)'
  BY <1>3, DeployParts DEF Below
<1>6. \A c \in Builds : Begun(c)' /\ build'[c].alone => \A d \in Below(c) : d \notin Underway'
  BY <1>3, <1>4, DeployParts
<1>7. ASSUME Serial', ~torn'
      PROVE  /\ \A c \in Builds : HalfWritten(c)' => convexEnv'.key = c
             /\ (\A c \in Builds : ~HalfWritten(c)') => Paired'
  <2>1. Serial /\ ~torn
    BY <1>3, <1>7 DEF Serial
  <2>2. \A c \in Builds : c # b => c \notin Underway
    <3>1. \A c \in Underway : build[c].alone
      BY <2>1 DEF Serial, Begun, Underway, Steps
    <3>2. QED
      BY <3>1, AloneIsAlone
  <2>3. \A c \in Builds : c # b => ~HalfWritten(c) /\ ~HalfWritten(c)'
    BY <1>1, <2>2 DEF HalfWritten, Underway, Steps
  <2>4. (HalfWritten(b) => convexEnv.key = b) /\ (~HalfWritten(b) => Paired)
    BY <2>1, <2>3 DEF DeployInv
  <2>5. IF row.at \in {"set jwks", "roll back"} THEN convexEnv'.key = b
        ELSE convexEnv'.key # 0 => convexEnv'.jwks = convexEnv'.key
    BY <1>7, <2>4
  <2>6. HalfWritten(b)' <=> row.at \in {"set jwks", "roll back"}
    BY <1>1 DEF HalfWritten
  <2>7. QED
    BY <2>3, <2>5, <2>6 DEF Paired
<1>8. ASSUME NEW c \in Builds, Provisioned(c)', build'[c].alone, NoneAfter(c)'
      PROVE  convexEnv'.token = TokenOf(build'[c].with)
  <2>1. Begun(c) /\ build[c].alone /\ NoneAfter(c)
    BY <1>3, <1>8 DEF NoneAfter, Provisioned, Begun
  <2>2. c = b
    <3>1. b \notin Below(c)
      BY <2>1, DeployParts
    <3>2. ~(b > c)
      BY <2>1 DEF NoneAfter, Begun, Underway, Steps
    <3>3. QED
      BY <3>1, <3>2, BuildNumbers DEF Below
  <2>3. CASE convexEnv'.token = TokenOf(build[b].with)
    BY <1>3, <2>2, <2>3
  <2>4. CASE Provisioned(b) /\ convexEnv'.token = convexEnv.token
    BY <1>3, <2>1, <2>2, <2>4 DEF DeployInv
  <2>5. QED
    BY <1>8, <2>2, <2>3, <2>4
<1>9. \A c \in Builds : build[c].at = "done" => build'[c].at = "done"
  BY <1>1 DEF Underway, Steps
<1>10. live' # 0 => build'[live'].at = "done"
  <2>1. CASE live' = live
    BY <1>9, <2>1, DeployParts, BuildNumbers DEF DeployInv
  <2>2. CASE live' = b /\ row.at = "done"
    BY <1>1, <2>2
  <2>3. QED
    BY <2>1, <2>2
<1>11. instance'.of # 0 => build'[instance'.of].at = "done"
  BY <1>9, DeployParts, BuildNumbers DEF DeployInv
<1>12. instance'.app = "up" => instance'.of # 0 /\ Boots(build'[instance'.of].with)
  <2>1. instance.of # 0 => instance.of \in Builds
    BY DeployParts, BuildNumbers
  <2>2. QED
    BY <1>3, <2>1 DEF DeployInv
<1>13. QED
  BY <1>2, <1>5, <1>6, <1>7, <1>8, <1>10, <1>11, <1>12 DEF DeployInv, Below

EnvRow == [key : 0..MaxBuilds, jwks : 0..MaxBuilds, site : BOOLEAN, token : Tokens]

\* The pair of keys after a step to `step`, given that it was sound before it.
KeysAfter(b, step) ==
  ~torn' /\ (HalfWritten(b) => convexEnv.key = b) /\ (~HalfWritten(b) => Paired) =>
    IF step \in {"set jwks", "roll back"} THEN convexEnv'.key = b
    ELSE convexEnv'.key # 0 => convexEnv'.jwks = convexEnv'.key

LEMMA ToKeeps ==
  ASSUME DeployInv, NEW b \in Builds, b \in Underway, NEW step \in Steps \cup {"done", "stopped"}, To(b, step),
         convexEnv' \in EnvRow, buildFaults' \in 0..MaxBuildFaults, torn' \in BOOLEAN, torn => torn', instance' = instance,
         live' = live \/ (live' = b /\ step = "done"),
         KeysAfter(b, step),
         step \in {"deploy", "done"} /\ build[b].provisions /\ ~build[b].failed /\ Boots(build[b].with)
           /\ ~(build[b].with.root = "none" /\ build[b].with.token = "padded")
           => convexEnv'.token = TokenOf(build[b].with) \/ (build[b].at = "deploy" /\ convexEnv'.token = convexEnv.token)
  PROVE  DeployInv'
<1> DEFINE row == [build[b] EXCEPT !.at = step]
<1>1. /\ row \in BuildRow /\ row.at = step /\ row.with = build[b].with /\ row.provisions = build[b].provisions
      /\ row.alone = build[b].alone /\ row.failed = build[b].failed
  BY DeployParts DEF BuildRow
<1>2. build' = [build EXCEPT ![b] = row]
  BY DeployParts DEF To
<1> HIDE DEF row
<1>3. build'[b] = row
  BY <1>2, DeployParts
<1>4. Provisioned(b)' => convexEnv'.token = TokenOf(build[b].with) \/ (Provisioned(b) /\ convexEnv'.token = convexEnv.token)
  BY <1>1, <1>3 DEF Provisioned
<1>5. QED
  BY <1>1, <1>2, <1>4, BuildStepKeeps DEF KeysAfter, EnvRow

LEMMA ToFailedKeeps ==
  ASSUME DeployInv, NEW b \in Builds, b \in Underway, NEW step \in Steps, ToFailed(b, step),
         convexEnv' \in EnvRow, buildFaults' \in 0..MaxBuildFaults, torn' \in BOOLEAN, torn => torn',
         UNCHANGED <<instance, live>>, KeysAfter(b, step)
  PROVE  DeployInv'
<1> DEFINE row == [build[b] EXCEPT !.at = step, !.failed = TRUE]
<1>1. /\ row \in BuildRow /\ row.at = step /\ row.with = build[b].with /\ row.provisions = build[b].provisions
      /\ row.alone = build[b].alone /\ row.failed
  BY DeployParts DEF BuildRow
<1>2. build' = [build EXCEPT ![b] = row]
  BY DeployParts DEF ToFailed
<1> HIDE DEF row
<1>3. build'[b] = row
  BY <1>2, DeployParts
<1>4. ~Provisioned(b)'
  BY <1>1, <1>3 DEF Provisioned
<1>5. QED
  BY <1>1, <1>2, <1>4, BuildStepKeeps DEF KeysAfter, EnvRow

LEMMA DeployFaults ==
  ASSUME DeployInv, DeployFault
  PROVE  buildFaults' \in 0..MaxBuildFaults /\ UNCHANGED <<live, instance>>
BY DeployParts DEF DeployFault

LEMMA EnvTyped ==
  ASSUME DeployInv
  PROVE  convexEnv \in EnvRow /\ torn \in BOOLEAN /\ buildFaults \in 0..MaxBuildFaults
BY DeployParts DEF EnvRow

\* Steps that write nothing to the environment.
LEMMA PassGateKeeps ==
  ASSUME DeployInv, NEW b \in Builds, PassGate(b)
  PROVE  DeployInv'
<1> DEFINE step == IF build[b].provisions THEN "read keys" ELSE "deploy"
<1>1. build[b].at = "gate" /\ b \in Underway /\ To(b, step) /\ UNCHANGED <<convexEnv, live, instance, torn, buildFaults>>
  BY DEF PassGate, Quiet, Underway, Steps
<1>2. step \in Steps \cup {"done", "stopped"}
  BY DEF Steps
<1>3. KeysAfter(b, step)
  BY <1>1 DEF KeysAfter, HalfWritten, Paired
<1>4. QED
  BY <1>1, <1>2, <1>3, EnvTyped, ToKeeps

LEMMA ReadKeysKeeps ==
  ASSUME DeployInv, NEW b \in Builds, ReadKeys(b)
  PROVE  DeployInv'
<1>1. /\ build[b].at = "read keys" /\ b \in Underway /\ UNCHANGED <<convexEnv, torn, live, instance>>
      /\ buildFaults' \in 0..MaxBuildFaults
  BY EnvTyped, DeployFaults DEF ReadKeys, Underway, Steps
<1>2. PICK step \in {"set key", "site"} : To(b, step)
  BY DEF ReadKeys
<1>3. step \in Steps
  BY DEF Steps
<1>4. KeysAfter(b, step)
  BY <1>1 DEF KeysAfter, HalfWritten, Paired
<1>5. QED
  BY <1>1, <1>2, <1>3, <1>4, EnvTyped, ToKeeps

LEMMA SetKeyKeeps ==
  ASSUME DeployInv, NEW b \in Builds, SetKey(b)
  PROVE  DeployInv'
<1>1. /\ build[b].at = "set key" /\ b \in Underway /\ To(b, "set jwks")
      /\ convexEnv' = [convexEnv EXCEPT !.key = b] /\ UNCHANGED <<live, instance, torn, buildFaults>>
  BY DEF SetKey, Quiet, Underway, Steps
<1>2. convexEnv' \in EnvRow /\ convexEnv'.key = b
  BY <1>1, EnvTyped, BuildNumbers DEF EnvRow
<1>3. KeysAfter(b, "set jwks") /\ "set jwks" \in Steps
  BY <1>2 DEF KeysAfter, Steps
<1>4. QED
  BY <1>1, <1>2, <1>3, EnvTyped, ToKeeps

LEMMA SetKeyFailsKeeps ==
  ASSUME DeployInv, NEW b \in Builds, SetKeyFails(b)
  PROVE  DeployInv'
<1>1. /\ build[b].at = "set key" /\ b \in Underway /\ ToFailed(b, "site")
      /\ UNCHANGED <<live, instance>> /\ buildFaults' \in 0..MaxBuildFaults
  BY DeployFaults DEF SetKeyFails, Underway, Steps
<1>2. \/ UNCHANGED <<convexEnv, torn>>
      \/ convexEnv' = [convexEnv EXCEPT !.key = b] /\ torn' = TRUE
  BY DEF SetKeyFails
<1>3. convexEnv' \in EnvRow /\ torn' \in BOOLEAN /\ (torn => torn')
  <2>1. CASE UNCHANGED <<convexEnv, torn>>
    BY <2>1, EnvTyped
  <2>2. CASE convexEnv' = [convexEnv EXCEPT !.key = b] /\ torn' = TRUE
    BY <2>2, EnvTyped, BuildNumbers DEF EnvRow
  <2>3. QED
    BY <1>2, <2>1, <2>2
<1>4. KeysAfter(b, "site") /\ "site" \in Steps
  BY <1>1, <1>2 DEF KeysAfter, HalfWritten, Paired, Steps
<1>5. QED
  BY <1>1, <1>3, <1>4, ToFailedKeeps

LEMMA SetJwksKeeps ==
  ASSUME DeployInv, NEW b \in Builds, SetJwks(b)
  PROVE  DeployInv'
<1>1. /\ build[b].at = "set jwks" /\ b \in Underway /\ To(b, "site")
      /\ convexEnv' = [convexEnv EXCEPT !.jwks = b] /\ UNCHANGED <<live, instance, torn, buildFaults>>
  BY DEF SetJwks, Quiet, Underway, Steps
<1>2. convexEnv' \in EnvRow /\ convexEnv'.jwks = b /\ convexEnv'.key = convexEnv.key
  BY <1>1, EnvTyped, BuildNumbers DEF EnvRow
<1>3. KeysAfter(b, "site") /\ "site" \in Steps
  BY <1>1, <1>2 DEF KeysAfter, HalfWritten, Steps
<1>4. QED
  BY <1>1, <1>2, <1>3, EnvTyped, ToKeeps

LEMMA SetJwksFailsKeeps ==
  ASSUME DeployInv, NEW b \in Builds, SetJwksFails(b)
  PROVE  DeployInv'
<1>1. /\ build[b].at = "set jwks" /\ b \in Underway /\ ToFailed(b, "roll back")
      /\ UNCHANGED <<live, instance, torn>> /\ buildFaults' \in 0..MaxBuildFaults
      /\ convexEnv' \in {convexEnv, [convexEnv EXCEPT !.jwks = b]}
  BY DeployFaults DEF SetJwksFails, Underway, Steps
<1>2. convexEnv' \in EnvRow /\ convexEnv'.key = convexEnv.key
  BY <1>1, EnvTyped, BuildNumbers DEF EnvRow
<1>3. KeysAfter(b, "roll back") /\ "roll back" \in Steps
  BY <1>1, <1>2 DEF KeysAfter, HalfWritten, Steps
<1>4. QED
  BY <1>1, <1>2, <1>3, EnvTyped, ToFailedKeeps

LEMMA RollBackKeeps ==
  ASSUME DeployInv, NEW b \in Builds, RollBack(b)
  PROVE  DeployInv'
<1>1. build[b].at = "roll back" /\ b \in Underway /\ To(b, "site")
  BY DEF RollBack, Underway, Steps
<1>2. /\ UNCHANGED <<live, instance>> /\ buildFaults' \in 0..MaxBuildFaults
      /\ \/ convexEnv' = [convexEnv EXCEPT !.key = 0] /\ torn' = torn
         \/ UNCHANGED convexEnv /\ torn' = TRUE
  BY DeployFaults, EnvTyped DEF RollBack, Quiet
<1>3. convexEnv' \in EnvRow /\ torn' \in BOOLEAN /\ (torn => torn') /\ (~torn' => convexEnv'.key = 0)
  <2>1. CASE convexEnv' = [convexEnv EXCEPT !.key = 0] /\ torn' = torn
    BY <2>1, EnvTyped, BuildNumbers DEF EnvRow
  <2>2. CASE UNCHANGED convexEnv /\ torn' = TRUE
    BY <2>2, EnvTyped
  <2>3. QED
    BY <1>2, <2>1, <2>2
<1>4. KeysAfter(b, "site") /\ "site" \in Steps
  BY <1>3 DEF KeysAfter, Steps
<1>5. QED
  BY <1>1, <1>2, <1>3, <1>4, ToKeeps

LEMMA SetSiteKeeps ==
  ASSUME DeployInv, NEW b \in Builds, SetSite(b)
  PROVE  DeployInv'
<1>1. build[b].at = "site" /\ b \in Underway /\ To(b, "token")
  BY DEF SetSite, Underway, Steps
<1>2. /\ UNCHANGED <<live, instance, torn>> /\ buildFaults' \in 0..MaxBuildFaults
      /\ convexEnv' \in {convexEnv, [convexEnv EXCEPT !.site = TRUE]}
  BY DeployFaults, EnvTyped DEF SetSite, Quiet
<1>3. convexEnv' \in EnvRow /\ convexEnv'.key = convexEnv.key /\ convexEnv'.jwks = convexEnv.jwks
  BY <1>2, EnvTyped DEF EnvRow
<1>4. KeysAfter(b, "token") /\ "token" \in Steps
  BY <1>1, <1>2, <1>3 DEF KeysAfter, HalfWritten, Paired, Steps
<1>5. QED
  BY <1>1, <1>2, <1>3, <1>4, EnvTyped, ToKeeps

\* A build that can boot a gateway wants Convex to hold the very token it presents,
\* a padded one that is copied aside.
LEMMA WantedIsPresented ==
  ASSUME NEW s \in Settings
  PROVE  /\ Wanted(s) \in Tokens
         /\ Boots(s) /\ ~(s.root = "none" /\ s.token = "padded") => Wanted(s) = TokenOf(s) /\ Wanted(s) # NoToken
<1>1. s.root \in Roots \cup {"none", "short"} /\ s.token \in {"unset", "own", "padded"} /\ "none" \notin Roots /\ "short" \notin Roots
  BY DeploymentAssumption DEF Settings
<1>2. Own # NoToken /\ \A r : Derived(r) # NoToken
  <2>1. Own[1] = "own" /\ NoToken[1] = "none" /\ \A r : Derived(r)[1] = "derived"
    BY DEF Own, NoToken, Derived
  <2>2. QED
    BY <2>1
<1>3. CASE s.root \in Roots
  <2>1. s.root # "none"
    BY <1>1, <1>3
  <2>2. Wanted(s) = TokenOf(s)
    BY <1>3, <2>1, Zenon DEF Wanted
  <2>3. TokenOf(s) \in Tokens /\ TokenOf(s) # NoToken
    BY <1>2, <1>3 DEF TokenOf, Tokens
  <2>4. QED
    BY <2>2, <2>3
<1>4. CASE s.root = "none" /\ s.token = "own"
  <2>1. s.root \notin Roots /\ s.token # "padded" /\ s.token # "unset"
    BY <1>1, <1>4
  <2>2. Wanted(s) = Own
    BY <1>4, <2>1, Zenon DEF Wanted
  <2>3. TokenOf(s) = Own /\ Own \in Tokens
    BY <2>1 DEF TokenOf, Tokens
  <2>4. QED
    BY <1>2, <2>2, <2>3
<1>5. CASE s.root = "none" /\ s.token = "padded"
  <2>1. s.root \notin Roots /\ s.token # "own"
    BY <1>1, <1>5
  <2>2. Wanted(s) = Padded
    BY <1>5, <2>1, Zenon DEF Wanted
  <2>3. QED
    BY <1>5, <2>2 DEF Tokens
<1>6. CASE s.root = "short" \/ (s.root = "none" /\ s.token = "unset")
  <2>1. s.root \notin Roots /\ ~(s.root = "none" /\ s.token = "own") /\ ~(s.root = "none" /\ s.token = "padded")
    BY <1>1, <1>6
  <2>2. Wanted(s) = NoToken
    BY <2>1, Zenon DEF Wanted
  <2>3. ~Boots(s)
    BY <1>1, <1>6, <2>1 DEF Boots
  <2>4. QED
    BY <2>2, <2>3 DEF Tokens
<1>7. QED
  BY <1>1, <1>3, <1>4, <1>5, <1>6

LEMMA SetTokenKeeps ==
  ASSUME DeployInv, NEW b \in Builds, SetToken(b)
  PROVE  DeployInv'
<1> DEFINE wanted == Wanted(build[b].with)
<1>1. build[b].with \in Settings /\ wanted \in Tokens
  BY DeployParts, WantedIsPresented DEF BuildRow
<1>2. /\ build[b].at = "token" /\ b \in Underway /\ To(b, "deploy") /\ UNCHANGED <<live, instance, torn, buildFaults>>
      /\ convexEnv' = [convexEnv EXCEPT !.token = IF wanted = NoToken \/ build[b].failed THEN @ ELSE wanted]
  BY DEF SetToken, Quiet, Underway, Steps
<1> HIDE DEF wanted
<1>3. /\ convexEnv' \in EnvRow /\ convexEnv'.key = convexEnv.key /\ convexEnv'.jwks = convexEnv.jwks
      /\ convexEnv'.token = IF wanted = NoToken \/ build[b].failed THEN convexEnv.token ELSE wanted
  <2>1. convexEnv \in EnvRow
    BY EnvTyped
  <2> DEFINE t == IF wanted = NoToken \/ build[b].failed THEN convexEnv.token ELSE wanted
  <2>2. t \in Tokens
    BY <1>1, <2>1 DEF EnvRow
  <2>3. convexEnv' = [convexEnv EXCEPT !.token = t]
    BY <1>2
  <2> HIDE DEF t
  <2>4. convexEnv' \in EnvRow /\ convexEnv'.key = convexEnv.key /\ convexEnv'.jwks = convexEnv.jwks /\ convexEnv'.token = t
    BY <2>1, <2>2, <2>3 DEF EnvRow
  <2>5. QED
    BY <2>4 DEF t
<1>4. KeysAfter(b, "deploy") /\ "deploy" \in Steps
  BY <1>2, <1>3 DEF KeysAfter, HalfWritten, Paired, Steps
<1>5. ASSUME ~build[b].failed, Boots(build[b].with), ~(build[b].with.root = "none" /\ build[b].with.token = "padded")
      PROVE  convexEnv'.token = TokenOf(build[b].with)
  BY <1>1, <1>3, <1>5, WantedIsPresented DEF wanted
<1>6. QED
  BY <1>2, <1>3, <1>4, <1>5, EnvTyped, ToKeeps

LEMMA SetTokenFailsKeeps ==
  ASSUME DeployInv, NEW b \in Builds, SetTokenFails(b)
  PROVE  DeployInv'
<1> DEFINE wanted == Wanted(build[b].with)
<1>1. build[b].with \in Settings /\ wanted \in Tokens
  BY DeployParts, WantedIsPresented DEF BuildRow
<1>2. /\ build[b].at = "token" /\ b \in Underway /\ ToFailed(b, "deploy")
      /\ UNCHANGED <<live, instance, torn>> /\ buildFaults' \in 0..MaxBuildFaults
      /\ convexEnv' \in {convexEnv, [convexEnv EXCEPT !.token = wanted]}
  BY DeployFaults DEF SetTokenFails, Underway, Steps
<1> HIDE DEF wanted
<1>3. convexEnv' \in EnvRow /\ convexEnv'.key = convexEnv.key /\ convexEnv'.jwks = convexEnv.jwks
  BY <1>1, <1>2, EnvTyped DEF EnvRow
<1>4. KeysAfter(b, "deploy") /\ "deploy" \in Steps
  BY <1>2, <1>3 DEF KeysAfter, HalfWritten, Paired, Steps
<1>5. QED
  BY <1>2, <1>3, <1>4, EnvTyped, ToFailedKeeps

\* A build ends: its token check stops it, it goes live, or the outside stops it.
LEMMA EndingBuildKeeps ==
  ASSUME DeployInv, NEW b \in Builds, SecretTooShort(b) \/ GoesLive(b) \/ BuildStops(b)
  PROVE  DeployInv'
<1>1. CASE SecretTooShort(b)
  <2>1. /\ build[b].at = "token" /\ b \in Underway /\ To(b, "stopped")
        /\ UNCHANGED <<convexEnv, live, instance, torn, buildFaults>>
    BY <1>1 DEF SecretTooShort, Quiet, Underway, Steps
  <2>2. KeysAfter(b, "stopped")
    BY <2>1 DEF KeysAfter, HalfWritten, Paired
  <2>3. QED
    BY <2>1, <2>2, EnvTyped, ToKeeps
<1>2. CASE GoesLive(b)
  <2>1. /\ build[b].at = "deploy" /\ b \in Underway /\ To(b, "done") /\ live' = b
        /\ UNCHANGED <<convexEnv, instance, torn, buildFaults>>
    BY <1>2 DEF GoesLive, Underway, Steps
  <2>2. KeysAfter(b, "done")
    BY <2>1 DEF KeysAfter, HalfWritten, Paired
  <2>3. QED
    BY <2>1, <2>2, EnvTyped, ToKeeps
<1>3. CASE BuildStops(b)
  <2>1. /\ b \in Underway /\ To(b, "stopped") /\ UNCHANGED <<convexEnv, live, instance>>
        /\ buildFaults' \in 0..MaxBuildFaults /\ torn' = (torn \/ HalfWritten(b))
    BY <1>3, DeployFaults DEF BuildStops, HalfWritten
  <2>2. torn' \in BOOLEAN /\ (torn => torn')
    BY <2>1
  <2>3. KeysAfter(b, "stopped")
    BY <2>1 DEF KeysAfter, Paired
  <2>4. QED
    BY <2>1, <2>2, <2>3, EnvTyped, ToKeeps
<1>4. QED
  BY <1>1, <1>2, <1>3

LEMMA StartBuildKeeps ==
  ASSUME DeployInv, NEW b \in Builds, StartBuild(b)
  PROVE  DeployInv'
<1>1. PICK provisions \in BOOLEAN, settings \in Settings :
        build' = [c \in Builds |->
          IF c = b THEN [at |-> "gate", with |-> settings, provisions |-> provisions, failed |-> FALSE, alone |-> Underway = {}]
          ELSE IF c \in Underway THEN [build[c] EXCEPT !.alone = FALSE] ELSE build[c]]
  BY DEF StartBuild
<1> DEFINE new == [at |-> "gate", with |-> settings, provisions |-> provisions, failed |-> FALSE, alone |-> Underway = {}]
           crowded(c) == [build[c] EXCEPT !.alone = FALSE]
<1>2. ~Begun(b) /\ (\A c \in Below(b) : Begun(c)) /\ UNCHANGED <<convexEnv, live, instance, torn, buildFaults>>
  <2>1. \A c \in Below(b) : c \in 1..b - 1
    BY DEF Below, Builds
  <2>2. QED
    BY <2>1 DEF StartBuild, Quiet, Begun
<1>3. new \in BuildRow /\ new.at = "gate" /\ (new.alone <=> Underway = {})
  <2>1. (Underway = {}) \in BOOLEAN /\ "gate" \in Steps
    BY DEF Steps
  <2>2. QED
    BY <2>1 DEF BuildRow
<1>4. \A c \in Builds : /\ crowded(c) \in BuildRow /\ ~crowded(c).alone /\ crowded(c).at = build[c].at
                        /\ crowded(c).with = build[c].with /\ crowded(c).provisions = build[c].provisions
                        /\ crowded(c).failed = build[c].failed
  BY DeployParts DEF BuildRow
<1> HIDE DEF new, crowded
<1>5. build' = [c \in Builds |-> IF c = b THEN new ELSE IF c \in Underway THEN crowded(c) ELSE build[c]]
  BY <1>1 DEF new, crowded
<1>6. /\ build' \in [Builds -> BuildRow] /\ build'[b] = new
      /\ \A c \in Builds : c # b => build'[c] = IF c \in Underway THEN crowded(c) ELSE build[c]
  BY <1>3, <1>4, <1>5, DeployParts
<1>7. \A c \in Builds : c # b => /\ build'[c].at = build[c].at /\ build'[c].with = build[c].with
                                 /\ build'[c].provisions = build[c].provisions /\ build'[c].failed = build[c].failed
                                 /\ (build'[c].alone => build[c].alone /\ c \notin Underway)
  BY <1>4, <1>6 DEF Underway
<1>8. DeployTypeOK'
  BY <1>2, <1>6, DeployParts DEF DeployTypeOK, BuildRow
<1>9. Begun(b)' /\ \A c \in Builds : c # b => (Begun(c)' <=> Begun(c))
  BY <1>3, <1>6, <1>7 DEF Begun
<1>10. \A c \in Builds : Begun(c) => ~(c > b) /\ b \notin Below(c)
  BY <1>2, DeployParts, BuildNumbers DEF Below
<1>11. \A c \in Builds : Begun(c)' => \A d \in Below(c) : Begun(d)'
  <2> SUFFICES ASSUME NEW c \in Builds, Begun(c)', NEW d \in Below(c)
               PROVE  Begun(d)'
    OBVIOUS
  <2>1. d \in Builds
    BY DEF Below
  <2>2. CASE c = b
    BY <1>2, <1>9, <2>1, <2>2
  <2>3. CASE c # b
    BY <1>9, <2>1, <2>3, DeployParts
  <2>4. QED
    BY <2>2, <2>3
<1>12. Underway' = Underway \cup {b}
  BY <1>3, <1>6, <1>7 DEF Underway, Steps
<1>13. \A c \in Builds : Begun(c)' /\ build'[c].alone => \A d \in Below(c) : d \notin Underway'
  <2> SUFFICES ASSUME NEW c \in Builds, Begun(c)', build'[c].alone, NEW d \in Below(c)
               PROVE  d \notin Underway /\ d # b
    BY <1>12
  <2>1. CASE c = b
    BY <1>3, <1>6, <2>1, BuildNumbers DEF Below
  <2>2. CASE c # b
    BY <1>7, <1>9, <1>10, <2>2, DeployParts
  <2>3. QED
    BY <2>1, <2>2
<1>14. Serial' => Serial /\ Underway = {}
  <2> SUFFICES ASSUME Serial' PROVE Serial /\ Underway = {}
    OBVIOUS
  <2>1. \A c \in Builds : Begun(c)' => build'[c].alone
    BY DEF Serial
  <2>2. Serial
    BY <1>2, <1>7, <1>9, <2>1 DEF Serial
  <2>3. Underway = {}
    BY <1>3, <1>6, <1>9, <2>1
  <2>4. QED
    BY <2>2, <2>3
<1>15. Serial' /\ ~torn' =>
         /\ \A c \in Builds : HalfWritten(c)' => convexEnv'.key = c
         /\ (\A c \in Builds : ~HalfWritten(c)') => Paired'
  <2> SUFFICES ASSUME Serial', ~torn'
               PROVE  (\A c \in Builds : ~HalfWritten(c)') /\ Paired'
    OBVIOUS
  <2>1. \A c \in Builds : ~HalfWritten(c)
    BY <1>14 DEF HalfWritten, Underway, Steps
  <2>2. Paired
    BY <1>2, <1>14, <2>1 DEF DeployInv
  <2>3. QED
    BY <1>2, <1>3, <1>6, <1>7, <2>1, <2>2 DEF HalfWritten, Paired
<1>16. ASSUME NEW c \in Builds, Provisioned(c)', build'[c].alone, NoneAfter(c)'
       PROVE  convexEnv'.token = TokenOf(build'[c].with)
  <2>1. c # b
    BY <1>3, <1>6, <1>16 DEF Provisioned
  <2>2. Provisioned(c) /\ build[c].alone
    BY <1>7, <1>16, <2>1 DEF Provisioned
  <2>3. b > c
    BY <1>10, <2>1, <2>2, BuildNumbers, DeployParts DEF Provisioned, Begun, Below
  <2>4. FALSE
    BY <1>9, <1>16, <2>3 DEF NoneAfter
  <2>5. QED
    BY <2>4
<1>17. \A c \in Builds : build[c].at = "done" => build'[c].at = "done" /\ build'[c].with = build[c].with
  BY <1>2, <1>7 DEF Begun
<1>18. /\ live' # 0 => build'[live'].at = "done"
       /\ instance'.of # 0 => build'[instance'.of].at = "done"
       /\ instance'.app = "up" => instance'.of # 0 /\ Boots(build'[instance'.of].with)
  <2>1. (live # 0 => live \in Builds /\ build[live].at = "done") /\ (instance.of # 0 => instance.of \in Builds)
    BY DeployParts, BuildNumbers DEF DeployInv
  <2>2. /\ instance.of # 0 => build[instance.of].at = "done"
        /\ instance.app = "up" => instance.of # 0 /\ Boots(build[instance.of].with)
    BY DEF DeployInv
  <2>3. QED
    BY <1>2, <1>17, <2>1, <2>2
<1>19. QED
  BY <1>8, <1>11, <1>13, <1>15, <1>16, <1>18 DEF DeployInv, Below

\* A gateway instance starts or boots: the builds and the environment stay.
LEMMA InstanceKeeps ==
  ASSUME DeployInv, InstanceStarts \/ RequestBoots
  PROVE  DeployInv'
<1>1. UNCHANGED <<build, convexEnv, live, torn, buildFaults>>
  BY DEF InstanceStarts, RequestBoots
<1>2. /\ instance' \in [of : 0..MaxBuilds, app : {"none", "up"}]
      /\ instance'.of # 0 => build[instance'.of].at = "done"
      /\ instance'.app = "up" => instance'.of # 0 /\ Boots(build[instance'.of].with)
  <2>1. CASE InstanceStarts
    BY <2>1, DeployParts DEF InstanceStarts, DeployInv
  <2>2. CASE RequestBoots
    <3>1. instance' \in [of : 0..MaxBuilds, app : {"none", "up"}] /\ instance'.of = instance.of
      BY <2>2, DeployParts DEF RequestBoots
    <3>2. instance.of # 0 /\ Boots(build[instance.of].with) /\ build[instance.of].at = "done"
      BY <2>2 DEF RequestBoots, DeployInv
    <3>3. QED
      BY <3>1, <3>2
  <2>3. QED
    BY <2>1, <2>2
<1>3. DeployTypeOK'
  BY <1>1, <1>2 DEF DeployInv, DeployTypeOK
<1>4. Underway' = Underway
  BY <1>1 DEF Underway
<1>5. QED
  BY <1>1, <1>2, <1>3, <1>4
     DEF DeployInv, Begun, Below, Serial, HalfWritten, Paired, Provisioned, NoneAfter

LEMMA DeployNextKeeps ==
  ASSUME DeployInv, [DeployNext]_deployVars
  PROVE  DeployInv'
<1>1. CASE UNCHANGED deployVars
  <2>1. UNCHANGED <<build, convexEnv, live, instance, torn, buildFaults>>
    BY <1>1 DEF deployVars
  <2>2. DeployTypeOK' /\ Underway' = Underway
    BY <2>1 DEF DeployInv, DeployTypeOK, Underway
  <2>3. QED
    BY <2>1, <2>2 DEF DeployInv, Begun, Below, Serial, HalfWritten, Paired, Provisioned, NoneAfter
<1>2. QED
  BY <1>1, StartBuildKeeps, PassGateKeeps, ReadKeysKeeps, SetKeyKeeps, SetKeyFailsKeeps, SetJwksKeeps, SetJwksFailsKeeps,
     RollBackKeeps, SetSiteKeeps, SetTokenKeeps, SetTokenFailsKeeps, EndingBuildKeeps, InstanceKeeps
     DEF DeployNext

LEMMA DeployInvariant == DeploySpec => []DeployInv
BY DeployInitOK, DeployNextKeeps, PTL DEF DeploySpec

\* What DeployInv does not say and HalvesAreReported needs, of builds that ran alone:
\* a build's key is there only once the build has set it; who is between the two
\* writes has replaced the key of whoever ran alone; and a build that got past them
\* without a failure wrote the public half too.
Early == {"none", "gate", "read keys", "set key"}
Past == {"site", "token", "deploy", "done"}

Reported(b) ==
  /\ convexEnv.key = b => build[b].at \notin Early
  /\ build[b].at = "roll back" => build[b].failed
  /\ convexEnv.key = b /\ build[b].at \in Past /\ build[b].alone /\ ~build[b].failed => convexEnv.jwks = b

Apart(b, c) ==
  /\ b \in Underway /\ c \in Underway => ~build[b].alone
  /\ HalfWritten(c) /\ build[b].alone => convexEnv.key # b

ReportInv == \A b \in Builds : Reported(b) /\ \A c \in Builds : b # c => Apart(b, c)

\* A step of one build that goes on as `row`.
LEMMA BuildStepReports ==
  ASSUME DeployInv, ReportInv, NEW b \in Builds, b \in Underway, NEW row \in BuildRow, build' = [build EXCEPT ![b] = row],
         row.alone = build[b].alone,
         row.at = "roll back" => row.failed,
         convexEnv'.key = b => row.at \notin Early,
         convexEnv'.key = b /\ row.at \in Past /\ ~row.failed /\ row.alone => convexEnv'.jwks = b,
         \A c \in Builds : c # b /\ convexEnv'.key = c => convexEnv.key = c,
         \A c \in Builds : c # b /\ convexEnv'.key = c /\ build[c].alone =>
           row.at \notin {"set jwks", "roll back"} /\ convexEnv'.jwks = convexEnv.jwks
  PROVE  ReportInv'
<1>1. build'[b] = row /\ \A c \in Builds : c # b => build'[c] = build[c]
  BY DeployParts
<1>2. \A c \in Builds : c \in Underway' => c \in Underway
  BY <1>1 DEF Underway
<1>3. ASSUME NEW c \in Builds PROVE Reported(c)'
  <2>1. CASE c = b
    BY <1>1, <2>1 DEF Reported
  <2>2. CASE c # b
    BY <1>1, <2>2 DEF ReportInv, Reported
  <2>3. QED
    BY <2>1, <2>2
<1>4. ASSUME NEW c \in Builds, NEW d \in Builds, c # d PROVE Apart(c, d)'
  <2>1. Apart(c, d) /\ build'[c].alone = build[c].alone
    BY <1>1, <1>4 DEF ReportInv
  <2>2. c \in Underway' /\ d \in Underway' => ~build'[c].alone
    BY <1>2, <2>1 DEF Apart
  <2>3. ASSUME HalfWritten(d)', build'[c].alone PROVE convexEnv'.key # c
    <3>1. CASE d = b
      BY <1>1, <1>4, <2>1, <2>3, <3>1 DEF HalfWritten
    <3>2. CASE d # b /\ c # b
      BY <1>1, <2>1, <2>3, <3>2 DEF Apart, HalfWritten
    <3>3. CASE c = b
      <4>1. d \in Underway
        BY <1>1, <1>4, <2>3, <3>3 DEF HalfWritten, Underway, Steps
      <4>2. QED
        BY <2>1, <2>3, <3>3, <4>1 DEF Apart
    <3>4. QED
      BY <1>4, <3>1, <3>2, <3>3
  <2>4. QED
    BY <2>2, <2>3 DEF Apart
<1>5. QED
  BY <1>3, <1>4 DEF ReportInv

\* A step that leaves both keys and is not between their writes.
LEMMA PlainStepReports ==
  ASSUME DeployInv, ReportInv, NEW b \in Builds, b \in Underway, NEW row \in BuildRow, build' = [build EXCEPT ![b] = row],
         row.alone = build[b].alone, row.failed \/ row.failed = build[b].failed,
         convexEnv'.key = convexEnv.key, convexEnv'.jwks = convexEnv.jwks,
         \/ row.at = "stopped"
         \/ build[b].at \in Early /\ row.at \in Early \cup Past
         \/ build[b].at \in Past /\ row.at \in Past
  PROVE  ReportInv'
<1>1. row.at \notin {"set jwks", "roll back"} /\ (row.at = "stopped" => row.at \notin Early \cup Past)
  BY DEF Early, Past
<1>2. Reported(b)
  BY DEF ReportInv
<1>3. convexEnv'.key = b => row.at \notin Early
  BY <1>2 DEF Reported, Early, Past
<1>4. convexEnv'.key = b /\ row.at \in Past /\ ~row.failed /\ row.alone => convexEnv'.jwks = b
  BY <1>1, <1>2 DEF Reported
<1>5. QED
  BY <1>1, <1>3, <1>4, BuildStepReports

\* What a step makes of a build's record.
RowAt(b, step) == [build[b] EXCEPT !.at = step]
RowFailedAt(b, step) == [build[b] EXCEPT !.at = step, !.failed = TRUE]

LEMMA RowOfStep ==
  ASSUME DeployInv, NEW b \in Builds, NEW step \in Steps \cup {"done", "stopped"}
  PROVE  /\ RowAt(b, step) \in BuildRow /\ RowAt(b, step).at = step
         /\ RowAt(b, step).alone = build[b].alone /\ RowAt(b, step).failed = build[b].failed
         /\ To(b, step) => build' = [build EXCEPT ![b] = RowAt(b, step)]
BY DeployParts DEF BuildRow, RowAt, To

LEMMA RowOfFailure ==
  ASSUME DeployInv, NEW b \in Builds, NEW step \in Steps \cup {"done", "stopped"}
  PROVE  /\ RowFailedAt(b, step) \in BuildRow /\ RowFailedAt(b, step).at = step
         /\ RowFailedAt(b, step).alone = build[b].alone /\ RowFailedAt(b, step).failed
         /\ ToFailed(b, step) => build' = [build EXCEPT ![b] = RowFailedAt(b, step)]
BY DeployParts DEF BuildRow, RowFailedAt, ToFailed

LEMMA OtherStepsReport ==
  ASSUME DeployInv, ReportInv, NEW b \in Builds,
         \/ PassGate(b) \/ ReadKeys(b) \/ SetSite(b) \/ SetToken(b) \/ SetTokenFails(b)
         \/ SecretTooShort(b) \/ GoesLive(b) \/ BuildStops(b)
  PROVE  ReportInv'
<1>1. convexEnv'.key = convexEnv.key /\ convexEnv'.jwks = convexEnv.jwks
  <2>1. CASE UNCHANGED convexEnv
    BY <2>1
  <2>2. CASE SetSite(b)
    BY <2>2, EnvTyped DEF SetSite, EnvRow
  <2>3. CASE SetToken(b)
    <3> DEFINE t == IF Wanted(build[b].with) = NoToken \/ build[b].failed THEN convexEnv.token ELSE Wanted(build[b].with)
    <3>1. convexEnv' = [convexEnv EXCEPT !.token = t]
      BY <2>3 DEF SetToken
    <3> HIDE DEF t
    <3>2. QED
      BY <3>1, EnvTyped DEF EnvRow
  <2>4. CASE SetTokenFails(b)
    <3> DEFINE t == Wanted(build[b].with)
    <3>1. convexEnv' \in {convexEnv, [convexEnv EXCEPT !.token = t]}
      BY <2>4 DEF SetTokenFails
    <3> HIDE DEF t
    <3>2. QED
      BY <3>1, EnvTyped DEF EnvRow
  <2>5. QED
    BY <2>1, <2>2, <2>3, <2>4 DEF PassGate, ReadKeys, SecretTooShort, GoesLive, BuildStops
<1>2. PICK step \in Steps \cup {"done", "stopped"} :
        /\ To(b, step) \/ ToFailed(b, step)
        /\ b \in Underway
        /\ \/ step = "stopped"
           \/ build[b].at \in Early /\ step \in Early \cup Past
           \/ build[b].at \in Past /\ step \in Past
  <2>1. CASE PassGate(b)
    <3>1. To(b, "read keys") \/ To(b, "deploy")
      BY <2>1 DEF PassGate
    <3>2. build[b].at = "gate"
      BY <2>1 DEF PassGate
    <3>3. QED
      BY <3>1, <3>2 DEF Underway, Steps, Early, Past
  <2>2. CASE ReadKeys(b)
    <3>1. To(b, "set key") \/ To(b, "site")
      BY <2>2 DEF ReadKeys
    <3>2. build[b].at = "read keys"
      BY <2>2 DEF ReadKeys
    <3>3. QED
      BY <3>1, <3>2 DEF Underway, Steps, Early, Past
  <2>3. CASE SetSite(b)
    BY <2>3 DEF SetSite, Underway, Steps, Early, Past
  <2>4. CASE SetToken(b)
    BY <2>4 DEF SetToken, Underway, Steps, Early, Past
  <2>5. CASE SetTokenFails(b)
    BY <2>5 DEF SetTokenFails, Underway, Steps, Early, Past
  <2>6. CASE SecretTooShort(b)
    BY <2>6 DEF SecretTooShort, Underway, Steps
  <2>7. CASE GoesLive(b)
    BY <2>7 DEF GoesLive, Underway, Steps, Early, Past
  <2>8. CASE BuildStops(b)
    BY <2>8 DEF BuildStops
  <2>9. QED
    BY <2>1, <2>2, <2>3, <2>4, <2>5, <2>6, <2>7, <2>8
<1>3. CASE To(b, step)
  BY <1>1, <1>2, <1>3, RowOfStep, PlainStepReports
<1>4. CASE ToFailed(b, step)
  BY <1>1, <1>2, <1>4, RowOfFailure, PlainStepReports
<1>5. QED
  BY <1>2, <1>3, <1>4

\* The writes of the two keys.
LEMMA KeyStepsReport ==
  ASSUME DeployInv, ReportInv, NEW b \in Builds,
         SetKey(b) \/ SetKeyFails(b) \/ SetJwks(b) \/ SetJwksFails(b) \/ RollBack(b)
  PROVE  ReportInv'
<1>0. /\ "set jwks" \in Steps \cup {"done", "stopped"} /\ "roll back" \in Steps \cup {"done", "stopped"}
      /\ "site" \in Steps \cup {"done", "stopped"}
  BY DEF Steps
<1>1. b \in Underway /\ Reported(b) /\ b # 0 /\ convexEnv \in EnvRow
  BY EnvTyped, BuildNumbers DEF SetKey, SetKeyFails, SetJwks, SetJwksFails, RollBack, Underway, Steps, ReportInv
<1>2. ASSUME HalfWritten(b) PROVE \A c \in Builds : c # b /\ build[c].alone => convexEnv.key # c
  BY <1>2 DEF ReportInv, Apart
<1>3. CASE SetKey(b)
  <2>1. To(b, "set jwks") /\ convexEnv'.key = b
    BY <1>1, <1>3 DEF SetKey, EnvRow
  <2> DEFINE row == RowAt(b, "set jwks")
  <2>2. /\ row \in BuildRow /\ build' = [build EXCEPT ![b] = row]
        /\ row.at = "set jwks" /\ row.alone = build[b].alone /\ row.failed = build[b].failed
    BY <1>0, <2>1, RowOfStep
  <2> HIDE DEF row
  <2>3. QED
    BY <1>1, <2>1, <2>2, BuildStepReports DEF Early, Past
<1>4. CASE SetKeyFails(b)
  <2>1. ToFailed(b, "site") /\ convexEnv'.jwks = convexEnv.jwks /\ convexEnv'.key \in {b, convexEnv.key}
    BY <1>1, <1>4 DEF SetKeyFails, EnvRow
  <2> DEFINE row == RowFailedAt(b, "site")
  <2>2. /\ row \in BuildRow /\ build' = [build EXCEPT ![b] = row]
        /\ row.at = "site" /\ row.alone = build[b].alone /\ row.failed
    BY <1>0, <2>1, RowOfFailure
  <2> HIDE DEF row
  <2>3. QED
    BY <1>1, <2>1, <2>2, BuildStepReports DEF Early, Past
<1>5. CASE SetJwks(b)
  <2>1. To(b, "site") /\ convexEnv'.jwks = b /\ convexEnv'.key = convexEnv.key /\ HalfWritten(b)
    BY <1>1, <1>5 DEF SetJwks, EnvRow, HalfWritten
  <2> DEFINE row == RowAt(b, "site")
  <2>2. /\ row \in BuildRow /\ build' = [build EXCEPT ![b] = row]
        /\ row.at = "site" /\ row.alone = build[b].alone /\ row.failed = build[b].failed
    BY <1>0, <2>1, RowOfStep
  <2> HIDE DEF row
  <2>3. QED
    BY <1>1, <1>2, <2>1, <2>2, BuildStepReports DEF Early, Past
<1>6. CASE SetJwksFails(b)
  <2>1. ToFailed(b, "roll back") /\ convexEnv'.key = convexEnv.key /\ HalfWritten(b)
    BY <1>1, <1>6 DEF SetJwksFails, EnvRow, HalfWritten
  <2> DEFINE row == RowFailedAt(b, "roll back")
  <2>2. /\ row \in BuildRow /\ build' = [build EXCEPT ![b] = row]
        /\ row.at = "roll back" /\ row.alone = build[b].alone /\ row.failed
    BY <1>0, <2>1, RowOfFailure
  <2> HIDE DEF row
  <2>3. QED
    BY <1>1, <1>2, <2>1, <2>2, BuildStepReports DEF Early, Past
<1>7. CASE RollBack(b)
  <2>1. /\ To(b, "site") /\ convexEnv'.key \in {0, convexEnv.key} /\ convexEnv'.jwks = convexEnv.jwks
        /\ HalfWritten(b) /\ build[b].failed
    BY <1>1, <1>7 DEF RollBack, Quiet, EnvRow, HalfWritten, Reported
  <2> DEFINE row == RowAt(b, "site")
  <2>2. /\ row \in BuildRow /\ build' = [build EXCEPT ![b] = row]
        /\ row.at = "site" /\ row.alone = build[b].alone /\ row.failed = build[b].failed
    BY <1>0, <2>1, RowOfStep
  <2> HIDE DEF row
  <2>3. \A c \in Builds : c # 0
    BY BuildNumbers
  <2>4. QED
    BY <1>1, <1>2, <2>1, <2>2, <2>3, BuildStepReports DEF Early, Past
<1>8. QED
  BY <1>3, <1>4, <1>5, <1>6, <1>7

\* A build that starts takes `alone` from those under way and writes nothing.
LEMMA StartBuildReports ==
  ASSUME DeployInv, ReportInv, NEW b \in Builds, StartBuild(b)
  PROVE  ReportInv'
<1>1. PICK provisions \in BOOLEAN, settings \in Settings :
        build' = [c \in Builds |->
          IF c = b THEN [at |-> "gate", with |-> settings, provisions |-> provisions, failed |-> FALSE, alone |-> Underway = {}]
          ELSE IF c \in Underway THEN [build[c] EXCEPT !.alone = FALSE] ELSE build[c]]
  BY DEF StartBuild
<1>2. UNCHANGED convexEnv /\ build[b].at = "none"
  BY DEF StartBuild
<1>3. build'[b].at = "gate" /\ (build'[b].alone <=> Underway = {})
  BY <1>1
<1>4. \A c \in Builds : c # b => /\ build'[c].at = build[c].at /\ build'[c].failed = build[c].failed
                                 /\ (build'[c].alone => build[c].alone /\ c \notin Underway)
  BY <1>1, DeployParts DEF BuildRow
<1>5. ASSUME NEW c \in Builds PROVE Reported(c)'
  <2>1. Reported(c)
    BY DEF ReportInv
  <2>2. CASE c = b
    BY <1>2, <1>3, <2>1, <2>2 DEF Reported, Early, Past
  <2>3. CASE c # b
    BY <1>2, <1>4, <2>1, <2>3 DEF Reported
  <2>4. QED
    BY <2>2, <2>3
<1>6. ASSUME NEW c \in Builds, NEW d \in Builds, c # d PROVE Apart(c, d)'
  <2>1. Apart(c, d) /\ Reported(c)
    BY <1>6 DEF ReportInv
  <2>2. CASE c = b
    <3>1. build'[c].alone => d \notin Underway
      BY <1>3, <2>2
    <3>2. d \notin Underway => d \notin Underway' /\ ~HalfWritten(d)'
      BY <1>4, <1>6, <2>2 DEF Underway, HalfWritten, Steps
    <3>3. QED
      BY <3>1, <3>2 DEF Apart
  <2>3. CASE c # b
    <3>1. c \in Underway' => c \in Underway
      BY <1>4, <2>3 DEF Underway
    <3>2. HalfWritten(d)' => HalfWritten(d)
      BY <1>3, <1>4 DEF HalfWritten
    <3>3. QED
      BY <1>2, <1>4, <2>1, <2>3, <3>1, <3>2 DEF Apart
  <2>4. QED
    BY <2>2, <2>3
<1>7. QED
  BY <1>5, <1>6 DEF ReportInv

LEMMA ReportNextKeeps ==
  ASSUME DeployInv, ReportInv, [DeployNext]_deployVars
  PROVE  ReportInv'
<1>1. CASE UNCHANGED <<build, convexEnv>>
  BY <1>1 DEF ReportInv, Reported, Apart, HalfWritten, Underway
<1>2. InstanceStarts \/ RequestBoots \/ UNCHANGED deployVars => UNCHANGED <<build, convexEnv>>
  BY DEF InstanceStarts, RequestBoots, deployVars
<1>3. QED
  BY <1>1, <1>2, StartBuildReports, OtherStepsReport, KeyStepsReport DEF DeployNext

LEMMA ReportInvariant == DeploySpec => []ReportInv
<1>1. ASSUME DeployInit PROVE ReportInv
  <2>1. convexEnv.key = 0 /\ \A b \in Builds : build[b].at = "none"
    BY <1>1 DEF DeployInit, NoBuild
  <2>2. QED
    BY <2>1, BuildNumbers DEF ReportInv, Reported, Apart, HalfWritten, Underway, Steps, Past
<1>2. QED
  BY <1>1, ReportNextKeeps, DeployInvariant, PTL DEF DeploySpec

\* Every variable has its type.
THEOREM DeployTyped == DeploySpec => []DeployTypeOK
<1>1. DeployInv => DeployTypeOK
  BY DEF DeployInv
<1>2. QED
  BY <1>1, DeployInvariant, PTL

\* Builds that run one after the other leave the login's two keys a pair, a half pair
\* is never of a build that ran alone and reported success, and an
\* instance of the latest one that reported no failure presents the token Convex
\* compares with, for any number of builds, secrets and faults
\* (setup-convex-env.mjs, derive.ts).
THEOREM DeploymentsAreSound == DeploySpec => []DeploySound
<1>1. DeployInv => KeysArePaired
  <2> SUFFICES ASSUME DeployInv, Underway = {}, ~torn, \A b \in Builds : build[b].at # "none" => build[b].alone,
                      convexEnv.key # 0
               PROVE  convexEnv.jwks = convexEnv.key
    BY DEF KeysArePaired
  <2>1. Serial
    BY DEF Serial, Begun
  <2>2. \A b \in Builds : ~HalfWritten(b)
    BY DEF HalfWritten, Underway, Steps
  <2>3. QED
    BY <2>1, <2>2 DEF DeployInv, Paired
<1>2. DeployInv => InstanceIsBelieved
  <2> DEFINE b == instance.of
  <2> SUFFICES ASSUME DeployInv, instance.app = "up", build[b].provisions, build[b].alone, ~build[b].failed,
                      \A c \in b + 1..MaxBuilds : build[c].at = "none",
                      ~(build[b].with.root = "none" /\ build[b].with.token = "padded")
               PROVE  convexEnv.token = TokenOf(build[b].with)
    BY DEF InstanceIsBelieved
  <2>1. b # 0 /\ Boots(build[b].with) /\ build[b].at = "done"
    BY DEF DeployInv
  <2>2. b \in Builds
    BY <2>1, DeployParts, BuildNumbers
  <2>3. Provisioned(b)
    BY <2>1 DEF Provisioned
  <2> HIDE DEF b
  <2>4. \A c \in Builds : c > b => c \in b + 1..MaxBuilds
    BY <2>2, DeploymentAssumption DEF Builds
  <2>5. NoneAfter(b)
    BY <2>4 DEF NoneAfter, Begun
  <2>6. QED
    BY <2>2, <2>3, <2>5 DEF DeployInv
<1>3. ReportInv => HalvesAreReported
  BY DEF ReportInv, Reported, HalvesAreReported, Past
<1>4. DeployInv /\ ReportInv => DeploySound
  BY <1>1, <1>2, <1>3 DEF DeploySound
<1>5. QED
  BY <1>4, DeployInvariant, ReportInvariant, PTL

-----------------------------------------------------------------------------
(* The credential on the machine.                                           *)

\* What a command under way holds, and where its device's credential is: between
\* the vault and the file, in the vault unless a revoke-local went there too.
AtFile == {"open", "write", "check"}

HoldsOK(s, v, gone) ==
  /\ s.at \in Saving => s.kind \in {"pair", "run"}
  /\ s.at \in {"lookup", "running"} => s.kind = "run"
  /\ s.at \in {"drop", "remove"} => s.kind = "revoke"
  /\ s.at \in {"vault", "drop", "lookup"} => s.native
  /\ s.at \in UnderWay => s.device \in Devices
  /\ s.at \in Saving \cup {"running"} => s.secret = s.device
  /\ s.at \in AtFile /\ s.native /\ s.device \notin gone => v[s.device] = s.device

\* What a command that no other overlapped finds as it left it.
AloneOK(s, v, f, n) ==
  s.alone =>
    /\ s.at \in AtFile /\ s.native => v[s.device] = s.device
    /\ s.at = "write" => f = Blank("torn") /\ s.handle = n
    /\ s.at = "check" => f.kind = "whole" /\ f.device = s.device /\ f.secret = IF s.native THEN Ref ELSE s.secret
    /\ s.at = "remove" /\ s.native => v[s.device] = NoDevice

\* A file that can be read names a device and its own secret, and a reference in it
\* can be followed.
FileOK(f, v, gone) ==
  f.kind = "whole" =>
    /\ f.device \in Devices /\ f.secret \in {f.device, Ref}
    /\ f.secret = Ref /\ f.device \notin gone => v[f.device] = f.device

VaultOK(v) == \A d \in Devices : v[d] \in {d, NoDevice}

LocalInv ==
  /\ LocalTypeOK
  /\ FileOK(file, vault, cleared)
  /\ VaultOK(vault)
  /\ \A c \in Commands : HoldsOK(command[c], vault, cleared) /\ AloneOK(command[c], vault, file, removals)

LocalSets == [Devices -> Devices \cup {NoDevice}]

LEMMA LocalTypes ==
  ASSUME LocalInv
  PROVE  /\ file \in ConfigFile /\ removals \in Nat /\ vault \in LocalSets
         /\ command \in [Commands -> Command] /\ cleared \subseteq Devices /\ localFaults \in 0..MaxLocalFaults
         /\ Devices \subseteq Nat /\ Ref \notin Devices /\ NoDevice \notin Devices /\ NoDevice # Ref
BY LocalAssumption DEF LocalInv, LocalTypeOK, LocalSets, Devices

LEMMA LocalInitOK == LocalInit => LocalInv
<1>1. SUFFICES ASSUME LocalInit
               PROVE  LocalInv
  OBVIOUS
<1>2. LocalTypeOK
  <2>1. file \in ConfigFile
    BY <1>1 DEF LocalInit, Blank, ConfigFile
  <2>2. command \in [Commands -> Command]
    BY <1>1 DEF LocalInit, Command
  <2>3. vault \in [Devices -> Devices \cup {NoDevice}]
    BY <1>1 DEF LocalInit
  <2>4. removals \in Nat /\ cleared \subseteq Devices /\ localFaults \in 0..MaxLocalFaults
    BY <1>1, LocalAssumption DEF LocalInit
  <2>5. QED
    BY <2>1, <2>2, <2>3, <2>4 DEF LocalTypeOK
<1>3. FileOK(file, vault, cleared) /\ VaultOK(vault)
  BY <1>1 DEF LocalInit, Blank, FileOK, VaultOK
<1>4. \A c \in Commands : HoldsOK(command[c], vault, cleared) /\ AloneOK(command[c], vault, file, removals)
  BY <1>1 DEF LocalInit, HoldsOK, AloneOK, Saving, UnderWay, AtFile
<1>5. QED
  BY <1>2, <1>3, <1>4 DEF LocalInv

\* A vault entry is only ever given its own credential, or emptied by a
\* revoke-local that says so.
VaultStep(v, gone) ==
  /\ v \in LocalSets /\ gone \subseteq Devices /\ cleared \subseteq gone
  /\ \A d \in Devices : v[d] = vault[d] \/ v[d] = d \/ (v[d] = NoDevice /\ d \in gone)

LEMMA VaultStays == LocalInv => VaultStep(vault, cleared)
BY LocalTypes DEF VaultStep

\* A file that stays is as good as it was.
LEMMA FileStays ==
  ASSUME LocalInv, NEW v, NEW gone, VaultStep(v, gone)
  PROVE  FileOK(file, v, gone)
BY DEF LocalInv, FileOK, VaultStep

\* One command moves: the others keep what they hold, and those under way are not
\* alone any more.
LEMMA TurnKeeps ==
  ASSUME LocalInv, NEW c \in Commands, NEW s \in Command, Turn(c, s),
         VaultStep(vault', cleared'), file' \in ConfigFile, removals' \in Nat,
         localFaults' \in 0..MaxLocalFaults,
         FileOK(file', vault', cleared'), HoldsOK(s, vault', cleared'),
         AloneOK(s, vault', file', removals')
  PROVE  LocalInv'
<1>1. /\ vault' \in LocalSets /\ cleared' \subseteq Devices
      /\ \A d \in Devices : d \notin cleared' /\ vault[d] = d => vault'[d] = d
  BY LocalTypes DEF VaultStep
<1>2. /\ command'[c] = s
      /\ \A q \in Commands : q # c => command'[q] = [command[q] EXCEPT !.alone = @ /\ command[q].at \notin UnderWay]
      /\ DOMAIN command' = Commands
      /\ command' = [q \in Commands |-> command'[q]]
  BY DEF Turn
<1>3. ASSUME NEW q \in Commands, q # c
      PROVE  /\ command'[q] \in Command
             /\ command'[q].alone => command'[q].at \notin UnderWay
             /\ command'[q].at = command[q].at /\ command'[q].kind = command[q].kind
             /\ command'[q].native = command[q].native /\ command'[q].device = command[q].device
             /\ command'[q].secret = command[q].secret
  <2>1. command[q] \in Command /\ command[q].alone \in BOOLEAN
    BY LocalTypes DEF Command
  <2>2. command'[q] = [command[q] EXCEPT !.alone = command[q].alone /\ command[q].at \notin UnderWay]
    BY <1>2, <1>3
  <2>3. PICK b \in BOOLEAN : b = (command[q].alone /\ command[q].at \notin UnderWay)
    OBVIOUS
  <2>4. command'[q] = [command[q] EXCEPT !.alone = b]
    BY <2>2, <2>3
  <2>5. command'[q].alone = b
    BY <2>1, <2>4 DEF Command
  <2>6. QED
    BY <2>1, <2>3, <2>4, <2>5 DEF Command
<1>4. command' \in [Commands -> Command]
  BY <1>2, <1>3
<1>5. LocalTypeOK'
  BY <1>1, <1>4 DEF LocalTypeOK, LocalSets
<1>6. VaultOK(vault)'
  BY DEF LocalInv, VaultOK, VaultStep
<1>7. ASSUME NEW q \in Commands
      PROVE  HoldsOK(command[q], vault, cleared)' /\ AloneOK(command[q], vault, file, removals)'
  <2>1. CASE q = c
    BY <1>2, <2>1
  <2>2. CASE q # c
    <3>1. HoldsOK(command[q], vault, cleared)
      BY DEF LocalInv
    <3>2. HoldsOK(command[q], vault, cleared)'
      <4>1. command[q].device \notin cleared' => command[q].device \notin cleared
        BY DEF VaultStep
      <4>2. AtFile \subseteq UnderWay
        BY DEF AtFile, UnderWay, Saving
      <4>3. QED
        BY <1>1, <1>3, <2>2, <3>1, <4>1, <4>2 DEF HoldsOK
    <3>3. AloneOK(command[q], vault, file, removals)'
      BY <1>3, <2>2 DEF AloneOK, AtFile, UnderWay, Saving
    <3>4. QED
      BY <3>2, <3>3
  <2>3. QED
    BY <2>1, <2>2
<1>8. QED
  BY <1>5, <1>6, <1>7 DEF LocalInv

\* What one command goes on as: its state changes, its data stays.
LEMMA GoesAs ==
  ASSUME LocalInv, NEW c \in Commands, NEW at \in UnderWay \cup {"done", "failed", "dead"}
  PROVE  LET s == [command[c] EXCEPT !.at = at] IN
         /\ s \in Command /\ s.at = at /\ s.kind = command[c].kind /\ s.native = command[c].native
         /\ s.device = command[c].device /\ s.secret = command[c].secret /\ s.handle = command[c].handle
         /\ s.alone = command[c].alone
<1>1. command[c] \in Command
  BY LocalTypes
<1>2. QED
  BY <1>1 DEF Command

LEMMA CommandHolds ==
  ASSUME LocalInv, NEW c \in Commands
  PROVE  /\ command[c] \in Command
         /\ HoldsOK(command[c], vault, cleared) /\ AloneOK(command[c], vault, file, removals)
BY LocalTypes DEF LocalInv

\* Where a save that ends leaves its command.
LEMMA AfterSaveIs ==
  ASSUME LocalInv, NEW c \in Commands, NEW at \in {"done", "failed"}, command[c].at \in Saving
  PROVE  /\ AfterSave(c, at) \in UnderWay \cup {"done", "failed", "dead"}
         /\ AfterSave(c, at) \in {"running", at}
         /\ AfterSave(c, at) = "running" => command[c].kind = "run"
BY DEF AfterSave, UnderWay

-----------------------------------------------------------------------------
LEMMA LocalFaultCounts ==
  ASSUME LocalInv, LocalFault
  PROVE  localFaults' \in 0..MaxLocalFaults
BY LocalTypes, LocalAssumption DEF LocalFault

\* A command that ends, or goes on running, leaves nothing to be kept.
LEMMA EndsOK ==
  ASSUME LocalInv, NEW c \in Commands, NEW at \in {"done", "failed", "dead", "running"}, Goes(c, at),
         at = "running" => command[c].at \in Saving /\ command[c].kind = "run",
         VaultStep(vault', cleared'), UNCHANGED <<file, removals>>, localFaults' \in 0..MaxLocalFaults
  PROVE  LocalInv'
<1> DEFINE s == [command[c] EXCEPT !.at = at]
<1>1. /\ s \in Command /\ s.at = at /\ s.kind = command[c].kind /\ s.native = command[c].native
      /\ s.device = command[c].device /\ s.secret = command[c].secret
  BY GoesAs DEF UnderWay
<1>2. Turn(c, s)
  BY DEF Goes
<1>3. HoldsOK(s, vault', cleared')
  BY <1>1, CommandHolds DEF HoldsOK, Saving, UnderWay, AtFile
<1>4. AloneOK(s, vault', file', removals')
  BY <1>1 DEF AloneOK, AtFile
<1>5. file' \in ConfigFile /\ removals' \in Nat /\ FileOK(file', vault', cleared')
  BY LocalTypes, FileStays
<1> HIDE DEF s
<1>6. QED
  BY <1>1, <1>2, <1>3, <1>4, <1>5, TurnKeeps

LEMMA StoreSecretOK ==
  ASSUME LocalInv, NEW c \in Commands, StoreSecret(c) \/ StoreSecretFails(c)
  PROVE  LocalInv'
<1> DEFINE d == command[c].device
           stored == [vault EXCEPT ![d] = command[c].secret]
<1>1. command[c].at = "vault"
  BY DEF StoreSecret, StoreSecretFails
<1>2. /\ d \in Devices /\ command[c].secret = d /\ command[c].native /\ command[c].kind \in {"pair", "run"}
      /\ command[c] \in Command
  BY <1>1, CommandHolds DEF HoldsOK, Saving, UnderWay
<1>3. VaultStep(vault, cleared) /\ VaultStep(stored, cleared) /\ stored[d] = d
  BY <1>2, LocalTypes DEF VaultStep, LocalSets
<1>4. ASSUME StoreSecret(c)
      PROVE  LocalInv'
  <2> DEFINE s == [command[c] EXCEPT !.at = "open"]
  <2>1. vault' = stored /\ Turn(c, s) /\ UNCHANGED <<file, removals, cleared, localFaults>>
    BY <1>4 DEF StoreSecret, Slot, Goes
  <2>2. /\ s \in Command /\ s.at = "open" /\ s.kind = command[c].kind /\ s.native = command[c].native
        /\ s.device = d /\ s.secret = command[c].secret
    BY GoesAs DEF UnderWay, Saving
  <2> HIDE DEF s, d, stored
  <2>3. HoldsOK(s, vault', cleared') /\ AloneOK(s, vault', file', removals')
    BY <1>2, <1>3, <2>1, <2>2 DEF HoldsOK, AloneOK, AtFile, Saving, UnderWay
  <2>4. FileOK(file', vault', cleared') /\ VaultStep(vault', cleared')
    BY <1>3, <2>1, FileStays
  <2>5. file' \in ConfigFile /\ removals' \in Nat /\ localFaults' \in 0..MaxLocalFaults
    BY <2>1, LocalTypes
  <2>6. QED
    BY <2>1, <2>2, <2>3, <2>4, <2>5, TurnKeeps
<1>5. ASSUME StoreSecretFails(c)
      PROVE  LocalInv'
  <2>1. vault' \in {vault, stored} /\ Goes(c, AfterSave(c, "failed")) /\ UNCHANGED <<file, removals, cleared>> /\ LocalFault
    BY <1>5 DEF StoreSecretFails, Slot
  <2>2. VaultStep(vault', cleared')
    BY <1>3, <2>1
  <2>3. command[c].at \in Saving
    BY <1>1 DEF Saving
  <2>4. QED
    BY <2>1, <2>2, <2>3, AfterSaveIs, LocalFaultCounts, EndsOK
<1>6. QED
  BY <1>4, <1>5

LEMMA OpenFileOK ==
  ASSUME LocalInv, NEW c \in Commands, OpenFile(c)
  PROVE  LocalInv'
<1> DEFINE s == [command[c] EXCEPT !.at = "write", !.handle = removals]
<1>1. command[c].at = "open" /\ command[c] \in Command
  BY CommandHolds DEF OpenFile
<1>2. file' = Blank("torn") /\ Turn(c, s) /\ UNCHANGED <<removals, vault, cleared, localFaults>>
  BY DEF OpenFile
<1>3. /\ s \in Command /\ s.at = "write" /\ s.kind = command[c].kind /\ s.native = command[c].native
      /\ s.device = command[c].device /\ s.secret = command[c].secret /\ s.handle = removals
      /\ s.alone = command[c].alone
  BY <1>1, LocalTypes DEF Command, UnderWay, Saving
<1> HIDE DEF s
<1>4. HoldsOK(s, vault', cleared')
  BY <1>1, <1>2, <1>3, CommandHolds DEF HoldsOK, Saving, UnderWay, AtFile
<1>5. AloneOK(s, vault', file', removals')
  BY <1>1, <1>2, <1>3, CommandHolds DEF AloneOK, AtFile
<1>6. file' \in ConfigFile /\ FileOK(file', vault', cleared')
  BY <1>2 DEF Blank, ConfigFile, FileOK
<1>7. VaultStep(vault', cleared') /\ removals' \in Nat /\ localFaults' \in 0..MaxLocalFaults
  BY <1>2, VaultStays, LocalTypes
<1>8. QED
  BY <1>2, <1>3, <1>4, <1>5, <1>6, <1>7, TurnKeeps

\* What is written names the device of the command and, without a vault, its own
\* credential.
LEMMA WriteFileOK ==
  ASSUME LocalInv, NEW c \in Commands, WriteFile(c)
  PROVE  LocalInv'
<1> DEFINE s == [command[c] EXCEPT !.at = "check"]
<1>1. command[c].at = "write" /\ Turn(c, s) /\ UNCHANGED <<removals, vault, cleared, localFaults>>
  BY DEF WriteFile, Goes
<1>2. /\ s \in Command /\ s.at = "check" /\ s.kind = command[c].kind /\ s.native = command[c].native
      /\ s.device = command[c].device /\ s.secret = command[c].secret /\ s.handle = command[c].handle
      /\ s.alone = command[c].alone
  BY GoesAs DEF UnderWay, Saving
<1> HIDE DEF s
<1>3. /\ command[c] \in Command /\ command[c].device \in Devices /\ command[c].secret = command[c].device
      /\ command[c].native /\ command[c].device \notin cleared => vault[command[c].device] = command[c].device
      /\ command[c].alone => file = Blank("torn") /\ command[c].handle = removals
  BY <1>1, CommandHolds DEF HoldsOK, AloneOK, Saving, UnderWay, AtFile
<1>4. /\ Written(c) \in ConfigFile /\ Written(c).kind = "whole" /\ Written(c).device = command[c].device
      /\ Written(c).secret = IF command[c].native THEN Ref ELSE command[c].secret
  BY <1>3 DEF Written, ConfigFile
<1>5. FileOK(Written(c), vault, cleared) /\ FileOK(Blank("torn"), vault, cleared) /\ FileOK(file, vault, cleared)
  <2>1. FileOK(Written(c), vault, cleared)
    BY <1>3, <1>4, LocalTypes DEF FileOK
  <2>2. FileOK(Blank("torn"), vault, cleared)
    BY DEF FileOK, Blank
  <2>3. QED
    BY <2>1, <2>2 DEF LocalInv
<1>6. /\ file' \in {Written(c), Blank("torn"), file}
      /\ command[c].alone => file' = Written(c)
  BY <1>1, <1>3 DEF WriteFile, Blank
<1>7. file' \in ConfigFile /\ FileOK(file', vault', cleared')
  BY <1>1, <1>4, <1>5, <1>6, LocalTypes DEF Blank, ConfigFile
<1>8. HoldsOK(s, vault', cleared')
  BY <1>1, <1>2, CommandHolds DEF HoldsOK, Saving, UnderWay, AtFile
<1>9. AloneOK(s, vault', file', removals')
  BY <1>1, <1>2, <1>4, <1>6, CommandHolds DEF AloneOK, AtFile
<1>10. VaultStep(vault', cleared') /\ removals' \in Nat /\ localFaults' \in 0..MaxLocalFaults
  BY <1>1, VaultStays, LocalTypes
<1>11. QED
  BY <1>1, <1>2, <1>7, <1>8, <1>9, <1>10, TurnKeeps

LEMMA SaveEndsOK ==
  ASSUME LocalInv, NEW c \in Commands, CheckFile(c) \/ SaveFails(c)
  PROVE  LocalInv'
<1>1. command[c].at \in Saving
  BY DEF CheckFile, SaveFails, Saving
<1>2. PICK at \in {"done", "failed"} : Goes(c, AfterSave(c, at))
  BY DEF CheckFile, SaveFails
<1>3. UNCHANGED <<file, removals, vault, cleared>> /\ localFaults' \in 0..MaxLocalFaults
  BY LocalTypes, LocalFaultCounts DEF CheckFile, SaveFails
<1>4. VaultStep(vault', cleared')
  BY <1>3, VaultStays
<1>5. QED
  BY <1>1, <1>2, <1>3, <1>4, AfterSaveIs, EndsOK

-----------------------------------------------------------------------------
\* A command that starts holds what the file says, and is alone.
LEMMA StartedOK ==
  ASSUME LocalInv, NEW c \in Commands, NEW kind \in {"pair", "run", "revoke"}, NEW native \in BOOLEAN,
         NEW at \in UnderWay \cup {"done", "failed"}, NEW d \in Devices \cup {NoDevice},
         NEW secret \in Devices \cup {NoDevice},
         Started(c, kind, native, at, d, secret), UNCHANGED <<file, removals, vault, cleared, localFaults>>,
         at \in {"vault", "open", "running", "lookup", "drop", "remove", "done", "failed"},
         at \in {"vault", "open"} => kind = "pair",
         at \in {"running", "lookup"} => kind = "run",
         at \in {"drop", "remove"} => kind = "revoke",
         at \in {"vault", "lookup", "drop"} => native,
         at \in {"open", "remove"} => ~native,
         at \in UnderWay => d \in Devices,
         at \in {"vault", "open", "running"} => secret = d
  PROVE  LocalInv'
<1> DEFINE s == [command[c] EXCEPT !.kind = kind, !.native = native, !.at = at, !.device = d, !.secret = secret]
<1>1. Turn(c, s)
  BY DEF Started
<1>2. command[c] \in Command
  BY LocalTypes
<1>3. /\ s \in Command /\ s.at = at /\ s.kind = kind /\ s.native = native
      /\ s.device = d /\ s.secret = secret
  <2>1. kind \in {"none", "pair", "run", "revoke"} /\ at \in UnderWay \cup {"idle", "done", "failed", "dead"}
    OBVIOUS
  <2>2. QED
    BY <1>2, <2>1 DEF Command
<1> HIDE DEF s
<1>4. HoldsOK(s, vault', cleared') /\ AloneOK(s, vault', file', removals')
  BY <1>3 DEF HoldsOK, AloneOK, AtFile, Saving, UnderWay
<1>5. /\ file' \in ConfigFile /\ removals' \in Nat /\ localFaults' \in 0..MaxLocalFaults
      /\ VaultStep(vault', cleared') /\ FileOK(file', vault', cleared')
  BY LocalTypes, VaultStays DEF LocalInv
<1>6. QED
  BY <1>1, <1>3, <1>4, <1>5, TurnKeeps

LEMMA PairOK ==
  ASSUME LocalInv, NEW c \in Commands, NEW native \in BOOLEAN, Pair(c, native)
  PROVE  LocalInv'
<1>1. PICK d \in Devices :
        /\ Started(c, "pair", native, FirstStep(native), d, d)
        /\ UNCHANGED <<file, removals, vault, cleared, localFaults>>
  BY DEF Pair
<1>2. /\ FirstStep(native) \in {"vault", "open"} /\ FirstStep(native) \in UnderWay
      /\ FirstStep(native) = "vault" <=> native
  BY DEF FirstStep, UnderWay, Saving
<1> DEFINE at == FirstStep(native)
<1> HIDE DEF at
<1>3. Started(c, "pair", native, at, d, d) /\ at \in {"vault", "open"} /\ at \in UnderWay /\ (at = "vault" <=> native)
  BY <1>1, <1>2 DEF at
<1>4. QED
  BY <1>1, <1>3, StartedOK

LEMMA RunAgentOK ==
  ASSUME LocalInv, NEW c \in Commands, NEW native \in BOOLEAN, RunAgent(c, native)
  PROVE  LocalInv'
<1>1. /\ file.kind = "whole" => file.device \in Devices /\ file.secret \in {file.device, Ref}
      /\ file \in ConfigFile
  BY LocalTypes DEF LocalInv, FileOK
<1>2. UNCHANGED <<file, removals, vault, cleared, localFaults>>
  BY DEF RunAgent
<1>3. CASE Started(c, "run", native, "failed", NoDevice, NoDevice)
  BY <1>2, <1>3, StartedOK DEF UnderWay, Saving
<1>4. CASE file.kind = "whole" /\ file.secret # Ref /\ Started(c, "run", native, "running", file.device, file.secret)
  <2>1. file.device \in Devices /\ file.secret = file.device /\ "running" \in UnderWay
    BY <1>1, <1>4 DEF UnderWay
  <2>2. QED
    BY <1>2, <1>4, <2>1, StartedOK
<1>5. CASE /\ file.kind = "whole" /\ file.secret = Ref
           /\ Started(c, "run", native, IF native THEN "lookup" ELSE "failed", file.device, NoDevice)
  <2>1. CASE native
    <3>1. PICK d \in Devices : Started(c, "run", native, "lookup", d, NoDevice)
      BY <1>1, <1>5, <2>1
    <3>2. "lookup" \in UnderWay
      BY DEF UnderWay
    <3>3. QED
      BY <1>2, <2>1, <3>1, <3>2, StartedOK
  <2>2. CASE ~native
    <3>1. Started(c, "run", native, "failed", file.device, NoDevice) /\ file.device \in Devices
      BY <1>1, <1>5, <2>2
    <3>2. QED
      BY <1>2, <3>1, StartedOK DEF UnderWay, Saving
  <2>3. QED
    BY <2>1, <2>2
<1>6. QED
  BY <1>3, <1>4, <1>5 DEF RunAgent

LEMMA RevokeLocalOK ==
  ASSUME LocalInv, NEW c \in Commands, NEW native \in BOOLEAN, RevokeLocal(c, native)
  PROVE  LocalInv'
<1>1. file.kind = "whole" => file.device \in Devices
  BY DEF LocalInv, FileOK
<1>2. UNCHANGED <<file, removals, vault, cleared, localFaults>>
  BY DEF RevokeLocal
<1>3. ASSUME NEW at \in {"done", "failed"}, Started(c, "revoke", native, at, NoDevice, NoDevice)
      PROVE  LocalInv'
  BY <1>2, <1>3, StartedOK DEF UnderWay, Saving
<1>4. ASSUME file.kind = "whole",
             NEW at \in {"drop", "failed", "remove"},
             at = IF native THEN "drop" ELSE IF file.secret = Ref THEN "failed" ELSE "remove",
             Started(c, "revoke", native, at, file.device, NoDevice)
      PROVE  LocalInv'
  <2>1. at \in UnderWay \cup {"done", "failed"} /\ (at = "drop" => native) /\ (at = "remove" => ~native)
    BY <1>4 DEF UnderWay
  <2>2. file.device \in Devices
    BY <1>1, <1>4
  <2>3. QED
    BY <1>2, <1>4, <2>1, <2>2, StartedOK
<1>5. QED
  BY <1>3, <1>4 DEF RevokeLocal

LEMMA LookUpOK ==
  ASSUME LocalInv, NEW c \in Commands, LookUp(c)
  PROVE  LocalInv'
<1> DEFINE d     == command[c].device
           found == vault[d]
           s     == [command[c] EXCEPT !.at = IF found = NoDevice THEN "failed" ELSE "running", !.secret = found]
<1>1. command[c].at = "lookup" /\ Turn(c, s) /\ UNCHANGED <<file, removals, vault, cleared, localFaults>>
  BY DEF LookUp, Slot
<1>2. /\ command[c] \in Command /\ d \in Devices /\ command[c].kind = "run"
      /\ found \in {d, NoDevice}
  BY <1>1, CommandHolds DEF HoldsOK, UnderWay, LocalInv, VaultOK
<1>3. /\ s \in Command /\ s.kind = "run" /\ s.device = d
      /\ s.at \in {"failed", "running"} /\ (s.at = "running" => s.secret = d)
  BY <1>2 DEF Command, UnderWay
<1> HIDE DEF s, d, found
<1>4. HoldsOK(s, vault', cleared') /\ AloneOK(s, vault', file', removals')
  BY <1>2, <1>3 DEF HoldsOK, AloneOK, AtFile, Saving, UnderWay
<1>5. /\ file' \in ConfigFile /\ removals' \in Nat /\ localFaults' \in 0..MaxLocalFaults
      /\ VaultStep(vault', cleared') /\ FileOK(file', vault', cleared')
  BY <1>1, LocalTypes, VaultStays DEF LocalInv
<1>6. QED
  BY <1>1, <1>3, <1>4, <1>5, TurnKeeps

\* What a run saves with the key it learned is what it loaded.
LEMMA PersistOK ==
  ASSUME LocalInv, NEW c \in Commands, Persist(c)
  PROVE  LocalInv'
<1> DEFINE at == FirstStep(command[c].native)
           s  == [command[c] EXCEPT !.at = at, !.learned = TRUE]
<1>1. command[c].at = "running" /\ Turn(c, s) /\ UNCHANGED <<file, removals, vault, cleared, localFaults>>
  BY DEF Persist
<1>2. /\ command[c] \in Command /\ command[c].device \in Devices /\ command[c].kind = "run"
      /\ command[c].secret = command[c].device
  BY <1>1, CommandHolds DEF HoldsOK, UnderWay
<1>3. /\ at \in {"vault", "open"} /\ at \in UnderWay
      /\ at = "vault" <=> command[c].native
  BY <1>2 DEF FirstStep, UnderWay, Saving, Command
<1> HIDE DEF at
<1>4. /\ s \in Command /\ s.kind = "run" /\ s.device = command[c].device /\ s.secret = command[c].secret
      /\ s.native = command[c].native /\ s.at = at
  BY <1>2, <1>3 DEF Command
<1> HIDE DEF s
<1>5. HoldsOK(s, vault', cleared') /\ AloneOK(s, vault', file', removals')
  BY <1>2, <1>3, <1>4 DEF HoldsOK, AloneOK, AtFile, Saving, UnderWay
<1>6. /\ file' \in ConfigFile /\ removals' \in Nat /\ localFaults' \in 0..MaxLocalFaults
      /\ VaultStep(vault', cleared') /\ FileOK(file', vault', cleared')
  BY <1>1, LocalTypes, VaultStays DEF LocalInv
<1>7. QED
  BY <1>1, <1>4, <1>5, <1>6, TurnKeeps

-----------------------------------------------------------------------------
\* A deleted entry is noted as such.
LEMMA DropIsVaultStep ==
  ASSUME LocalInv, NEW c \in Commands, command[c].at = "drop"
  PROVE  /\ command[c].device \in Devices
         /\ VaultStep(Dropped(c), cleared \cup {command[c].device})
         /\ VaultStep(vault, cleared \cup {command[c].device})
         /\ Dropped(c)[command[c].device] = NoDevice
<1>1. command[c].device \in Devices
  BY CommandHolds DEF HoldsOK, UnderWay
<1>2. vault \in LocalSets /\ cleared \subseteq Devices
  BY LocalTypes
<1>3. Dropped(c) = [vault EXCEPT ![command[c].device] = NoDevice]
  BY DEF Dropped, Slot
<1>4. QED
  BY <1>1, <1>2, <1>3 DEF VaultStep, LocalSets

LEMMA DropSecretOK ==
  ASSUME LocalInv, NEW c \in Commands, DropSecret(c)
  PROVE  LocalInv'
<1> DEFINE s == [command[c] EXCEPT !.at = "remove"]
<1>1. /\ command[c].at = "drop" /\ vault' = Dropped(c) /\ cleared' = cleared \cup {command[c].device}
      /\ Turn(c, s) /\ UNCHANGED <<file, removals, localFaults>>
  BY DEF DropSecret, Goes
<1>2. /\ s \in Command /\ s.at = "remove" /\ s.kind = command[c].kind /\ s.device = command[c].device
  BY GoesAs DEF UnderWay
<1>3. command[c].kind = "revoke" /\ command[c].device \in Devices
  BY <1>1, CommandHolds DEF HoldsOK, UnderWay
<1> HIDE DEF s
<1>4. VaultStep(vault', cleared') /\ vault'[command[c].device] = NoDevice
  BY <1>1, DropIsVaultStep
<1>5. HoldsOK(s, vault', cleared') /\ AloneOK(s, vault', file', removals')
  BY <1>2, <1>3, <1>4 DEF HoldsOK, AloneOK, AtFile, Saving
<1>6. /\ file' \in ConfigFile /\ removals' \in Nat /\ localFaults' \in 0..MaxLocalFaults
      /\ FileOK(file', vault', cleared')
  BY <1>1, <1>4, LocalTypes, FileStays
<1>7. QED
  BY <1>1, <1>2, <1>4, <1>5, <1>6, TurnKeeps

LEMMA DropFailsOK ==
  ASSUME LocalInv, NEW c \in Commands, DropFails(c)
  PROVE  LocalInv'
<1>1. VaultStep(vault', cleared')
  BY DropIsVaultStep DEF DropFails
<1>2. localFaults' \in 0..MaxLocalFaults
  BY LocalFaultCounts DEF DropFails
<1>3. QED
  BY <1>1, <1>2, EndsOK DEF DropFails

LEMMA RemoveFileOK ==
  ASSUME LocalInv, NEW c \in Commands, RemoveFile(c)
  PROVE  LocalInv'
<1> DEFINE s == [command[c] EXCEPT !.at = "done"]
<1>1. Turn(c, s) /\ file' = Blank("absent") /\ UNCHANGED <<vault, cleared, localFaults>>
  BY DEF RemoveFile, Goes
<1>2. s \in Command /\ s.at = "done"
  BY GoesAs
<1> HIDE DEF s
<1>3. HoldsOK(s, vault', cleared') /\ AloneOK(s, vault', file', removals')
  BY <1>2 DEF HoldsOK, AloneOK, AtFile, Saving, UnderWay
<1>4. file' \in ConfigFile /\ FileOK(file', vault', cleared')
  BY <1>1 DEF Blank, ConfigFile, FileOK
<1>5. removals' \in Nat /\ localFaults' \in 0..MaxLocalFaults /\ VaultStep(vault', cleared')
  BY <1>1, LocalTypes, VaultStays DEF RemoveFile
<1>6. QED
  BY <1>1, <1>2, <1>3, <1>4, <1>5, TurnKeeps

LEMMA KilledOK ==
  ASSUME LocalInv, NEW c \in Commands, Killed(c)
  PROVE  LocalInv'
BY LocalFaultCounts, VaultStays, EndsOK DEF Killed

LEMMA LocalStepOK == LocalInv /\ [LocalNext]_localVars => LocalInv'
<1>1. SUFFICES ASSUME LocalInv, [LocalNext]_localVars
               PROVE  LocalInv'
  OBVIOUS
<1>2. CASE UNCHANGED localVars
  BY <1>1, <1>2 DEF localVars, LocalInv, LocalTypeOK, VaultOK
<1>3. CASE LocalNext
  <2>1. PICK c \in Commands :
          \/ \E native \in BOOLEAN : Pair(c, native) \/ RunAgent(c, native) \/ RevokeLocal(c, native)
          \/ StoreSecret(c) \/ StoreSecretFails(c) \/ OpenFile(c) \/ WriteFile(c) \/ CheckFile(c) \/ SaveFails(c)
          \/ LookUp(c) \/ Persist(c)
          \/ DropSecret(c) \/ DropFails(c) \/ RemoveFile(c)
          \/ Killed(c)
    BY <1>3 DEF LocalNext
  <2>2. QED
    BY <1>1, <2>1, PairOK, RunAgentOK, RevokeLocalOK, StoreSecretOK, OpenFileOK, WriteFileOK, SaveEndsOK, LookUpOK,
       PersistOK, DropSecretOK, DropFailsOK, RemoveFileOK, KilledOK
<1>4. QED
  BY <1>1, <1>2, <1>3

-----------------------------------------------------------------------------
\* A command only ends by a step of its own.
LEMMA EndsByItself ==
  ASSUME LocalInv, NEW c \in Commands, NEW q \in Commands, NEW s, Turn(q, s),
         command[c].at \in UnderWay, command'[c].at = "done"
  PROVE  q = c /\ s.at = "done" /\ command'[c] = s
<1>1. command'[q] = s /\ (q # c => command'[c] = [command[c] EXCEPT !.alone = @ /\ command[c].at \notin UnderWay])
  BY DEF Turn
<1>2. q # c => command'[c].at = command[c].at
  BY <1>1, LocalTypes DEF Command
<1>3. command[c].at # "done"
  BY DEF UnderWay, Saving
<1>4. QED
  BY <1>1, <1>2, <1>3

\* Of the steps of a command, the last of a save and the last of a removal end it.
LEMMA WhatEnds ==
  ASSUME LocalInv, LocalNext, NEW c \in Commands, command[c].at \in UnderWay, command'[c].at = "done"
  PROVE  CheckFile(c) \/ RemoveFile(c)
<1>1. PICK q \in Commands :
        \/ \E native \in BOOLEAN : Pair(q, native) \/ RunAgent(q, native) \/ RevokeLocal(q, native)
        \/ StoreSecret(q) \/ StoreSecretFails(q) \/ OpenFile(q) \/ WriteFile(q) \/ CheckFile(q) \/ SaveFails(q)
        \/ LookUp(q) \/ Persist(q)
        \/ DropSecret(q) \/ DropFails(q) \/ RemoveFile(q)
        \/ Killed(q)
  BY DEF LocalNext
<1>2. command[q] \in Command /\ command[c].at # "idle"
  BY LocalTypes DEF UnderWay, Saving
<1>3. ~\E native \in BOOLEAN : Pair(q, native) \/ RunAgent(q, native) \/ RevokeLocal(q, native)
  <2>1. SUFFICES ASSUME NEW s, Turn(q, s), command[q].at = "idle"
                 PROVE  FALSE
    BY DEF Pair, RunAgent, RevokeLocal, Started
  <2>2. QED
    BY <1>2, <2>1, EndsByItself
<1>4. ASSUME NEW at, Goes(q, at), at # "done"
      PROVE  FALSE
  <2>1. PICK s : s = [command[q] EXCEPT !.at = at]
    OBVIOUS
  <2>2. s.at = at /\ Turn(q, s)
    BY <1>2, <1>4, <2>1 DEF Command, Goes
  <2>3. QED
    BY <1>4, <2>2, EndsByItself
<1>5. ~StoreSecret(q) /\ ~WriteFile(q) /\ ~DropSecret(q) /\ ~DropFails(q) /\ ~Killed(q)
  BY <1>4 DEF StoreSecret, WriteFile, DropSecret, DropFails, Killed
<1>6. ~StoreSecretFails(q) /\ ~SaveFails(q)
  BY <1>4 DEF StoreSecretFails, SaveFails, AfterSave
<1>7. ~OpenFile(q)
  <2>1. SUFFICES ASSUME NEW s, s = [command[q] EXCEPT !.at = "write", !.handle = removals], Turn(q, s)
                 PROVE  FALSE
    BY DEF OpenFile
  <2>2. s.at = "write"
    BY <1>2, <2>1 DEF Command
  <2>3. Turn(q, s)
    BY <2>1
  <2>4. QED
    BY <2>2, <2>3, EndsByItself
<1>8. ~LookUp(q)
  <2>1. SUFFICES ASSUME NEW found, NEW s, Turn(q, s),
                        s = [command[q] EXCEPT !.at = IF found = NoDevice THEN "failed" ELSE "running", !.secret = found]
                 PROVE  FALSE
    BY DEF LookUp
  <2>2. s.at # "done"
    BY <1>2, <2>1 DEF Command
  <2>3. Turn(q, s)
    BY <2>1
  <2>4. QED
    BY <2>2, <2>3, EndsByItself
<1>9. ~Persist(q)
  <2>1. SUFFICES ASSUME NEW s, Turn(q, s),
                        s = [command[q] EXCEPT !.at = FirstStep(command[q].native), !.learned = TRUE]
                 PROVE  FALSE
    BY DEF Persist
  <2>2. s.at # "done"
    BY <1>2, <2>1 DEF Command, FirstStep
  <2>3. Turn(q, s)
    BY <2>1
  <2>4. QED
    BY <2>2, <2>3, EndsByItself
<1>10. CheckFile(q) \/ RemoveFile(q)
  BY <1>1, <1>3, <1>5, <1>6, <1>7, <1>8, <1>9
<1>11. q = c
  BY <1>10, EndsByItself DEF CheckFile, RemoveFile, Goes
<1>12. QED
  BY <1>10, <1>11

LEMMA EndsAsToldStep == LocalInv /\ [LocalNext]_localVars => [EndsAsTold]_localVars
<1>1. SUFFICES ASSUME LocalInv, LocalNext, NEW c \in Commands,
                      command[c].at \in UnderWay, command'[c].at = "done", command'[c].alone
               PROVE  \/ command[c].kind = "pair" /\ Loads(c, command[c].device)'
                      \/ /\ command[c].kind = "revoke" /\ file'.kind = "absent"
                         /\ command[c].native => vault'[Slot(command[c].device)] = NoDevice
  BY DEF EndsAsTold
<1>2. CheckFile(c) \/ RemoveFile(c)
  BY <1>1, WhatEnds
<1>3. /\ command[c] \in Command
      /\ HoldsOK(command[c], vault, cleared) /\ AloneOK(command[c], vault, file, removals)
  BY <1>1, CommandHolds
<1>4. PICK at : Goes(c, at)
  BY <1>2 DEF CheckFile, RemoveFile
<1>5. command'[c] = [command[c] EXCEPT !.at = at]
  BY <1>4 DEF Goes, Turn
<1>6. /\ command'[c].native = command[c].native /\ command'[c].device = command[c].device
      /\ command'[c].kind = command[c].kind /\ command[c].alone /\ at = "done"
  BY <1>1, <1>3, <1>5 DEF Command
<1>7. CASE CheckFile(c)
  <2>1. command[c].at = "check" /\ UNCHANGED <<file, vault>>
    BY <1>7 DEF CheckFile
  <2>2. command[c].kind = "pair"
    <3>1. Goes(c, AfterSave(c, IF file.kind = "absent" THEN "failed" ELSE "done"))
      BY <1>7 DEF CheckFile
    <3>2. [command[c] EXCEPT !.at = "running"].at = "running" /\ (command[c].kind = "run" =>
            command'[c] = [command[c] EXCEPT !.at = "running"])
      BY <1>3, <3>1 DEF Goes, Turn, AfterSave, Command
    <3>3. command[c].kind # "run"
      BY <1>1, <3>2
    <3>4. QED
      BY <1>3, <2>1, <3>3 DEF HoldsOK, Saving
  <2>3. /\ command[c].device \in Devices /\ command[c].secret = command[c].device
        /\ file.device = command[c].device /\ file.secret = IF command[c].native THEN Ref ELSE command[c].secret
        /\ command[c].native => vault[command[c].device] = command[c].device
    BY <1>3, <1>6, <2>1 DEF HoldsOK, AloneOK, AtFile, Saving, UnderWay
  <2>4. file.secret = Ref => command[c].native
    BY <1>1, <2>3, LocalTypes
  <2>5. Loads(c, command[c].device)'
    BY <1>6, <2>1, <2>3, <2>4 DEF Loads, Slot
  <2>6. QED
    BY <2>2, <2>5
<1>8. CASE RemoveFile(c)
  <2>1. command[c].at = "remove" /\ file' = Blank("absent") /\ vault' = vault
    BY <1>8 DEF RemoveFile
  <2>2. command[c].kind = "revoke" /\ (command[c].native => vault[command[c].device] = NoDevice)
    BY <1>3, <1>6, <2>1 DEF HoldsOK, AloneOK
  <2>3. QED
    BY <2>1, <2>2 DEF Blank, Slot
<1>9. QED
  BY <1>2, <1>7, <1>8

-----------------------------------------------------------------------------
\* The inductive invariant holds in every state.
THEOREM LocalInvariant == LocalSpec => []LocalInv
BY LocalInitOK, LocalStepOK, PTL DEF LocalSpec

\* Type correctness of the file, the vault and the commands.
THEOREM LocalTyped == LocalSpec => []LocalTypeOK
<1>1. LocalInv => LocalTypeOK
  BY DEF LocalInv
<1>2. QED
  BY <1>1, LocalInvariant, PTL

\* Whatever pairings, runs and removals overlap, fail or are killed: a running agent
\* has its own credential, a reference in the file can be followed unless a
\* revoke-local went there, and a command that ran alone did what it reports.
THEOREM LocalCredentialIsKept == LocalSpec => LocalSound
<1>1. LocalInv => OwnCredential /\ ReferenceHolds
  <2>1. SUFFICES ASSUME LocalInv
                 PROVE  OwnCredential /\ ReferenceHolds
    OBVIOUS
  <2>2. OwnCredential
    BY <2>1, CommandHolds DEF LocalInv, FileOK, OwnCredential, HoldsOK
  <2>3. ReferenceHolds
    BY <2>1 DEF LocalInv, FileOK, ReferenceHolds, Slot
  <2>4. QED
    BY <2>2, <2>3
<1>2. QED
  BY <1>1, LocalInvariant, EndsAsToldStep, PTL DEF LocalSpec, LocalSound

=============================================================================
