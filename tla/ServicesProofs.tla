--------------------------- MODULE ServicesProofs ---------------------------
(***************************************************************************)
(* Theorems about what several parties share without a lock of their own:  *)
(* the lease row of the gateways (GatewayLease), the replay file of the    *)
(* agents on one machine (ReplayFile), the rows behind a dashboard that    *)
(* other tabs change too (Dashboard), for any number of processes, files,  *)
(* jobs and clicks, any lease length and any clock; and about the services *)
(* together: a behaviour of MCServices is one of each of them, so that     *)
(* these theorems and those of AccessProofs, CallsProofs and SecretsProofs *)
(* speak of what its runs check.                                           *)
(***************************************************************************)
EXTENDS MCServices, AccessProofs, CallsProofs, SecretsProofs, SequenceTheorems

-----------------------------------------------------------------------------
(* The gateway lease.                                                       *)

\* The row grants no more than one lease length ahead: a new grant never
\* shortens what an earlier one confirmed.
GrantedAhead == lease.until <= leaseNow + LeaseTTL

LeaseInv == LeaseTypeOK /\ ServesUnderLease /\ GrantedAhead

-----------------------------------------------------------------------------
\* The initial state, where nothing is confirmed.
LEMMA LeaseInitInv == LeaseInit => LeaseInv
BY GatewayLeaseAssumption
   DEF LeaseInit, LeaseInv, LeaseTypeOK, LeaseRow, Holder, LeaseAnswer, NoLeaseAnswer,
       ServesUnderLease, Covered, GrantedAhead

\* A stutter.
LEMMA LeaseStutter == LeaseInv /\ UNCHANGED leaseVars => LeaseInv'
BY DEF leaseVars, LeaseInv, LeaseTypeOK, ServesUnderLease, Covered, GrantedAhead

\* Losing the lease touches neither what was confirmed nor the stop.
LEMMA LostKeeps ==
  ASSUME NEW s \in Holder
  PROVE  /\ Lost(s) \in Holder
         /\ Lost(s).until = s.until /\ Lost(s).stopped = s.stopped /\ Lost(s).awaits = s.awaits
BY DEF Lost, Holder

\* What the steps of a process have in common: the row and the clock stay, one
\* process's record changes, what it holds afterwards it held or was answered,
\* and its request to give the lease back goes out only with the stop.
LEMMA ProcessStep ==
  ASSUME LeaseInv, NEW h \in Holders, NEW s \in Holder, NEW a \in LeaseAnswer,
         NEW out \in SUBSET {"acquire", "renew", "release"},
         UNCHANGED <<leaseNow, lease>>,
         holder' = [holder EXCEPT ![h] = s],
         sent' = [sent EXCEPT ![h] = out],
         answer' = [answer EXCEPT ![h] = a],
         a.of \in {"nothing", s.awaits},
         a.until \in {0, answer[h].until},
         s.until \in {holder[h].until, answer[h].until},
         holder[h].stopped => s.stopped,
         "release" \in out => s.stopped
  PROVE  LeaseInv'
<1>1. /\ holder \in [Holders -> Holder] /\ answer \in [Holders -> LeaseAnswer]
      /\ sent \in [Holders -> SUBSET {"acquire", "renew", "release"}]
      /\ leaseNow \in Nat /\ lease \in LeaseRow
  BY DEF LeaseInv, LeaseTypeOK
<1>2. /\ holder'[h] = s /\ answer'[h] = a /\ sent'[h] = out
      /\ \A g \in Holders : g # h => /\ holder'[g] = holder[g] /\ answer'[g] = answer[g]
                                     /\ sent'[g] = sent[g]
  BY <1>1
<1>3. LeaseTypeOK'
  <2>1. /\ holder' \in [Holders -> Holder] /\ answer' \in [Holders -> LeaseAnswer]
        /\ sent' \in [Holders -> SUBSET {"acquire", "renew", "release"}]
    BY <1>1
  <2>2. \A g \in Holders : answer'[g].of \in {"nothing", holder'[g].awaits}
    BY <1>2 DEF LeaseInv, LeaseTypeOK
  <2> QED BY <1>1, <2>1, <2>2 DEF LeaseTypeOK
<1>4. ServesUnderLease'
  <2>1. ASSUME NEW g \in Holders
        PROVE  /\ ~holder'[g].stopped => /\ Covered(g, holder'[g].until)
                                         /\ Covered(g, answer'[g].until)
               /\ "release" \in sent'[g] => holder'[g].stopped
    <3>1. CASE g # h
      BY <1>2, <2>1, <3>1 DEF LeaseInv, ServesUnderLease
    <3>2. CASE g = h
      <4>1. ~holder[h].stopped => Covered(h, holder[h].until) /\ Covered(h, answer[h].until)
        BY DEF LeaseInv, ServesUnderLease
      <4>2. Covered(h, 0)
        BY <1>1 DEF Covered
      <4> QED BY <1>2, <3>2, <4>1, <4>2
    <3> QED BY <3>1, <3>2
  <2> QED BY <2>1 DEF ServesUnderLease, Covered
<1>5. GrantedAhead'
  BY DEF LeaseInv, GrantedAhead
<1> QED BY <1>3, <1>4, <1>5 DEF LeaseInv

-----------------------------------------------------------------------------
\* What the steps of the control plane have in common: the processes and the
\* clock stay, one request is served, and what is answered is 0 or until.
LEMMA ServeStep ==
  ASSUME LeaseInv, NEW h \in Holders, NEW what \in {"acquire", "renew"}, NEW until \in Nat,
         UNCHANGED <<leaseNow, holder>>, AnswerLease(h, what, until),
         lease' \in LeaseRow,
         lease'.until <= leaseNow + LeaseTTL,
         until > leaseNow => lease'.holder = h /\ until <= lease'.until,
         \A g \in Holders : lease.holder = g /\ lease.until > leaseNow =>
           lease'.holder = g /\ lease.until <= lease'.until
  PROVE  LeaseInv'
<1>1. /\ holder \in [Holders -> Holder] /\ answer \in [Holders -> LeaseAnswer]
      /\ sent \in [Holders -> SUBSET {"acquire", "renew", "release"}]
      /\ leaseNow \in Nat /\ lease \in LeaseRow
  BY DEF LeaseInv, LeaseTypeOK
<1> DEFINE a == IF holder[h].awaits = what THEN [of |-> what, until |-> until] ELSE answer[h]
<1>2. /\ a \in LeaseAnswer /\ a.of \in {"nothing", holder[h].awaits}
      /\ a.until \in {until, answer[h].until}
  BY <1>1 DEF LeaseAnswer, LeaseInv, LeaseTypeOK
<1>3. answer' = [answer EXCEPT ![h] = a] /\ sent' = [sent EXCEPT ![h] = sent[h] \ {what}]
  BY <1>1 DEF AnswerLease
<1> HIDE DEF a
<1>4. LeaseTypeOK'
  BY <1>1, <1>2, <1>3 DEF LeaseInv, LeaseTypeOK
<1>5. ASSUME NEW g \in Holders, NEW u \in Nat, Covered(g, u)
      PROVE  Covered(g, u)'
  BY <1>1, <1>5 DEF Covered, LeaseRow
<1>6. ServesUnderLease'
  <2>1. ASSUME NEW g \in Holders
        PROVE  /\ ~holder'[g].stopped => /\ Covered(g, holder[g].until)'
                                         /\ Covered(g, answer[g].until)'
               /\ "release" \in sent'[g] => holder'[g].stopped
    <3>1. holder[g].until \in Nat /\ answer[g].until \in Nat
      BY <1>1 DEF Holder, LeaseAnswer
    <3>2. "release" \in sent'[g] => holder'[g].stopped
      BY <1>1, <1>3 DEF LeaseInv, ServesUnderLease
    <3>3. ~holder[g].stopped => Covered(g, holder[g].until) /\ Covered(g, answer[g].until)
      BY DEF LeaseInv, ServesUnderLease
    <3>4. ~holder[g].stopped => Covered(g, holder[g].until)'
      BY <1>1, <3>1, <3>3 DEF Covered, LeaseRow
    <3>5. ~holder[g].stopped => Covered(g, answer[g].until)'
      <4>1. CASE g # h
        <5>1. answer'[g] = answer[g]
          BY <1>1, <1>3, <4>1
        <5> QED BY <1>1, <3>1, <3>3, <5>1 DEF Covered, LeaseRow
      <4>2. CASE g = h
        <5>1. answer'[h].until \in {until, answer[h].until}
          BY <1>1, <1>2, <1>3
        <5>2. until > leaseNow => lease'.holder = h /\ until <= lease'.until
          OBVIOUS
        <5> QED BY <1>1, <3>1, <3>3, <4>2, <5>1, <5>2 DEF Covered, LeaseRow
      <4> QED BY <4>1, <4>2
    <3> QED BY <3>2, <3>4, <3>5
  <2> QED BY <2>1 DEF ServesUnderLease
<1>7. GrantedAhead'
  BY DEF GrantedAhead
<1> QED BY <1>4, <1>6, <1>7 DEF LeaseInv

\* A grant: the row of somebody else's lease is given away only when it is over.
LEMMA GrantStep ==
  ASSUME LeaseInv, NEW h \in Holders, NEW what \in {"acquire", "renew"},
         UNCHANGED <<leaseNow, holder>>, Grant(h, what),
         lease.holder \in {NoHolder, h} \/ lease.until <= leaseNow
  PROVE  LeaseInv'
<1>1. leaseNow \in Nat /\ lease \in LeaseRow /\ LeaseTTL \in Nat \ {0} /\ NoHolder \notin Holders
  BY GatewayLeaseAssumption DEF LeaseInv, LeaseTypeOK
<1>2. lease' = [holder |-> h, until |-> leaseNow + LeaseTTL]
  BY DEF Grant
<1>3. lease.until \in Nat /\ lease.until <= leaseNow + LeaseTTL
  BY <1>1 DEF LeaseInv, GrantedAhead, LeaseRow
<1>4. lease' \in LeaseRow /\ leaseNow + LeaseTTL \in Nat
  BY <1>1, <1>2 DEF LeaseRow
<1>5. AnswerLease(h, what, leaseNow + LeaseTTL)
  BY DEF Grant
<1>6. \A g \in Holders : lease.holder = g /\ lease.until > leaseNow =>
           lease'.holder = g /\ lease.until <= lease'.until
  BY <1>1, <1>2, <1>3
<1> QED BY <1>1, <1>2, <1>4, <1>5, <1>6, ServeStep

\* A refusal answers nothing that could be served under.
LEMMA RefuseStep ==
  ASSUME LeaseInv, NEW h \in Holders, NEW what \in {"acquire", "renew"},
         UNCHANGED <<leaseNow, holder>>, Refuse(h, what)
  PROVE  LeaseInv'
<1>1. leaseNow \in Nat /\ lease \in LeaseRow /\ lease.until <= leaseNow + LeaseTTL
  BY DEF LeaseInv, LeaseTypeOK, GrantedAhead
<1>2. lease' = lease /\ AnswerLease(h, what, 0)
  BY DEF Refuse
<1>3. lease.until \in Nat
  BY <1>1 DEF LeaseRow
<1>4. ~(0 > leaseNow)
  BY <1>1
<1> QED BY <1>1, <1>2, <1>3, <1>4, ServeStep

-----------------------------------------------------------------------------
\* Each action keeps the invariant.
LEMMA LeaseInductive == LeaseInv /\ [LeaseNext]_leaseVars => LeaseInv'
<1> SUFFICES ASSUME LeaseInv, LeaseNext PROVE LeaseInv'
  BY LeaseStutter
<1> USE DEF LeaseInv
<1>0. /\ holder \in [Holders -> Holder] /\ answer \in [Holders -> LeaseAnswer]
      /\ sent \in [Holders -> SUBSET {"acquire", "renew", "release"}]
      /\ leaseNow \in Nat /\ lease \in LeaseRow /\ LeaseTTL \in Nat \ {0}
  BY GatewayLeaseAssumption DEF LeaseTypeOK
<1>N. NoLeaseAnswer \in LeaseAnswer /\ NoLeaseAnswer.of = "nothing" /\ NoLeaseAnswer.until = 0
  BY DEF NoLeaseAnswer, LeaseAnswer
<1>T. CASE LeaseTick
  <2>1. leaseNow' = leaseNow + 1 /\ UNCHANGED <<lease, holder, sent, answer>>
    BY <1>T DEF LeaseTick
  <2>2. LeaseTypeOK'
    BY <2>1, <1>0 DEF LeaseTypeOK
  <2>3. GrantedAhead'
    BY <2>1, <1>0 DEF GrantedAhead, LeaseRow
  <2>4. ServesUnderLease'
    <3>1. \A h \in Holders : holder[h].until \in Nat /\ answer[h].until \in Nat
      BY <1>0 DEF Holder, LeaseAnswer
    <3> QED BY <2>1, <3>1, <1>0 DEF ServesUnderLease, Covered
  <2> QED BY <2>2, <2>3, <2>4
<1>P. ASSUME NEW h \in Holders,
             \/ AcquireLease(h) \/ RecvAcquired(h) \/ RenewNow(h) \/ RecvRenewed(h)
             \/ LeaseCallFails(h) \/ ExpiryWatch(h) \/ StopLease(h)
             \/ ServeAcquire(h) \/ ServeRenew(h) \/ ServeRelease(h)
      PROVE  LeaseInv'
  <2>0. /\ holder[h] \in Holder /\ answer[h] \in LeaseAnswer
        /\ sent[h] \in SUBSET {"acquire", "renew", "release"}
        /\ answer[h].of \in {"nothing", holder[h].awaits}
        /\ "release" \in sent[h] => holder[h].stopped
        /\ holder = [holder EXCEPT ![h] = holder[h]]
        /\ sent = [sent EXCEPT ![h] = sent[h]]
        /\ answer = [answer EXCEPT ![h] = answer[h]]
    BY <1>0 DEF LeaseTypeOK, ServesUnderLease
  <2>1. CASE AcquireLease(h)
    <3> DEFINE s == [holder[h] EXCEPT !.awaits = "acquire"]
    <3>1. /\ s \in Holder /\ s.until = holder[h].until /\ s.stopped = holder[h].stopped
          /\ s.awaits = "acquire" /\ holder[h].awaits = "nothing"
      BY <2>0, <2>1 DEF Holder, AcquireLease
    <3>2. holder' = [holder EXCEPT ![h] = s] /\ sent' = [sent EXCEPT ![h] = sent[h] \cup {"acquire"}]
          /\ answer' = [answer EXCEPT ![h] = answer[h]] /\ UNCHANGED <<leaseNow, lease>>
      BY <1>0, <2>0, <2>1 DEF AcquireLease, SendLease
    <3> HIDE DEF s
    <3> QED BY <2>0, <3>1, <3>2, ProcessStep
  <2>2. CASE RecvAcquired(h)
    <3> DEFINE i == [holder[h] EXCEPT !.awaits = "nothing"]
               s == IF answer[h].until > leaseNow
                      THEN [i EXCEPT !.until = answer[h].until, !.ever = TRUE, !.active = TRUE] ELSE i
    <3>1. /\ s \in Holder /\ s.until \in {holder[h].until, answer[h].until}
          /\ s.stopped = holder[h].stopped
      BY <2>0 DEF Holder, LeaseAnswer
    <3>2. holder' = [holder EXCEPT ![h] = s] /\ sent' = [sent EXCEPT ![h] = sent[h]]
          /\ answer' = [answer EXCEPT ![h] = NoLeaseAnswer] /\ UNCHANGED <<leaseNow, lease>>
      BY <1>0, <2>0, <2>2 DEF RecvAcquired, Taken
    <3> HIDE DEF s
    <3> QED BY <2>0, <3>1, <3>2, <1>N, ProcessStep
  <2>3. CASE RenewNow(h)
    <3> DEFINE s == [holder[h] EXCEPT !.awaits = "renew"]
    <3>1. /\ s \in Holder /\ s.until = holder[h].until /\ s.stopped = holder[h].stopped
          /\ s.awaits = "renew" /\ holder[h].awaits = "nothing"
      BY <2>0, <2>3 DEF Holder, RenewNow
    <3>2. holder' = [holder EXCEPT ![h] = s] /\ sent' = [sent EXCEPT ![h] = sent[h] \cup {"renew"}]
          /\ answer' = [answer EXCEPT ![h] = answer[h]] /\ UNCHANGED <<leaseNow, lease>>
      BY <1>0, <2>0, <2>3 DEF RenewNow, SendLease
    <3> HIDE DEF s
    <3> QED BY <2>0, <3>1, <3>2, ProcessStep
  <2>4. CASE RecvRenewed(h)
    <3> DEFINE i == [holder[h] EXCEPT !.awaits = "nothing"]
               s == IF i.stopped THEN i
                    ELSE IF answer[h].until > leaseNow THEN [i EXCEPT !.until = answer[h].until]
                    ELSE Lost(i)
    <3>1. i \in Holder /\ i.until = holder[h].until /\ i.stopped = holder[h].stopped
      BY <2>0 DEF Holder
    <3>2. /\ s \in Holder /\ s.until \in {holder[h].until, answer[h].until}
          /\ s.stopped = holder[h].stopped
      <4>1. Lost(i) \in Holder /\ Lost(i).until = i.until /\ Lost(i).stopped = i.stopped
        BY <3>1, LostKeeps
      <4>2. /\ [i EXCEPT !.until = answer[h].until] \in Holder
            /\ [i EXCEPT !.until = answer[h].until].until = answer[h].until
            /\ [i EXCEPT !.until = answer[h].until].stopped = i.stopped
        BY <2>0 DEF Holder, LeaseAnswer
      <4> HIDE DEF i
      <4> QED BY <3>1, <4>1, <4>2
    <3>3. holder' = [holder EXCEPT ![h] = s] /\ sent' = [sent EXCEPT ![h] = sent[h]]
          /\ answer' = [answer EXCEPT ![h] = NoLeaseAnswer] /\ UNCHANGED <<leaseNow, lease>>
      BY <1>0, <2>0, <2>4 DEF RecvRenewed, Taken
    <3> HIDE DEF s
    <3> QED BY <2>0, <3>2, <3>3, <1>N, ProcessStep
  <2>5. CASE LeaseCallFails(h)
    <3> DEFINE i == [holder[h] EXCEPT !.awaits = "nothing"]
               s == IF holder[h].awaits = "renew" /\ leaseNow >= holder[h].until THEN Lost(i) ELSE i
    <3>1. i \in Holder /\ i.until = holder[h].until /\ i.stopped = holder[h].stopped
      BY <2>0 DEF Holder
    <3>2. /\ s \in Holder /\ s.until = holder[h].until /\ s.stopped = holder[h].stopped
      <4> HIDE DEF i
      <4> QED BY <3>1, LostKeeps
    <3>3. holder' = [holder EXCEPT ![h] = s] /\ sent' = [sent EXCEPT ![h] = sent[h]]
          /\ answer' = [answer EXCEPT ![h] = NoLeaseAnswer] /\ UNCHANGED <<leaseNow, lease>>
      BY <1>0, <2>0, <2>5 DEF LeaseCallFails, Taken
    <3> HIDE DEF s
    <3> QED BY <2>0, <3>2, <3>3, <1>N, ProcessStep
  <2>6. CASE ExpiryWatch(h)
    <3>1. Lost(holder[h]) \in Holder /\ Lost(holder[h]).until = holder[h].until
          /\ Lost(holder[h]).stopped = holder[h].stopped /\ Lost(holder[h]).awaits = holder[h].awaits
      BY <2>0, LostKeeps
    <3>2. holder' = [holder EXCEPT ![h] = Lost(holder[h])] /\ sent' = [sent EXCEPT ![h] = sent[h]]
          /\ answer' = [answer EXCEPT ![h] = answer[h]] /\ UNCHANGED <<leaseNow, lease>>
      BY <1>0, <2>0, <2>6 DEF ExpiryWatch
    <3> QED BY <2>0, <3>1, <3>2, ProcessStep
  <2>7. CASE StopLease(h)
    <3> DEFINE s == [holder[h] EXCEPT !.stopped = TRUE, !.active = FALSE]
               out == IF holder[h].ever /\ ~holder[h].lost THEN sent[h] \cup {"release"} ELSE sent[h]
    <3>1. /\ s \in Holder /\ s.until = holder[h].until /\ s.stopped = TRUE
          /\ s.awaits = holder[h].awaits
      BY <2>0 DEF Holder
    <3>2. out \in SUBSET {"acquire", "renew", "release"}
      BY <2>0
    <3>3. holder' = [holder EXCEPT ![h] = s] /\ sent' = [sent EXCEPT ![h] = out]
          /\ answer' = [answer EXCEPT ![h] = answer[h]] /\ UNCHANGED <<leaseNow, lease>>
      BY <1>0, <2>0, <2>7 DEF StopLease, SendLease
    <3> HIDE DEF s, out
    <3> QED BY <2>0, <3>1, <3>2, <3>3, ProcessStep
  <2>8. CASE ServeAcquire(h)
    BY <2>8, GrantStep, RefuseStep DEF ServeAcquire, MayAcquire
  <2>9. CASE ServeRenew(h)
    BY <2>9, GrantStep, RefuseStep DEF ServeRenew, MayRenew
  <2>10. CASE ServeRelease(h)
    <3>1. /\ UNCHANGED <<leaseNow, holder, answer>>
          /\ sent' = [sent EXCEPT ![h] = sent[h] \ {"release"}]
          /\ lease' = IF lease.holder = h THEN [holder |-> NoHolder, until |-> 0] ELSE lease
      BY <2>10, <1>0 DEF ServeRelease
    <3>2. holder[h].stopped
      BY <2>10, <2>0 DEF ServeRelease
    <3>3. LeaseTypeOK'
      BY <1>0, <3>1 DEF LeaseTypeOK, LeaseRow
    <3>4. GrantedAhead'
      BY <1>0, <3>1 DEF GrantedAhead, LeaseRow
    <3>5. ServesUnderLease'
      <4>1. ASSUME NEW g \in Holders
            PROVE  /\ ~holder[g].stopped => /\ Covered(g, holder[g].until)'
                                            /\ Covered(g, answer[g].until)'
                   /\ "release" \in sent'[g] => holder[g].stopped
        <5>1. "release" \in sent'[g] => "release" \in sent[g]
          BY <1>0, <3>1
        <5>2. ~holder[g].stopped => g # h
          BY <3>2
        <5> QED BY <1>0, <3>1, <5>1, <5>2 DEF ServesUnderLease, Covered, LeaseRow
      <4> QED BY <3>1, <4>1 DEF ServesUnderLease
    <3> QED BY <3>3, <3>4, <3>5
  <2> QED BY <1>P, <2>1, <2>2, <2>3, <2>4, <2>5, <2>6, <2>7, <2>8, <2>9, <2>10
<1> QED BY <1>T, <1>P DEF LeaseNext

\* The invariant of the specification.
THEOREM LeaseInvariant == LeaseSpec => []LeaseInv
BY LeaseInitInv, LeaseInductive, PTL DEF LeaseSpec

\* Every variable keeps its type.
THEOREM LeaseTypeCorrect == LeaseSpec => []LeaseTypeOK
BY LeaseInvariant, PTL DEF LeaseInv

\* "Exactly one gateway may serve": two that serve both hold the one row.
THEOREM LeaseExclusive == LeaseSpec => []OneServes
<1>1. LeaseInv => OneServes
  BY DEF LeaseInv, OneServes, Serves, ServesUnderLease, Covered
<1> QED BY <1>1, LeaseInvariant, PTL

-----------------------------------------------------------------------------
(* The replay file.                                                         *)

\* The file created last; the files are numbered as they are created.
NewestFile == removed + (IF path = 0 THEN 0 ELSE 1)

\* The files up to the latest exist, only the latest can have the name, and only
\* a file that this version set up has rows.
FilesOK ==
  /\ path \in {0, removed + 1}
  /\ \A f \in Files : cacheFile[f].exists <=> f <= NewestFile
  /\ \A f \in Files : cacheFile[f].jobs # {} => cacheFile[f].exists /\ cacheFile[f].schema = "ours"

\* An agent opens the file it identified or a later one: if the one it identified
\* still has the name, it is the one it opened.
HasOpen == {"init", "recheck", "ready", "claim"}

OpenOK(s) ==
  /\ s.at = "open" => s.identity \in 1..NewestFile
  /\ s.at \in HasOpen => s.identity \in 1..s.open /\ s.open \in 1..NewestFile
  /\ s.at \in HasOpen \ {"init"} => cacheFile[s.open].schema = "ours"

\* Every acceptance is in the file it was made in, once.
AcceptedOK(r) ==
  /\ r.nth = 1
  /\ r.job \in cacheFile[r.file].jobs
  /\ \A q \in ran : q.file = r.file /\ q.job = r.job => q = r

ReplayFileInv ==
  /\ ReplayFileTypeOK
  /\ FilesOK
  /\ \A a \in Agents : OpenOK(agent[a])
  /\ \A r \in ran : AcceptedOK(r)

LEMMA ReplayFileInitOK == ReplayFileInit => ReplayFileInv
<1>1. SUFFICES ASSUME ReplayFileInit
               PROVE  ReplayFileInv
  OBVIOUS
<1>2. PICK first \in {"absent", "none", "ours", "other"} :
        /\ path = IF first = "absent" THEN 0 ELSE 1
        /\ cacheFile = [f \in Files |-> IF f = path THEN Empty(first)
                                        ELSE [exists |-> FALSE, schema |-> "none", jobs |-> {}]]
  BY <1>1 DEF ReplayFileInit
<1>3. removed = 0 /\ ran = {} /\ NewestFile = path /\ path \in {0, 1}
  BY <1>1, <1>2 DEF ReplayFileInit, NewestFile
<1>4. \A f \in Files : f = path => Empty(first) \in CacheFile
  BY <1>2 DEF Files, Empty, CacheFile
<1>5. path \in 0..MaxFiles
  BY <1>3, ReplayFileAssumption
<1>6. cacheFile \in [Files -> CacheFile]
  BY <1>2, <1>4 DEF CacheFile
<1>7. ReplayFileTypeOK
  <2>1. agent \in [Agents -> AgentState]
    BY <1>1, ReplayFileAssumption DEF ReplayFileInit, AgentState
  <2>2. QED
    BY <1>3, <1>5, <1>6, <2>1, ReplayFileAssumption DEF ReplayFileTypeOK
<1>8. FilesOK
  BY <1>2, <1>3 DEF FilesOK, Files, Empty
<1>9. \A a \in Agents : OpenOK(agent[a])
  BY <1>1 DEF ReplayFileInit, OpenOK, HasOpen
<1>10. QED
  BY <1>3, <1>7, <1>8, <1>9 DEF ReplayFileInv

\* An agent that goes on with the files as they are.
LEMMA AgentGoesOn ==
  ASSUME ReplayFileInv, NEW a \in Agents, NEW s \in AgentState, OpenOK(s),
         agent' = [agent EXCEPT ![a] = s], UNCHANGED <<cacheFile, path, ran, removed>>
  PROVE  ReplayFileInv'
<1>1. ReplayFileTypeOK'
  BY DEF ReplayFileInv, ReplayFileTypeOK
<1>2. FilesOK'
  BY DEF ReplayFileInv, FilesOK, NewestFile
<1>3. \A b \in Agents : OpenOK(agent[b])'
  BY DEF ReplayFileInv, ReplayFileTypeOK, OpenOK, NewestFile
<1>4. \A r \in ran' : AcceptedOK(r)'
  BY DEF ReplayFileInv, AcceptedOK
<1>5. QED
  BY <1>1, <1>2, <1>3, <1>4 DEF ReplayFileInv

LEMMA AgentStateKept ==
  ASSUME ReplayFileInv, NEW a \in Agents
  PROVE  /\ agent[a] \in AgentState
         /\ path \in Nat /\ removed \in Nat /\ MaxFiles \in Nat
         /\ NewestFile \in Nat
         /\ path # 0 => path = NewestFile /\ path \in Files
BY ReplayFileAssumption DEF ReplayFileInv, ReplayFileTypeOK, FilesOK, NewestFile, Files

LEMMA LooksForFileOK ==
  ASSUME ReplayFileInv, NEW a \in Agents, LooksForFile(a)
  PROVE  ReplayFileInv'
<1>1. DEFINE s == [agent[a] EXCEPT !.at = IF path = 0 THEN "create" ELSE "identify"]
<1>2. s \in AgentState /\ OpenOK(s)
  BY AgentStateKept DEF AgentState, OpenOK, HasOpen
<1>3. agent' = [agent EXCEPT ![a] = s] /\ UNCHANGED <<cacheFile, path, ran, removed>>
  BY DEF LooksForFile, Becomes
<1>4. QED
  BY <1>2, <1>3, AgentGoesOn

\* Nothing is open that does not exist, and nothing was accepted in it.
LEMMA CreatesFileOK ==
  ASSUME ReplayFileInv, NEW a \in Agents, CreatesFile(a)
  PROVE  ReplayFileInv'
<1> DEFINE s == [agent[a] EXCEPT !.at = "identify"]
<1>1. s \in AgentState /\ s.at = "identify"
  BY AgentStateKept DEF AgentState
<1>2. agent' = [agent EXCEPT ![a] = s] /\ UNCHANGED <<ran, removed>>
  BY DEF CreatesFile, Becomes
<1>3. CASE UNCHANGED <<cacheFile, path>>
  BY <1>1, <1>2, <1>3, AgentGoesOn DEF OpenOK, HasOpen
<1>4. ASSUME path = 0,
             NEW f \in Files, ~cacheFile[f].exists, \A g \in 1..f - 1 : cacheFile[g].exists,
             cacheFile' = [cacheFile EXCEPT ![f] = Empty("none")],
             path' = f
      PROVE  ReplayFileInv'
  <2>1. /\ cacheFile \in [Files -> CacheFile] /\ agent \in [Agents -> AgentState]
        /\ ran \subseteq Acceptance /\ removed \in 0..MaxRemovals
    BY DEF ReplayFileInv, ReplayFileTypeOK
  <2>2. f = removed + 1 /\ NewestFile = removed /\ NewestFile' = f /\ f \in 1..MaxFiles
    <3>1. f \in 1..MaxFiles /\ \A g \in Files : cacheFile[g].exists <=> g <= removed
      BY <1>4, <2>1 DEF ReplayFileInv, FilesOK, NewestFile, Files
    <3>2. f > removed
      BY <1>4, <3>1, <2>1, ReplayFileAssumption
    <3>3. f <= removed + 1
      <4>1. SUFFICES ASSUME f > removed + 1
                     PROVE  FALSE
        BY <3>1, <2>1, ReplayFileAssumption
      <4>2. removed + 1 \in 1..f - 1 /\ removed + 1 \in Files
        BY <4>1, <3>1, <2>1, ReplayFileAssumption DEF Files
      <4>3. QED
        BY <4>2, <3>1, <1>4, <2>1, ReplayFileAssumption
    <3>4. QED
      BY <3>1, <3>2, <3>3, <1>4, <1>2, <2>1, ReplayFileAssumption DEF NewestFile
  <2>3. Empty("none") \in CacheFile /\ Empty("none").exists /\ Empty("none").schema = "none" /\ Empty("none").jobs = {}
    BY DEF Empty, CacheFile
  <2>4. cacheFile'[f] = Empty("none") /\ \A g \in Files : g # f => cacheFile'[g] = cacheFile[g]
    BY <1>4, <2>1
  <2>5. ReplayFileTypeOK'
    BY <2>1, <2>2, <2>3, <1>1, <1>2, <1>4, ReplayFileAssumption DEF ReplayFileTypeOK
  <2>6. FilesOK'
    <3>1. path' \in {0, removed' + 1}
      BY <2>2, <1>2, <1>4
    <3>2. ASSUME NEW g \in Files
          PROVE  /\ cacheFile'[g].exists <=> g <= NewestFile'
                 /\ cacheFile'[g].jobs # {} => cacheFile'[g].exists /\ cacheFile'[g].schema = "ours"
      BY <2>1, <2>2, <2>3, <2>4, ReplayFileAssumption DEF ReplayFileInv, FilesOK, Files
    <3>3. QED
      BY <3>1, <3>2 DEF FilesOK
  <2>7. ASSUME NEW b \in Agents
        PROVE  OpenOK(agent[b])'
    <3>1. CASE b = a
      BY <3>1, <1>1, <1>2, <2>1 DEF OpenOK, HasOpen
    <3>2. CASE b # a
      <4>1. agent'[b] = agent[b] /\ OpenOK(agent[b])
        BY <3>2, <1>2, <2>1 DEF ReplayFileInv
      <4>2. agent[b].at \in HasOpen => agent[b].open \in Files /\ agent[b].open # f
        BY <4>1, <2>1, <2>2, ReplayFileAssumption DEF OpenOK, Files
      <4>3. agent[b].identity \in Nat /\ agent[b].open \in Nat
        BY <2>1, ReplayFileAssumption DEF AgentState
      <4>4. QED
        BY <4>1, <4>2, <4>3, <2>1, <2>2, <2>4, ReplayFileAssumption DEF OpenOK
    <3>3. QED
      BY <3>1, <3>2
  <2>8. ASSUME NEW r \in ran'
        PROVE  AcceptedOK(r)'
    <3>1. r \in ran /\ AcceptedOK(r) /\ r.file \in Files
      BY <2>1, <2>8, <1>2 DEF ReplayFileInv, Acceptance
    <3>2. r.file # f
      BY <3>1, <1>4 DEF ReplayFileInv, FilesOK, AcceptedOK
    <3>3. QED
      BY <3>1, <3>2, <2>4, <1>2 DEF AcceptedOK
  <2>9. QED
    BY <2>5, <2>6, <2>7, <2>8 DEF ReplayFileInv
<1>5. QED
  BY <1>3, <1>4 DEF CreatesFile

LEMMA IdentifiesOK ==
  ASSUME ReplayFileInv, NEW a \in Agents, Identifies(a)
  PROVE  ReplayFileInv'
<1> DEFINE s == [agent[a] EXCEPT !.at = IF path = 0 THEN "stopped" ELSE "open", !.identity = path]
<1>1. path \in 0..MaxFiles
  BY DEF ReplayFileInv, ReplayFileTypeOK
<1>2. s \in AgentState /\ s.at \in {"stopped", "open"} /\ s.identity = path /\ (s.at = "open" => path # 0)
  BY <1>1, AgentStateKept DEF AgentState
<1>3. OpenOK(s)
  BY <1>2, AgentStateKept DEF OpenOK, HasOpen
<1>4. agent' = [agent EXCEPT ![a] = s] /\ UNCHANGED <<cacheFile, path, ran, removed>>
  BY DEF Identifies, Becomes
<1>5. QED
  BY <1>2, <1>3, <1>4, AgentGoesOn

LEMMA OpensOK ==
  ASSUME ReplayFileInv, NEW a \in Agents, Opens(a)
  PROVE  ReplayFileInv'
<1> DEFINE s == [agent[a] EXCEPT !.at = IF path = 0 THEN "stopped" ELSE "init", !.open = path]
<1>1. path \in 0..MaxFiles /\ OpenOK(agent[a]) /\ agent[a].at = "open"
  BY DEF ReplayFileInv, ReplayFileTypeOK, Opens
<1>2. /\ s \in AgentState /\ s.at \in {"stopped", "init"}
      /\ s.identity = agent[a].identity /\ s.open = path /\ (s.at = "init" => path # 0)
  BY <1>1, AgentStateKept DEF AgentState
<1>3. OpenOK(s)
  BY <1>1, <1>2, AgentStateKept DEF OpenOK, HasOpen
<1>4. agent' = [agent EXCEPT ![a] = s] /\ UNCHANGED <<cacheFile, path, ran, removed>>
  BY DEF Opens, Becomes
<1>5. QED
  BY <1>2, <1>3, <1>4, AgentGoesOn

\* Setting the tables up loses no row: only a file that was never set up is.
LEMMA InitializesOK ==
  ASSUME ReplayFileInv, NEW a \in Agents, Initializes(a)
  PROVE  ReplayFileInv'
<1> DEFINE f == agent[a].open
           c == Migrated(cacheFile[f])
           s == [agent[a] EXCEPT !.at = IF c.schema = "ours" THEN "recheck" ELSE "stopped"]
<1>1. /\ cacheFile \in [Files -> CacheFile] /\ agent \in [Agents -> AgentState]
      /\ ran \subseteq Acceptance /\ path \in 0..MaxFiles /\ removed \in 0..MaxRemovals
  BY DEF ReplayFileInv, ReplayFileTypeOK
<1>2. agent[a].at = "init" /\ OpenOK(agent[a]) /\ agent[a] \in AgentState
  BY <1>1 DEF ReplayFileInv, Initializes
<1>3. f \in Files /\ f \in 1..NewestFile /\ agent[a].identity \in 1..f
  BY <1>2, AgentStateKept, ReplayFileAssumption DEF OpenOK, HasOpen, AgentState, Files
<1>4. /\ c \in CacheFile
      /\ c.exists /\ c.jobs = cacheFile[f].jobs
      /\ c.schema = "ours" \/ c = cacheFile[f]
      /\ cacheFile[f].schema = "ours" => c = cacheFile[f]
  <2>1. cacheFile[f] \in CacheFile /\ cacheFile[f].exists
    BY <1>1, <1>3 DEF ReplayFileInv, FilesOK, Files
  <2>2. cacheFile[f].schema = "none" => cacheFile[f].jobs = {}
    BY <1>3 DEF ReplayFileInv, FilesOK
  <2>3. Empty("ours") \in CacheFile /\ Empty("ours").exists /\ Empty("ours").jobs = {} /\ Empty("ours").schema = "ours"
    BY DEF Empty, CacheFile
  <2>4. QED
    BY <2>1, <2>2, <2>3 DEF Migrated
<1>5. /\ cacheFile' = [cacheFile EXCEPT ![f] = c]
      /\ agent' = [agent EXCEPT ![a] = s] /\ UNCHANGED <<path, ran, removed>>
  BY DEF Initializes, Becomes
<1>6. /\ s \in AgentState /\ s.at \in {"recheck", "stopped"} /\ (s.at = "recheck" => c.schema = "ours")
      /\ s.open = f /\ s.identity = agent[a].identity
  BY <1>2 DEF AgentState
<1> HIDE DEF f, c, s
<1>7. cacheFile'[f] = c /\ \A g \in Files : g # f => cacheFile'[g] = cacheFile[g]
  BY <1>1, <1>3, <1>5
<1>8. \A g \in Files : /\ cacheFile'[g].exists = cacheFile[g].exists
                       /\ cacheFile'[g].jobs = cacheFile[g].jobs
                       /\ cacheFile[g].schema = "ours" => cacheFile'[g].schema = "ours"
  <2>1. cacheFile[f].exists
    BY <1>1, <1>3 DEF ReplayFileInv, FilesOK, Files
  <2>2. c.exists = cacheFile[f].exists
    BY <1>1, <1>3, <1>4, <2>1 DEF CacheFile
  <2>3. QED
    BY <1>4, <1>7, <2>2
<1>9. ReplayFileTypeOK'
  BY <1>1, <1>3, <1>4, <1>5, <1>6 DEF ReplayFileTypeOK
<1>10. NewestFile' = NewestFile
  BY <1>5 DEF NewestFile
<1>11. FilesOK'
  BY <1>5, <1>8, <1>10 DEF ReplayFileInv, FilesOK
<1>12. ASSUME NEW b \in Agents
       PROVE  OpenOK(agent[b])'
  <2>1. CASE b = a
    <3>1. agent'[b] = s
      BY <2>1, <1>1, <1>5
    <3>2. QED
      BY <3>1, <1>3, <1>6, <1>7, <1>10 DEF OpenOK, HasOpen
  <2>2. CASE b # a
    <3>1. agent'[b] = agent[b] /\ OpenOK(agent[b]) /\ agent[b] \in AgentState
      BY <2>2, <1>1, <1>5 DEF ReplayFileInv
    <3>2. agent[b].at \in HasOpen => agent[b].open \in Files
      BY <3>1, AgentStateKept, ReplayFileAssumption DEF OpenOK, AgentState, Files
    <3>3. QED
      BY <3>1, <3>2, <1>8, <1>10 DEF OpenOK
  <2>3. QED
    BY <2>1, <2>2
<1>13. ASSUME NEW r \in ran'
       PROVE  AcceptedOK(r)'
  <2>1. r \in ran /\ AcceptedOK(r) /\ r.file \in Files
    BY <1>13, <1>1, <1>5 DEF ReplayFileInv, Acceptance
  <2>2. QED
    BY <2>1, <1>5, <1>8 DEF AcceptedOK
<1>14. QED
  BY <1>9, <1>11, <1>12, <1>13 DEF ReplayFileInv

LEMMA RechecksOK ==
  ASSUME ReplayFileInv, NEW a \in Agents, Rechecks(a)
  PROVE  ReplayFileInv'
<1> DEFINE s == [agent[a] EXCEPT !.at = IF path = agent[a].identity THEN "ready" ELSE "stopped"]
<1>1. OpenOK(agent[a]) /\ agent[a].at = "recheck"
  BY DEF ReplayFileInv, Rechecks
<1>2. /\ s \in AgentState /\ s.at \in {"ready", "stopped"}
      /\ s.open = agent[a].open /\ s.identity = agent[a].identity
  BY AgentStateKept DEF AgentState
<1>3. OpenOK(s)
  BY <1>1, <1>2 DEF OpenOK, HasOpen
<1>4. agent' = [agent EXCEPT ![a] = s] /\ UNCHANGED <<cacheFile, path, ran, removed>>
  BY DEF Rechecks, Becomes
<1>5. QED
  BY <1>2, <1>3, <1>4, AgentGoesOn

LEMMA DeliveredOK ==
  ASSUME ReplayFileInv, NEW a \in Agents, NEW j \in SeenJobs, Delivered(a, j)
  PROVE  ReplayFileInv'
<1> DEFINE s == [agent[a] EXCEPT !.at = "claim", !.job = {j}]
<1>1. OpenOK(agent[a]) /\ agent[a].at = "ready"
  BY DEF ReplayFileInv, Delivered
<1>2. s \in AgentState /\ s.at = "claim" /\ s.open = agent[a].open /\ s.identity = agent[a].identity
  BY AgentStateKept DEF AgentState
<1>3. OpenOK(s)
  BY <1>1, <1>2 DEF OpenOK, HasOpen
<1>4. agent' = [agent EXCEPT ![a] = s] /\ UNCHANGED <<cacheFile, path, ran, removed>>
  BY DEF Delivered, Becomes
<1>5. QED
  BY <1>2, <1>3, <1>4, AgentGoesOn

\* A row is inserted only where there was none, so its acceptance is the first.
LEMMA ClaimsOK ==
  ASSUME ReplayFileInv, NEW a \in Agents, Claims(a)
  PROVE  ReplayFileInv'
<1> DEFINE f == agent[a].open
           s == [agent[a] EXCEPT !.at = "ready", !.job = {}]
<1>1. /\ cacheFile \in [Files -> CacheFile] /\ agent \in [Agents -> AgentState]
      /\ ran \subseteq Acceptance /\ path \in 0..MaxFiles /\ removed \in 0..MaxRemovals
  BY DEF ReplayFileInv, ReplayFileTypeOK
<1>2. agent[a].at = "claim" /\ OpenOK(agent[a]) /\ agent[a] \in AgentState
  BY <1>1 DEF ReplayFileInv, Claims
<1>3. f \in Files /\ f \in 1..NewestFile /\ agent[a].identity \in 1..f /\ cacheFile[f].schema = "ours"
  BY <1>2, AgentStateKept, ReplayFileAssumption DEF OpenOK, HasOpen, AgentState, Files
<1>4. s \in AgentState /\ s.at = "ready" /\ s.open = f /\ s.identity = agent[a].identity
  BY <1>2 DEF AgentState
<1>5. OpenOK(s)
  BY <1>3, <1>4 DEF OpenOK, HasOpen
<1>6. agent' = [agent EXCEPT ![a] = s] /\ UNCHANGED <<path, removed>>
  BY DEF Claims, Becomes
<1>7. CASE UNCHANGED <<cacheFile, ran>>
  BY <1>4, <1>5, <1>6, <1>7, AgentGoesOn
<1>8. ASSUME NEW j \in agent[a].job, j \notin cacheFile[f].jobs,
             cacheFile' = [cacheFile EXCEPT ![f].jobs = @ \cup {j}],
             NEW n \in 1..2, n = (IF \E r \in ran : r.file = f /\ r.job = j THEN 2 ELSE 1),
             ran' = ran \cup {[by |-> a, file |-> f, job |-> j, nth |-> n]}
      PROVE  ReplayFileInv'
  <2> DEFINE q == [by |-> a, file |-> f, job |-> j, nth |-> n]
             c == [cacheFile[f] EXCEPT !.jobs = @ \cup {j}]
  <2>1. j \in SeenJobs /\ q \in Acceptance /\ q.file = f /\ q.job = j /\ q.nth = n
    BY <1>2, <1>3 DEF AgentState, Acceptance
  <2>2. /\ c \in CacheFile /\ c.exists = cacheFile[f].exists /\ c.schema = "ours"
        /\ c.jobs = cacheFile[f].jobs \cup {j}
    BY <1>1, <1>3, <2>1 DEF CacheFile
  <2>3. cacheFile' = [cacheFile EXCEPT ![f] = c]
    BY <1>8
  <2>4. ran' = ran \cup {q}
    BY <1>8
  <2> HIDE DEF f, s, q, c
  <2>5. cacheFile'[f] = c /\ \A g \in Files : g # f => cacheFile'[g] = cacheFile[g]
    BY <1>1, <1>3, <2>3
  <2>6. \A g \in Files : /\ cacheFile'[g].exists = cacheFile[g].exists
                         /\ cacheFile'[g].schema = cacheFile[g].schema
                         /\ cacheFile[g].jobs \subseteq cacheFile'[g].jobs
    BY <1>3, <2>2, <2>5
  <2>7. ReplayFileTypeOK'
    BY <1>1, <1>3, <1>4, <1>6, <2>1, <2>2, <2>3, <2>4 DEF ReplayFileTypeOK
  <2>8. NewestFile' = NewestFile
    BY <1>6 DEF NewestFile
  <2>9. FilesOK'
    <3>1. cacheFile[f].exists
      BY <1>1, <1>3 DEF ReplayFileInv, FilesOK, Files
    <3>2. \A g \in Files : cacheFile'[g].jobs # {} => cacheFile'[g].exists /\ cacheFile'[g].schema = "ours"
      BY <3>1, <2>2, <2>5 DEF ReplayFileInv, FilesOK
    <3>3. QED
      BY <3>2, <1>6, <2>6, <2>8 DEF ReplayFileInv, FilesOK
  <2>10. ASSUME NEW b \in Agents
         PROVE  OpenOK(agent[b])'
    <3>1. agent'[b] \in AgentState /\ OpenOK(agent'[b])
      BY <1>1, <1>4, <1>5, <1>6 DEF ReplayFileInv
    <3>2. agent'[b].at \in HasOpen => agent'[b].open \in Files
      BY <3>1, AgentStateKept, ReplayFileAssumption DEF OpenOK, AgentState, Files
    <3>3. QED
      BY <3>1, <3>2, <2>6, <2>8 DEF OpenOK
  <2>11. \A r \in ran : ~(r.file = f /\ r.job = j)
    BY <1>8 DEF ReplayFileInv, AcceptedOK
  <2>12. n = 1
    BY <1>8, <2>11
  <2>13. j \in cacheFile'[f].jobs
    BY <2>2, <2>5
  <2>14. ASSUME NEW r \in ran'
         PROVE  AcceptedOK(r)'
    <3>1. CASE r = q
      BY <3>1, <2>1, <2>4, <2>11, <2>12, <2>13 DEF AcceptedOK
    <3>2. CASE r # q
      <4>1. r \in ran /\ AcceptedOK(r) /\ r.file \in Files
        BY <3>2, <2>4, <2>14, <1>1 DEF ReplayFileInv, Acceptance
      <4>2. QED
        BY <4>1, <2>1, <2>4, <2>6, <2>11 DEF AcceptedOK
    <3>3. QED
      BY <3>1, <3>2
  <2>15. QED
    BY <2>7, <2>9, <2>10, <2>14 DEF ReplayFileInv
<1>9. QED
  BY <1>7, <1>8 DEF Claims

LEMMA StopsAndStartsOK ==
  ASSUME ReplayFileInv, NEW a \in Agents, StopsAgent(a) \/ StartsAgain(a)
  PROVE  ReplayFileInv'
<1>1. ASSUME StopsAgent(a)
      PROVE  ReplayFileInv'
  <2>1. [agent[a] EXCEPT !.at = "stopped"] \in AgentState /\ OpenOK([agent[a] EXCEPT !.at = "stopped"])
    BY AgentStateKept DEF AgentState, OpenOK, HasOpen
  <2>2. QED
    BY <1>1, <2>1, AgentGoesOn DEF StopsAgent, Becomes
<1>2. ASSUME StartsAgain(a)
      PROVE  ReplayFileInv'
  <2>1. /\ [at |-> "idle", identity |-> 0, open |-> 0, job |-> {}] \in AgentState
        /\ OpenOK([at |-> "idle", identity |-> 0, open |-> 0, job |-> {}])
    BY ReplayFileAssumption DEF AgentState, OpenOK, HasOpen
  <2>2. QED
    BY <1>2, <2>1, AgentGoesOn DEF StartsAgain, Becomes
<1>3. QED
  BY <1>1, <1>2

LEMMA UserRemovesOK ==
  ASSUME ReplayFileInv, UserRemoves
  PROVE  ReplayFileInv'
<1>1. path = removed + 1 /\ removed \in Nat /\ removed < MaxRemovals /\ removed \in 0..MaxRemovals
  BY ReplayFileAssumption DEF ReplayFileInv, ReplayFileTypeOK, FilesOK, UserRemoves
<1>2. path' = 0 /\ removed' = removed + 1 /\ UNCHANGED <<cacheFile, agent, ran>>
  BY DEF UserRemoves
<1>3. NewestFile' = NewestFile
  BY <1>1, <1>2 DEF NewestFile
<1>4. ReplayFileTypeOK'
  BY <1>1, <1>2, ReplayFileAssumption DEF ReplayFileInv, ReplayFileTypeOK
<1>5. FilesOK'
  BY <1>2, <1>3 DEF ReplayFileInv, FilesOK
<1>6. \A a \in Agents : OpenOK(agent[a])'
  BY <1>2, <1>3 DEF ReplayFileInv, OpenOK
<1>7. \A r \in ran' : AcceptedOK(r)'
  BY <1>2 DEF ReplayFileInv, AcceptedOK
<1>8. QED
  BY <1>4, <1>5, <1>6, <1>7 DEF ReplayFileInv

LEMMA ReplayFileStepOK == ReplayFileInv /\ [ReplayFileNext]_replayFileVars => ReplayFileInv'
<1>1. SUFFICES ASSUME ReplayFileInv, [ReplayFileNext]_replayFileVars
               PROVE  ReplayFileInv'
  OBVIOUS
<1>2. CASE UNCHANGED replayFileVars
  BY <1>1, <1>2 DEF replayFileVars, ReplayFileInv, ReplayFileTypeOK, FilesOK, NewestFile, OpenOK, AcceptedOK
<1>3. CASE UserRemoves
  BY <1>1, <1>3, UserRemovesOK
<1>4. ASSUME NEW a \in Agents,
             \/ LooksForFile(a) \/ CreatesFile(a) \/ Identifies(a) \/ Opens(a) \/ Initializes(a) \/ Rechecks(a)
             \/ \E j \in SeenJobs : Delivered(a, j)
             \/ Claims(a)
             \/ StopsAgent(a) \/ StartsAgain(a)
      PROVE  ReplayFileInv'
  BY <1>1, <1>4, LooksForFileOK, CreatesFileOK, IdentifiesOK, OpensOK, InitializesOK, RechecksOK, DeliveredOK,
     ClaimsOK, StopsAndStartsOK
<1>5. QED
  BY <1>1, <1>2, <1>3, <1>4 DEF ReplayFileNext

\* The acceptances of one job are in as many files as it was accepted, and there
\* are no more files than removals plus one.
LEMMA AcceptedOncePerRemoval ==
  ASSUME ReplayFileInv
  PROVE  StartsForgetNothing
<1>1. ASSUME NEW j \in SeenJobs
      PROVE  Cardinality({r \in ran : r.job = j}) <= removed + 1
  <2> DEFINE R == {r \in ran : r.job = j}
             h == [r \in R |-> r.file]
  <2>1. removed \in Nat /\ NewestFile \in Nat /\ NewestFile <= removed + 1
    BY ReplayFileAssumption DEF ReplayFileInv, ReplayFileTypeOK, NewestFile
  <2>2. \A r \in R : r.file \in 1..(removed + 1)
    <3>1. \A r \in R : r.file \in Files /\ cacheFile[r.file].exists
      BY DEF ReplayFileInv, ReplayFileTypeOK, Acceptance, AcceptedOK, FilesOK
    <3>2. QED
      BY <3>1, <2>1, ReplayFileAssumption DEF ReplayFileInv, FilesOK, Files
  <2>3. \A r, q \in R : r.file = q.file => r = q
    BY DEF ReplayFileInv, AcceptedOK
  <2>4. h \in Injection(R, 1..(removed + 1))
    BY <2>2, <2>3 DEF Injection, IsInjective
  <2>5. IsFiniteSet(1..(removed + 1)) /\ Cardinality(1..(removed + 1)) = removed + 1
    BY <2>1, FS_Interval
  <2>6. Cardinality(R) <= Cardinality(1..(removed + 1))
    BY <2>4, <2>5, FS_Injection
  <2>7. QED
    BY <2>5, <2>6
<1>2. \A r \in ran : r.nth = 1
  BY DEF ReplayFileInv, AcceptedOK
<1>3. \A a \in Agents : agent[a].at \in {"ready", "claim"} => cacheFile[agent[a].open].schema = "ours"
  BY DEF ReplayFileInv, OpenOK, HasOpen
<1>4. QED
  BY <1>1, <1>2, <1>3 DEF StartsForgetNothing

\* The latest file is the only one that can have the name of an earlier one.
LEMMA DeliveredToNamedFile == ReplayFileInv /\ [ReplayFileNext]_replayFileVars => [NamedFileOnly]_replayFileVars
<1>1. SUFFICES ASSUME ReplayFileInv, ReplayFileNext, NEW a \in Agents,
                      agent[a].at = "ready", agent'[a].at = "claim"
               PROVE  agent[a].open = path
  BY DEF NamedFileOnly
<1>2. agent \in [Agents -> AgentState]
  BY <1>1 DEF ReplayFileInv, ReplayFileTypeOK
<1>3. path = agent[a].identity
  <2>1. ~UserRemoves
    BY <1>1 DEF UserRemoves
  <2>2. PICK b \in Agents :
          \/ LooksForFile(b) \/ CreatesFile(b) \/ Identifies(b) \/ Opens(b) \/ Initializes(b) \/ Rechecks(b)
          \/ \E j \in SeenJobs : Delivered(b, j)
          \/ Claims(b)
          \/ StopsAgent(b) \/ StartsAgain(b)
    BY <1>1, <2>1 DEF ReplayFileNext
  <2>3. \E s : agent' = [agent EXCEPT ![b] = s]
    BY <2>2 DEF LooksForFile, CreatesFile, Identifies, Opens, Initializes, Rechecks, Delivered, Claims, StopsAgent,
                StartsAgain, Becomes
  <2>4. b = a
    BY <1>1, <1>2, <2>3
  <2>5. ~LooksForFile(a) /\ ~CreatesFile(a) /\ ~Identifies(a) /\ ~Opens(a) /\ ~Initializes(a) /\ ~Rechecks(a)
    BY <1>1 DEF LooksForFile, CreatesFile, Identifies, Opens, Initializes, Rechecks
  <2>6. ~Claims(a) /\ ~StartsAgain(a)
    BY <1>1 DEF Claims, StartsAgain
  <2>7. ~StopsAgent(a)
    <3>1. [agent[a] EXCEPT !.at = "stopped"].at = "stopped"
      BY <1>2 DEF AgentState
    <3>2. QED
      BY <1>1, <1>2, <3>1 DEF StopsAgent, Becomes
  <2>8. QED
    BY <2>2, <2>4, <2>5, <2>6, <2>7 DEF Delivered
<1>4. OpenOK(agent[a]) /\ agent[a].identity \in 1..agent[a].open /\ agent[a].open \in 1..NewestFile
  BY <1>1 DEF ReplayFileInv, OpenOK, HasOpen
<1>5. agent[a].open \in Nat /\ path \in Nat /\ NewestFile \in Nat
  BY <1>1, <1>2, AgentStateKept, ReplayFileAssumption DEF AgentState
<1>6. path = NewestFile
  BY <1>1, <1>3, <1>4, <1>5, AgentStateKept
<1>7. QED
  BY <1>3, <1>4, <1>5, <1>6

\* The inductive invariant holds in every state.
THEOREM ReplayFileInvariant == ReplayFileSpec => []ReplayFileInv
BY ReplayFileInitOK, ReplayFileStepOK, PTL DEF ReplayFileSpec

\* Type correctness of the files and the agents.
THEOREM ReplayFileTyped == ReplayFileSpec => []ReplayFileTypeOK
<1>1. ReplayFileInv => ReplayFileTypeOK
  BY DEF ReplayFileInv
<1>2. QED
  BY <1>1, ReplayFileInvariant, PTL

\* However many agents share the file, race to create it, die and start again, and
\* however often the user removes it: a job is accepted once per file that had the
\* name, and an agent that takes a new job has the file with the name open.
THEOREM ReplayFileRemembers == ReplayFileSpec => ReplayFileSound
<1>1. ReplayFileInv => StartsForgetNothing
  BY AcceptedOncePerRemoval
<1>2. QED
  BY <1>1, ReplayFileInvariant, DeliveredToNamedFile, PTL DEF ReplayFileSpec, ReplayFileSound

-----------------------------------------------------------------------------
(* The forms of the dashboard.                                              *)

\* What a click came to, and what was said of it.
OutcomeOK(k) ==
  /\ k.phase \in {"sent", "refused"} => ~k.took
  /\ k.phase \in {"committed", "left"} => k.took
  /\ k.phase # "settled" => k.told = "nothing"
  /\ k.told = "success" => k.took
  /\ k.told = "failure" /\ k.verb \notin Once => ~k.took
  /\ k.verb = "grant" /\ k.phase = "settled" => ~k.took

\* A click that waits for its answer belongs to what the tab shows.
Waiting == {"sent", "committed", "refused"}

WaitsOnScreen(k, t) ==
  /\ k.verb \in Verbs[screen]
  /\ k.mount <= t.mount
  /\ k.verb = "grant" /\ k.mount = t.mount => k.heard = "form"
  /\ k.heard = "page" => k.verb \in Dialogs
  /\ k.heard = "form" /\ k.verb \in {"connect", "save"} => k.on = t.panel
  /\ k.heard = "form" /\ k.phase \in Waiting =>
       /\ k.verb \in Dialogs => t.dialog = <<k.verb, k.on>>
       /\ screen = "entry" => k.on = t.panel

\* Two clicks: a confirmation under way is not confirmed again, and a page asks for
\* one grant at a time.
ApartOK(k, l) ==
  /\ k.verb = l.verb /\ k.on = l.on /\ k.verb \in Dialogs /\ k.heard = "form" /\ l.heard = "form" =>
       k.phase = "settled" \/ l.phase = "settled"
  /\ k.verb = "grant" /\ l.verb = "grant" /\ k.mount = l.mount => k.phase = "settled" \/ l.phase = "settled"

\* A banner names something that a click brought about.
EarnedBy(cs, banner) == banner # Nothing => \E n \in DOMAIN cs : cs[n].on = banner /\ cs[n].took

\* A dialog is one of the screen's.
DialogOK(t) == \A v \in Dialogs, x \in Things : t.dialog = <<v, x>> => v \in Verbs[screen]

ClicksOK(cs, t) ==
  /\ DialogOK(t)
  /\ \A n \in DOMAIN cs : OutcomeOK(cs[n]) /\ WaitsOnScreen(cs[n], t)
  /\ \A m, n \in DOMAIN cs : m # n => ApartOK(cs[m], cs[n])
  /\ EarnedBy(cs, t.banner)

DashboardInv == DashboardTypeOK /\ ClicksOK(click, tab)

-----------------------------------------------------------------------------
\* The screens' verbs.
LEMMA VerbsAre ==
  /\ \A w \in DOMAIN Verbs : Verbs[w] \subseteq DOMAIN Turns
  /\ "entry" \in DOMAIN Verbs /\ Verbs["entry"] = SignIns
  /\ \A v \in SignIns : v \notin Dialogs /\ v \notin {"connect", "save", "grant"}
  /\ "grant" \notin Dialogs \cup SignIns \cup {"connect", "save"}
  /\ Dialogs = {"revoke", "forget", "revokeKey", "remove"}
BY DEF Verbs, Turns, SignIns, Dialogs, Offered

LEMMA RowsAre ==
  /\ \A v \in DOMAIN Turns : \A r \in DOMAIN Turns[v] : Turns[v][r] \in Rows
  /\ \A w \in DOMAIN Verbs : FirstRow[w] \in Rows
<1>1. \A v \in DOMAIN Turns : \A r \in DOMAIN Turns[v] : r \in Rows /\ Turns[v][r] \in Rows
  BY DEF Rows
<1>2. /\ {"revoke", "issue", "connect", "allow", "approve", "grant"} \subseteq DOMAIN Turns
      /\ "online" \in DOMAIN Turns["revoke"] /\ "unissued" \in DOMAIN Turns["issue"]
      /\ "absent" \in DOMAIN Turns["connect"] /\ "allowed" \in DOMAIN Turns["allow"]
      /\ "pending" \in DOMAIN Turns["approve"] /\ "asked" \in DOMAIN Turns["grant"]
  BY DEF Turns
<1>3. {"online", "unissued", "absent", "allowed", "pending", "asked"} \subseteq Rows
  BY <1>1, <1>2
<1>4. \A w \in DOMAIN Verbs : FirstRow[w] \in {"online", "unissued", "absent", "allowed", "pending", "asked"}
  BY DEF Verbs, FirstRow
<1>5. QED
  BY <1>1, <1>3, <1>4

LEMMA DashTypes ==
  ASSUME DashboardInv
  PROVE  /\ screen \in DOMAIN Verbs /\ stored \in [Things -> Rows] /\ seen \in [Things -> Rows]
         /\ tab \in TabState /\ click \in Seq(Click) /\ Len(click) \in 0..MaxClicks
         /\ elsewhere \in 0..MaxElsewhere
         /\ Clicks = 1..Len(click) /\ \A n \in Clicks : click[n] \in Click
         /\ \A n \in Clicks : OutcomeOK(click[n]) /\ WaitsOnScreen(click[n], tab)
         /\ \A m, n \in Clicks : m # n => ApartOK(click[m], click[n])
         /\ EarnedBy(click, tab.banner) /\ DialogOK(tab)
<1>1. click \in Seq(Click) /\ Len(click) <= MaxClicks
  BY DEF DashboardInv, DashboardTypeOK
<1>2. DOMAIN click = 1..Len(click) /\ Len(click) \in Nat /\ \A n \in 1..Len(click) : click[n] \in Click
  BY <1>1
<1>3. QED
  BY <1>1, <1>2, DashboardAssumption DEF DashboardInv, DashboardTypeOK, ClicksOK, Clicks

\* A step keeps the invariant when what it leaves is well typed and sound.
LEMMA DashKeeps ==
  ASSUME screen \in DOMAIN Verbs, screen' = screen, stored' \in [Things -> Rows], seen' \in [Things -> Rows],
         elsewhere' \in 0..MaxElsewhere, tab' \in TabState,
         click' \in Seq(Click), Len(click') <= MaxClicks, ClicksOK(click', tab')
  PROVE  DashboardInv'
<1>1. ClicksOK(click, tab)'
  BY DEF ClicksOK, WaitsOnScreen, DialogOK
<1>2. QED
  BY <1>1 DEF DashboardInv, DashboardTypeOK

\* As many clicks as before are a sequence of clicks.
LEMMA SameClicks ==
  ASSUME DashboardInv, NEW cs \in [Clicks -> Click]
  PROVE  cs \in Seq(Click) /\ Len(cs) <= MaxClicks /\ DOMAIN cs = Clicks
<1>1. Clicks = 1..Len(click) /\ Len(click) \in 0..MaxClicks /\ MaxClicks \in Nat
  BY DashTypes, DashboardAssumption
<1>2. cs \in [1..Len(click) -> Click] /\ Len(click) \in Nat
  BY <1>1
<1>3. cs \in Seq(Click)
  BY <1>2, SeqDef
<1>4. Len(cs) = Len(click)
  BY <1>2, <1>3
<1>5. QED
  BY <1>1, <1>3, <1>4

LEMMA DashInitOK == DashboardInit => DashboardInv
<1>1. SUFFICES ASSUME DashboardInit
               PROVE  DashboardInv
  OBVIOUS
<1>2. FirstRow[screen] \in Rows /\ screen \in DOMAIN Verbs
  BY <1>1, RowsAre DEF DashboardInit
<1>3. stored \in [Things -> Rows] /\ seen \in [Things -> Rows]
  BY <1>1, <1>2 DEF DashboardInit
<1>4. tab \in TabState /\ tab.banner = Nothing
  <2>1. (CHOOSE x \in Things : TRUE) \in Things
    BY DashboardAssumption
  <2>2. 1 \in 1..MaxMounts
    BY DashboardAssumption
  <2>3. QED
    BY <1>1, <2>1, <2>2 DEF DashboardInit, FreshTab, TabState
<1>5. click = <<>> /\ click \in Seq(Click) /\ Len(click) = 0
  BY <1>1 DEF DashboardInit
<1>6. elsewhere \in 0..MaxElsewhere /\ Len(click) <= MaxClicks
  BY <1>1, <1>5, DashboardAssumption DEF DashboardInit
<1>7. DOMAIN click = {}
  BY <1>5
<1>8. ClicksOK(click, tab)
  <2>1. tab.dialog = <<>>
    BY <1>1 DEF DashboardInit, FreshTab
  <2>2. QED
    BY <1>4, <1>7, <2>1 DEF ClicksOK, EarnedBy, DialogOK
<1>9. QED
  BY <1>2, <1>3, <1>4, <1>5, <1>6, <1>8 DEF DashboardInv, DashboardTypeOK

-----------------------------------------------------------------------------
\* A new click, of what the tab shows and when none of its kind is pending.
LEMMA SendKeeps ==
  ASSUME DashboardInv, NEW v \in Verbs[screen], NEW x \in Things, ~Pending(v, x), Send(v, x),
         UNCHANGED <<screen, stored, seen, tab, elsewhere>>,
         v \in Dialogs => tab.dialog = <<v, x>>,
         v \in {"connect", "save"} \/ screen = "entry" => x = tab.panel
  PROVE  DashboardInv'
<1> DEFINE k == [verb |-> v, on |-> x, mount |-> tab.mount, phase |-> "sent", heard |-> "form",
                 took |-> FALSE, told |-> "nothing"]
           L == Len(click)
<1>1. click' = Append(click, k) /\ L < MaxClicks
  BY DEF Send
<1>2. /\ tab \in TabState /\ tab.mount \in 1..MaxMounts /\ v \in DOMAIN Turns /\ screen \in DOMAIN Verbs
      /\ click \in Seq(Click) /\ L \in Nat /\ MaxClicks \in Nat
  BY DashTypes, VerbsAre, DashboardAssumption DEF TabState
<1>3. k \in Click
  BY <1>2 DEF Click
<1>4. /\ k.verb = v /\ k.on = x /\ k.mount = tab.mount /\ k.phase = "sent" /\ k.heard = "form"
      /\ k.took = FALSE /\ k.told = "nothing"
  OBVIOUS
<1> HIDE DEF k
<1>5. /\ click' \in Seq(Click) /\ Len(click') = L + 1 /\ DOMAIN click' = 1..(L + 1)
      /\ click'[L + 1] = k /\ \A n \in 1..L : click'[n] = click[n]
  BY <1>1, <1>2, <1>3
<1>6. Clicks = 1..L /\ \A n \in Clicks : click[n] \in Click
  BY DashTypes
<1>7. OutcomeOK(k) /\ WaitsOnScreen(k, tab)
  BY <1>2, <1>4 DEF OutcomeOK, WaitsOnScreen
<1>8. ASSUME NEW m \in Clicks
      PROVE  ApartOK(click[m], k) /\ ApartOK(k, click[m])
  <2>1. v \in Dialogs /\ click[m].verb = v /\ click[m].on = x /\ click[m].heard = "form" => click[m].phase = "settled"
    BY DEF Pending, Mounted
  <2>2. v = "grant" /\ click[m].verb = "grant" /\ click[m].mount = tab.mount => click[m].phase = "settled"
    <3>1. SUFFICES ASSUME v = "grant", click[m].verb = "grant", click[m].mount = tab.mount
                   PROVE  click[m].phase = "settled"
      OBVIOUS
    <3>2. Mounted(m)
      BY <3>1, DashTypes DEF WaitsOnScreen, Mounted
    <3>3. v \notin Dialogs \cup {"connect", "save"} /\ click[m].verb \notin Dialogs
      BY <3>1, VerbsAre
    <3>4. QED
      BY <3>2, <3>3 DEF Pending
  <2>3. QED
    BY <1>4, <2>1, <2>2 DEF ApartOK
<1>9. EarnedBy(click', tab.banner)
  BY <1>5, <1>6, DashTypes DEF EarnedBy, Clicks
<1>10. \A n \in DOMAIN click' : OutcomeOK(click'[n]) /\ WaitsOnScreen(click'[n], tab)
  <2>1. \A n \in 1..(L + 1) : n = L + 1 \/ n \in 1..L
    BY <1>2
  <2>2. QED
    BY <1>5, <1>6, <1>7, <2>1, DashTypes
<1>11. \A m, n \in DOMAIN click' : m # n => ApartOK(click'[m], click'[n])
  <2>1. \A n \in 1..(L + 1) : n = L + 1 \/ n \in 1..L
    BY <1>2
  <2>2. \A m, n \in Clicks : m # n => ApartOK(click[m], click[n])
    BY DashTypes
  <2>3. QED
    BY <1>5, <1>6, <1>8, <2>1, <2>2
<1>12. ClicksOK(click', tab')
  BY <1>9, <1>10, <1>11, DashTypes DEF ClicksOK
<1>13. Len(click') <= MaxClicks
  BY <1>1, <1>2, <1>5
<1>14. QED
  BY <1>2, <1>5, <1>12, <1>13, DashTypes, DashKeeps

\* The tab changes, its clicks do not.
LEMMA TabKeeps ==
  ASSUME DashboardInv, NEW t \in TabState, tab' = t, UNCHANGED <<screen, stored, seen, click, elsewhere>>,
         t.mount = tab.mount, t.banner \in {tab.banner, Nothing}, DialogOK(t),
         \A n \in Clicks : click[n].heard = "form" /\ click[n].verb \in {"connect", "save"} => t.panel = tab.panel,
         \A n \in Clicks : click[n].heard = "form" /\ click[n].phase \in Waiting =>
           (click[n].verb \in Dialogs => t.dialog = tab.dialog) /\ (screen = "entry" => t.panel = tab.panel)
  PROVE  DashboardInv'
<1>1. \A n \in Clicks : OutcomeOK(click[n]) /\ WaitsOnScreen(click[n], t)
  BY DashTypes DEF WaitsOnScreen
<1>2. EarnedBy(click, t.banner)
  BY DashTypes DEF EarnedBy
<1>3. ClicksOK(click', tab')
  BY <1>1, <1>2, DashTypes DEF ClicksOK, Clicks
<1>4. Len(click') <= MaxClicks
  BY DashTypes, DashboardAssumption
<1>5. QED
  BY <1>3, <1>4, DashTypes, DashKeeps

\* One click goes on: to be settled it can close the dialog it was sent from.
LEMMA ClickKeeps ==
  ASSUME DashboardInv, NEW n \in Clicks, NEW k \in Click, click' = [click EXCEPT ![n] = k],
         k.verb = click[n].verb, k.on = click[n].on, k.mount = click[n].mount, k.heard = click[n].heard,
         click[n].took => k.took, OutcomeOK(k),
         click[n].phase \in Waiting,
         NEW t \in TabState, tab' = t, t.mount = tab.mount, t.panel = tab.panel,
         \/ t.dialog = tab.dialog
         \/ t.dialog = <<>> /\ tab.dialog = <<k.verb, k.on>> /\ k.heard = "form" /\ k.phase = "settled" /\ k.verb \in Dialogs,
         t.banner \in {tab.banner, Nothing} \/ (t.banner = k.on /\ k.took),
         screen' = screen, stored' \in [Things -> Rows], seen' = seen, elsewhere' = elsewhere
  PROVE  DashboardInv'
<1>1. /\ click' \in [Clicks -> Click] /\ click'[n] = k
      /\ \A m \in Clicks : m # n => click'[m] = click[m]
  <2>1. click \in [Clicks -> Click]
    BY DashTypes
  <2>2. QED
    BY <2>1
<1>2. click' \in Seq(Click) /\ Len(click') <= MaxClicks /\ DOMAIN click' = Clicks
  BY <1>1, SameClicks
<1>3. \A m \in Clicks : OutcomeOK(click[m]) /\ WaitsOnScreen(click[m], tab)
  BY DashTypes
<1>4. WaitsOnScreen(k, t)
  BY <1>3 DEF WaitsOnScreen, Waiting
<1>5. ASSUME NEW m \in Clicks, m # n
      PROVE  WaitsOnScreen(click[m], t) /\ ApartOK(click[m], k) /\ ApartOK(k, click[m])
  <2>1. ApartOK(click[m], click[n]) /\ ApartOK(click[n], click[m])
    BY <1>5, DashTypes
  <2>2. click[n].phase # "settled"
    BY DEF Waiting
  <2>3. ApartOK(click[m], k) /\ ApartOK(k, click[m])
    BY <2>1, <2>2 DEF ApartOK
  <2>4. CASE t.dialog = tab.dialog
    BY <1>3, <2>3, <2>4 DEF WaitsOnScreen
  <2>5. CASE t.dialog = <<>> /\ tab.dialog = <<k.verb, k.on>> /\ k.heard = "form" /\ k.phase = "settled" /\ k.verb \in Dialogs
    <3>1. click[m].heard = "form" /\ click[m].verb \in Dialogs /\ click[m].phase \in Waiting =>
            tab.dialog = <<click[m].verb, click[m].on>>
      BY <1>3 DEF WaitsOnScreen
    <3>2. ~(click[m].heard = "form" /\ click[m].verb \in Dialogs /\ click[m].phase \in Waiting)
      <4>1. SUFFICES ASSUME click[m].heard = "form", click[m].verb \in Dialogs, click[m].phase \in Waiting
                     PROVE  FALSE
        OBVIOUS
      <4>2. <<click[m].verb, click[m].on>> = <<k.verb, k.on>>
        BY <2>5, <3>1, <4>1
      <4>3. click[m].verb = click[n].verb /\ click[m].on = click[n].on
        BY <4>2
      <4>4. QED
        BY <2>1, <2>2, <2>5, <4>1, <4>3 DEF ApartOK, Waiting
    <3>3. QED
      BY <1>3, <2>3, <3>2 DEF WaitsOnScreen
  <2>6. QED
    BY <2>4, <2>5
<1>6. EarnedBy(click', t.banner)
  BY <1>1, <1>2, DashTypes DEF EarnedBy, Clicks
<1>7. \A m \in Clicks : OutcomeOK(click'[m]) /\ WaitsOnScreen(click'[m], t)
  BY <1>1, <1>3, <1>4, <1>5
<1>8. \A l, m \in Clicks : l # m => ApartOK(click'[l], click'[m])
  <2>1. \A l, m \in Clicks : l # m => ApartOK(click[l], click[m])
    BY DashTypes
  <2>2. QED
    BY <1>1, <1>5, <2>1
<1>9. ClicksOK(click', tab')
  <2>1. DialogOK(t)
    BY DashTypes DEF DialogOK
  <2>2. QED
    BY <1>2, <1>6, <1>7, <1>8, <2>1 DEF ClicksOK
<1>10. QED
  BY <1>2, <1>9, DashTypes, DashKeeps

\* Components go: their clicks are heard elsewhere or not at all.
LEMMA LeavesKeep ==
  ASSUME DashboardInv, NEW cs \in [Clicks -> Click], click' = cs,
         \A n \in Clicks : /\ cs[n].verb = click[n].verb /\ cs[n].on = click[n].on /\ cs[n].mount = click[n].mount
                           /\ cs[n].phase = click[n].phase /\ cs[n].took = click[n].took /\ cs[n].told = click[n].told
                           /\ cs[n].heard = "form" => click[n].heard = "form",
         NEW t \in TabState, tab' = t, DialogOK(t), t.banner \in {tab.banner, Nothing},
         \A n \in Clicks : WaitsOnScreen(cs[n], t),
         screen' = screen, stored' = stored, seen' \in [Things -> Rows], elsewhere' = elsewhere
  PROVE  DashboardInv'
<1>1. click' \in Seq(Click) /\ Len(click') <= MaxClicks /\ DOMAIN click' = Clicks
  BY SameClicks
<1>2. \A n \in Clicks : OutcomeOK(cs[n])
  BY DashTypes DEF OutcomeOK
<1>3. \A m, n \in Clicks : m # n => ApartOK(cs[m], cs[n])
  BY DashTypes DEF ApartOK
<1>4. EarnedBy(click', t.banner)
  BY <1>1, DashTypes DEF EarnedBy, Clicks
<1>5. ClicksOK(click', tab')
  BY <1>1, <1>2, <1>3, <1>4 DEF ClicksOK
<1>6. QED
  BY <1>1, <1>5, DashTypes, DashKeeps

LEMMA UnmountedIs ==
  ASSUME DashboardInv, NEW vs, NEW left \in {"page", "nobody"}
  PROVE  /\ Unmounted(vs, left) \in [Clicks -> Click]
         /\ \A n \in Clicks :
              LET k == Unmounted(vs, left)[n] IN
              /\ k.verb = click[n].verb /\ k.on = click[n].on /\ k.mount = click[n].mount
              /\ k.phase = click[n].phase /\ k.took = click[n].took /\ k.told = click[n].told
              /\ k.heard = IF click[n].verb \in vs /\ click[n].heard = "form" THEN left ELSE click[n].heard
<1>1. ASSUME NEW n \in Clicks
      PROVE  LET k == Unmounted(vs, left)[n] IN
             /\ k \in Click
             /\ k.verb = click[n].verb /\ k.on = click[n].on /\ k.mount = click[n].mount
             /\ k.phase = click[n].phase /\ k.took = click[n].took /\ k.told = click[n].told
             /\ k.heard = IF click[n].verb \in vs /\ click[n].heard = "form" THEN left ELSE click[n].heard
  <2>1. click[n] \in Click
    BY DashTypes
  <2>2. Unmounted(vs, left)[n] = IF click[n].verb \in vs /\ click[n].heard = "form"
                                 THEN [click[n] EXCEPT !.heard = left] ELSE click[n]
    BY DEF Unmounted, Mounted
  <2>3. QED
    BY <2>1, <2>2 DEF Click
<1>2. QED
  BY <1>1 DEF Unmounted

-----------------------------------------------------------------------------
\* A modal dialog keeps what waits in it; without one, no confirmation waits.
LEMMA WaitingDialog ==
  ASSUME DashboardInv, NEW n \in Clicks, click[n].heard = "form", click[n].phase \in Waiting,
         click[n].verb \in Dialogs
  PROVE  /\ tab.dialog = <<click[n].verb, click[n].on>>
         /\ tab.dialog # <<>>
         /\ \A v, x : tab.dialog = <<v, x>> => v = click[n].verb /\ x = click[n].on /\ Pending(v, x)
<1>1. tab.dialog = <<click[n].verb, click[n].on>>
  BY DashTypes DEF WaitsOnScreen
<1>2. click[n].phase # "settled"
  BY DEF Waiting
<1>3. ASSUME NEW v, NEW x, tab.dialog = <<v, x>>
      PROVE  v = click[n].verb /\ x = click[n].on /\ Pending(v, x)
  <2>1. <<v, x>> = <<click[n].verb, click[n].on>>
    BY <1>1, <1>3
  <2>2. v = click[n].verb /\ x = click[n].on
    BY <2>1
  <2>3. QED
    BY <1>2, <2>2 DEF Pending, Mounted
<1>4. QED
  BY <1>1, <1>3

LEMMA ShowsKeeps ==
  ASSUME DashboardInv, NEW d \in (Dialogs \X Things) \cup {<<>>}, Shows(d),
         \A v \in Dialogs, x \in Things : d = <<v, x>> => v \in Verbs[screen],
         \A n \in Clicks : ~(click[n].heard = "form" /\ click[n].phase \in Waiting /\ click[n].verb \in Dialogs)
  PROVE  DashboardInv'
<1> DEFINE t == [tab EXCEPT !.dialog = d]
<1>1. t \in TabState /\ t.dialog = d /\ t.mount = tab.mount /\ t.banner = tab.banner /\ t.panel = tab.panel
  BY DashTypes DEF TabState
<1>2. tab' = t /\ UNCHANGED <<screen, stored, seen, click, elsewhere>>
  BY DEF Shows
<1>3. DialogOK(t)
  BY <1>1 DEF DialogOK
<1> HIDE DEF t
<1>4. QED
  BY <1>1, <1>2, <1>3, TabKeeps

\* A confirmation opens, is confirmed once, and closes only when nothing waits in it.
LEMMA ConfirmationOK ==
  ASSUME DashboardInv, NEW v \in Dialogs, NEW x \in Things, Confirmation(v, x)
  PROVE  DashboardInv'
<1>1. ASSUME OpenDialog(v, x)
      PROVE  DashboardInv'
  <2>1. <<v, x>> \in (Dialogs \X Things) \cup {<<>>} /\ Shows(<<v, x>>)
    BY <1>1 DEF OpenDialog
  <2>2. \A w \in Dialogs, y \in Things : <<v, x>> = <<w, y>> => w \in Verbs[screen]
    BY <1>1 DEF OpenDialog
  <2>3. \A n \in Clicks : ~(click[n].heard = "form" /\ click[n].phase \in Waiting /\ click[n].verb \in Dialogs)
    BY <1>1, WaitingDialog DEF OpenDialog
  <2>4. QED
    BY <2>1, <2>2, <2>3, ShowsKeeps
<1>2. ASSUME Confirm(v, x)
      PROVE  DashboardInv'
  <2>1. tab.dialog = <<v, x>> /\ ~Pending(v, x) /\ Send(v, x) /\ UNCHANGED <<screen, stored, seen, tab, elsewhere>>
    BY <1>2 DEF Confirm
  <2>2. v \in Verbs[screen]
    BY <2>1, DashTypes DEF DialogOK
  <2>3. v \notin {"connect", "save"} /\ screen # "entry"
    BY <2>2, VerbsAre
  <2>4. QED
    BY <2>1, <2>2, <2>3, SendKeeps
<1>3. ASSUME Dismiss(v, x)
      PROVE  DashboardInv'
  <2>1. \A n \in Clicks : ~(click[n].heard = "form" /\ click[n].phase \in Waiting /\ click[n].verb \in Dialogs)
    BY <1>3, WaitingDialog DEF Dismiss
  <2>2. QED
    BY <1>3, <2>1, ShowsKeeps DEF Dismiss
<1>4. QED
  BY <1>1, <1>2, <1>3 DEF Confirmation

LEMMA PressOK ==
  ASSUME DashboardInv, NEW v, v \notin Dialogs, NEW x \in Things, Press(v, x),
         v \in {"connect", "save"} \cup SignIns => x = tab.panel
  PROVE  DashboardInv'
<1>1. v \in Verbs[screen] /\ ~Pending(v, x) /\ Send(v, x) /\ UNCHANGED <<screen, stored, seen, tab, elsewhere>>
  BY DEF Press
<1>2. screen = "entry" => v \in SignIns
  BY <1>1, VerbsAre
<1>3. QED
  BY <1>1, <1>2, SendKeeps

LEMMA ButtonsOK ==
  ASSUME DashboardInv, NEW x \in Things,
         PermissionsTable(x) \/ ApprovalsTable(x) \/ PairApproval(x) \/ CreateApiKeyForm(x) \/ Press("grant", x)
  PROVE  DashboardInv'
<1>1. PICK v \in {"allow", "deny", "approve", "refuse", "pair", "issue", "grant"} : Press(v, x)
  BY DEF PermissionsTable, ApprovalsTable, PairApproval, CreateApiKeyForm
<1>2. v \notin Dialogs /\ v \notin {"connect", "save"} \cup SignIns
  BY VerbsAre DEF SignIns
<1>3. QED
  BY <1>1, <1>2, PressOK

LEMMA FormsOK ==
  ASSUME DashboardInv, NEW x \in Things,
         ConnectPanel(x) \/ ConnectKeyForm(x) \/ (x = tab.panel /\ \E v \in SignIns : Press(v, x))
  PROVE  DashboardInv'
<1>1. PICK v \in {"connect", "save"} \cup SignIns : Press(v, x) /\ x = tab.panel
  BY DEF ConnectPanel, ConnectKeyForm
<1>2. v \notin Dialogs
  BY VerbsAre
<1>3. QED
  BY <1>1, <1>2, PressOK

LEMMA TabStepsOK ==
  ASSUME DashboardInv, NEW x \in Things,
         \/ DismissKey
         \/ /\ screen = "consent"
            /\ tab' = [tab EXCEPT !.handed = @ \cup {"denied"}]
            /\ UNCHANGED <<screen, stored, seen, click, elsewhere>>
  PROVE  DashboardInv'
<1>1. tab \in TabState
  BY DashTypes
<1>2. PICK t \in TabState : /\ tab' = t /\ UNCHANGED <<screen, stored, seen, click, elsewhere>>
                            /\ t.mount = tab.mount /\ t.panel = tab.panel /\ t.dialog = tab.dialog
                            /\ t.banner \in {tab.banner, Nothing}
  <2>1. CASE DismissKey
    <3>1. [tab EXCEPT !.banner = Nothing] \in TabState
      BY <1>1 DEF TabState
    <3>2. QED
      BY <1>1, <2>1, <3>1 DEF DismissKey, TabState
  <2>2. CASE /\ screen = "consent"
             /\ tab' = [tab EXCEPT !.handed = @ \cup {"denied"}]
             /\ UNCHANGED <<screen, stored, seen, click, elsewhere>>
    <3>1. [tab EXCEPT !.handed = @ \cup {"denied"}] \in TabState
      BY <1>1 DEF TabState
    <3>2. QED
      BY <1>1, <2>2, <3>1 DEF TabState
  <2>3. QED
    BY <2>1, <2>2
<1>3. DialogOK(t)
  BY <1>2, DashTypes DEF DialogOK
<1>4. QED
  BY <1>2, <1>3, TabKeeps

\* The form is switched only while nothing of it is pending.
LEMMA SwitchOK ==
  ASSUME DashboardInv, NEW x \in Things, screen = "entry", ~Pending("password", x),
         tab' = [tab EXCEPT !.panel = x], UNCHANGED <<screen, stored, seen, click, elsewhere>>
  PROVE  DashboardInv'
<1> DEFINE t == [tab EXCEPT !.panel = x]
<1>1. t \in TabState /\ t.dialog = tab.dialog /\ t.mount = tab.mount /\ t.banner = tab.banner
  BY DashTypes DEF TabState
<1>2. DialogOK(t)
  BY <1>1, DashTypes DEF DialogOK
<1>3. \A n \in Clicks : click[n].verb \in SignIns
  BY DashTypes, VerbsAre DEF WaitsOnScreen
<1>4. \A n \in Clicks : click[n].verb \notin {"connect", "save"}
  BY <1>3, VerbsAre
<1>5. ASSUME NEW n \in Clicks, click[n].heard = "form", click[n].phase \in Waiting
      PROVE  FALSE
  <2>1. "password" \notin Dialogs \cup {"connect", "save"} /\ click[n].verb \notin Dialogs
    BY <1>3, VerbsAre DEF SignIns
  <2>2. QED
    BY <1>5, <2>1 DEF Pending, Mounted, Waiting
<1> HIDE DEF t
<1>6. tab' = t
  BY DEF t
<1>7. QED
  BY <1>1, <1>2, <1>4, <1>5, <1>6, TabKeeps

LEMMA PickConnectorOK ==
  ASSUME DashboardInv, NEW x \in Things, PickConnector(x)
  PROVE  DashboardInv'
<1> DEFINE t  == [tab EXCEPT !.panel = x, !.banner = Nothing]
           cs == Unmounted({"connect", "save"}, "nobody")
<1>1. click' = cs /\ tab' = t /\ screen = "connections" /\ UNCHANGED <<screen, stored, seen, elsewhere>>
  BY DEF PickConnector, Remount
<1>2. /\ t \in TabState /\ t.dialog = tab.dialog /\ t.mount = tab.mount /\ t.banner = Nothing
  BY DashTypes DEF TabState
<1>3. DialogOK(t)
  BY <1>2, DashTypes DEF DialogOK
<1>4. /\ cs \in [Clicks -> Click]
      /\ \A n \in Clicks :
           /\ cs[n].verb = click[n].verb /\ cs[n].on = click[n].on /\ cs[n].mount = click[n].mount
           /\ cs[n].phase = click[n].phase /\ cs[n].took = click[n].took /\ cs[n].told = click[n].told
           /\ cs[n].heard = IF click[n].verb \in {"connect", "save"} /\ click[n].heard = "form"
                            THEN "nobody" ELSE click[n].heard
  BY UnmountedIs
<1> HIDE DEF t, cs
<1>5. ASSUME NEW n \in Clicks
      PROVE  WaitsOnScreen(cs[n], t)
  <2>1. WaitsOnScreen(click[n], tab)
    BY DashTypes
  <2>2. QED
    BY <1>1, <1>2, <1>4, <2>1 DEF WaitsOnScreen
<1>6. seen' \in [Things -> Rows]
  BY <1>1, DashTypes
<1>7. QED
  BY <1>1, <1>2, <1>3, <1>4, <1>5, <1>6, LeavesKeep

-----------------------------------------------------------------------------
\* A change that takes, or is turned down.
LEMMA DecidedOK ==
  ASSUME DashboardInv, NEW n \in Clicks, Commit(n) \/ TurnDown(n)
  PROVE  DashboardInv'
<1>1. click[n] \in Click /\ OutcomeOK(click[n]) /\ click[n].phase = "sent" /\ click[n].phase \in Waiting
  BY DashTypes DEF Commit, TurnDown, Waiting
<1>2. tab \in TabState /\ tab' = tab /\ screen' = screen /\ seen' = seen /\ elsewhere' = elsewhere
  BY DashTypes DEF Commit, TurnDown
<1>3. ASSUME Commit(n)
      PROVE  DashboardInv'
  <2> DEFINE k == [click[n] EXCEPT !.phase = "committed", !.took = TRUE]
  <2>1. k \in Click /\ k.verb = click[n].verb /\ k.on = click[n].on /\ k.mount = click[n].mount
        /\ k.heard = click[n].heard /\ k.took = TRUE /\ k.phase = "committed" /\ k.told = click[n].told
    BY <1>1 DEF Click
  <2>2. click' = [click EXCEPT ![n] = k]
    BY <1>3 DEF Commit
  <2>3. stored' \in [Things -> Rows]
    <3>1. click[n].on \in Things /\ click[n].verb \in DOMAIN Turns /\ stored[click[n].on] \in DOMAIN Turns[click[n].verb]
      BY <1>1, <1>3 DEF Click, Commit
    <3>2. Turns[click[n].verb][stored[click[n].on]] \in Rows
      BY <3>1, RowsAre
    <3>3. stored' = [stored EXCEPT ![click[n].on] = Turns[click[n].verb][stored[click[n].on]]]
      BY <1>3 DEF Commit
    <3>4. QED
      BY <3>1, <3>2, <3>3, DashTypes
  <2> HIDE DEF k
  <2>4. OutcomeOK(k)
    BY <1>1, <2>1 DEF OutcomeOK
  <2>5. QED
    BY <1>1, <1>2, <2>1, <2>2, <2>3, <2>4, ClickKeeps
<1>4. ASSUME TurnDown(n)
      PROVE  DashboardInv'
  <2> DEFINE k == [click[n] EXCEPT !.phase = "refused"]
  <2>1. k \in Click /\ k.verb = click[n].verb /\ k.on = click[n].on /\ k.mount = click[n].mount
        /\ k.heard = click[n].heard /\ k.took = click[n].took /\ k.phase = "refused" /\ k.told = click[n].told
    BY <1>1 DEF Click
  <2>2. click' = [click EXCEPT ![n] = k] /\ stored' \in [Things -> Rows]
    BY <1>4, DashTypes DEF TurnDown
  <2> HIDE DEF k
  <2>3. OutcomeOK(k)
    BY <1>1, <2>1 DEF OutcomeOK
  <2>4. QED
    BY <1>1, <1>2, <2>1, <2>2, <2>3, ClickKeeps
<1>5. QED
  BY <1>3, <1>4

\* A toast says what became of the click, and a success closes its dialog.
LEMMA ToastKeeps ==
  ASSUME DashboardInv, NEW n \in Clicks, click[n].phase \in Waiting, NEW tone \in {"success", "failure"}, Toast(n, tone),
         tone = "success" => click[n].took /\ click[n].verb # "grant",
         tone = "failure" => ~click[n].took \/ click[n].verb \in Once,
         UNCHANGED <<screen, stored, seen, elsewhere>>
  PROVE  DashboardInv'
<1> DEFINE k == [click[n] EXCEPT !.phase = "settled", !.told = tone]
           closes == tone = "success" /\ Mounted(n) /\ tab.dialog = <<click[n].verb, click[n].on>>
           t == [tab EXCEPT
                   !.dialog = IF closes THEN <<>> ELSE @,
                   !.banner = IF click[n].verb \in {"connect", "save"} /\ ~StillConnected(n) THEN Nothing ELSE @]
<1>1. click[n] \in Click /\ OutcomeOK(click[n]) /\ tab \in TabState
  BY DashTypes
<1>2. /\ k \in Click /\ k.verb = click[n].verb /\ k.on = click[n].on /\ k.mount = click[n].mount
      /\ k.heard = click[n].heard /\ k.took = click[n].took /\ k.phase = "settled" /\ k.told = tone
  BY <1>1 DEF Click
<1>3. click' = [click EXCEPT ![n] = k] /\ tab' = t
  BY DEF Toast
<1>4. /\ t \in TabState /\ t.mount = tab.mount /\ t.panel = tab.panel
      /\ t.dialog = (IF closes THEN <<>> ELSE tab.dialog)
      /\ t.banner \in {tab.banner, Nothing}
  BY <1>1 DEF TabState
<1>5. OutcomeOK(k)
  <2>1. "grant" \notin Once
    BY VerbsAre DEF Once
  <2>2. QED
    BY <1>1, <1>2, <2>1 DEF OutcomeOK
<1>6. click[n].verb \in Dialogs \/ ~closes
  <2>1. SUFFICES ASSUME tab.dialog = <<click[n].verb, click[n].on>>
                 PROVE  click[n].verb \in Dialogs
    OBVIOUS
  <2>2. tab.dialog \in (Dialogs \X Things) \cup {<<>>}
    BY <1>1 DEF TabState
  <2>3. <<click[n].verb, click[n].on>> # <<>>
    OBVIOUS
  <2>4. tab.dialog \in Dialogs \X Things
    BY <2>1, <2>2, <2>3
  <2>5. QED
    BY <2>1, <2>4
<1>7. closes => click[n].heard = "form" /\ tab.dialog = <<click[n].verb, click[n].on>>
  BY DEF Mounted
<1>8. stored' \in [Things -> Rows]
  BY DashTypes
<1> HIDE DEF k, t, closes
<1>9. \/ t.dialog = tab.dialog
      \/ t.dialog = <<>> /\ tab.dialog = <<k.verb, k.on>> /\ k.heard = "form" /\ k.phase = "settled" /\ k.verb \in Dialogs
  BY <1>2, <1>4, <1>6, <1>7
<1>10. QED
  BY <1>1, <1>2, <1>3, <1>4, <1>5, <1>8, <1>9, ClickKeeps

LEMMA LeavePageKeeps ==
  ASSUME DashboardInv, NEW n \in Clicks, click[n].phase = "committed", LeavePage(n),
         UNCHANGED <<screen, stored, seen, elsewhere>>
  PROVE  DashboardInv'
<1> DEFINE k == [click[n] EXCEPT !.phase = "left"]
           t == [tab EXCEPT !.handed = IF click[n].verb = "grant" THEN @ \cup {"code"} ELSE @]
<1>1. click[n] \in Click /\ OutcomeOK(click[n]) /\ tab \in TabState /\ click[n].phase \in Waiting
  BY DashTypes DEF Waiting
<1>2. /\ k \in Click /\ k.verb = click[n].verb /\ k.on = click[n].on /\ k.mount = click[n].mount
      /\ k.heard = click[n].heard /\ k.took = click[n].took /\ k.phase = "left" /\ k.told = click[n].told
  BY <1>1 DEF Click
<1>3. click' = [click EXCEPT ![n] = k] /\ tab' = t
  BY DEF LeavePage
<1>4. t \in TabState /\ t.mount = tab.mount /\ t.panel = tab.panel /\ t.dialog = tab.dialog /\ t.banner = tab.banner
  BY <1>1 DEF TabState
<1>5. OutcomeOK(k)
  BY <1>1, <1>2 DEF OutcomeOK
<1>6. stored' \in [Things -> Rows]
  BY DashTypes
<1> HIDE DEF k, t
<1>7. QED
  BY <1>1, <1>2, <1>3, <1>4, <1>5, <1>6, ClickKeeps

\* What is announced is what the form is about: the panel of another connector does
\* not hear it.
LEMMA AnnounceKeeps ==
  ASSUME DashboardInv, NEW n \in Clicks, click[n].phase = "committed", click[n].verb \in FormTells,
         click[n].heard # "nobody", Announce(n), UNCHANGED <<screen, stored, seen, elsewhere>>
  PROVE  DashboardInv'
<1> DEFINE k == [click[n] EXCEPT !.phase = "settled", !.told = "success"]
           b == IF screen = "connections" THEN tab.panel ELSE click[n].on
           t == [tab EXCEPT !.banner = b]
<1>1. /\ click[n] \in Click /\ OutcomeOK(click[n]) /\ WaitsOnScreen(click[n], tab) /\ tab \in TabState
      /\ click[n].phase \in Waiting
  BY DashTypes DEF Waiting
<1>2. /\ k \in Click /\ k.verb = click[n].verb /\ k.on = click[n].on /\ k.mount = click[n].mount
      /\ k.heard = click[n].heard /\ k.took = click[n].took /\ k.phase = "settled" /\ k.told = "success"
  BY <1>1 DEF Click
<1>3. click' = [click EXCEPT ![n] = k] /\ tab' = t
  BY DEF Announce
<1>4. b = click[n].on
  <2>1. screen = "connections" => click[n].verb \in {"connect", "save"}
    BY <1>1 DEF WaitsOnScreen, Verbs, FormTells
  <2>2. click[n].heard = "form"
    <3>1. click[n].verb \notin Dialogs
      BY VerbsAre DEF FormTells
    <3>2. QED
      BY <1>1, <3>1 DEF WaitsOnScreen, Click
  <2>3. QED
    BY <1>1, <2>1, <2>2 DEF WaitsOnScreen
<1>5. click[n].on \in Things /\ click[n].took
  BY <1>1 DEF Click, OutcomeOK
<1>6. t \in TabState /\ t.mount = tab.mount /\ t.panel = tab.panel /\ t.dialog = tab.dialog /\ t.banner = click[n].on
  BY <1>1, <1>4, <1>5 DEF TabState
<1>7. OutcomeOK(k)
  <2>1. "grant" \notin FormTells
    BY DEF FormTells
  <2>2. QED
    BY <1>1, <1>2, <1>5, <2>1 DEF OutcomeOK
<1>8. stored' \in [Things -> Rows]
  BY DashTypes
<1> HIDE DEF k, t, b
<1>9. QED
  BY <1>1, <1>2, <1>3, <1>5, <1>6, <1>7, <1>8, ClickKeeps

LEMMA HeardOK ==
  ASSUME DashboardInv, NEW n \in Clicks, Heard(n) \/ AnswerLost(n)
  PROVE  DashboardInv'
<1>1. OutcomeOK(click[n]) /\ UNCHANGED <<screen, stored, seen, elsewhere>>
  BY DashTypes DEF Heard, AnswerLost
<1>2. CASE AnswerLost(n)
  BY <1>2, <1>1, ToastKeeps DEF AnswerLost, Awaited, Waiting
<1>3. CASE Heard(n)
  <2>1. CASE click[n].phase = "refused" /\ Toast(n, "failure")
    BY <2>1, <1>1, ToastKeeps DEF Waiting, OutcomeOK
  <2>2. CASE click[n].phase = "committed" /\ click[n].verb \in Leaving /\ LeavePage(n)
    BY <2>2, <1>1, LeavePageKeeps
  <2>3. CASE click[n].phase = "committed" /\ click[n].verb \in FormTells /\ Announce(n)
    BY <2>3, <1>1, <1>3, AnnounceKeeps DEF Heard
  <2>4. CASE click[n].phase = "committed" /\ click[n].verb \notin Leaving \cup FormTells /\ Toast(n, "success")
    <3>1. click[n].verb # "grant" /\ click[n].took /\ click[n].phase \in Waiting
      BY <2>4, <1>1 DEF Leaving, OutcomeOK, Waiting
    <3>2. QED
      BY <2>4, <3>1, <1>1, ToastKeeps
  <2>5. QED
    BY <1>3, <2>1, <2>2, <2>3, <2>4 DEF Heard
<1>4. QED
  BY <1>2, <1>3

LEMMA ElsewhereOK ==
  ASSUME DashboardInv, NEW x \in Things, NEW v \in DOMAIN Turns, Elsewhere(v, x)
  PROVE  DashboardInv'
<1>1. stored' \in [Things -> Rows]
  <2>1. Turns[v][stored[x]] \in Rows
    BY RowsAre DEF Elsewhere
  <2>2. QED
    BY <2>1, DashTypes DEF Elsewhere
<1>2. elsewhere' \in 0..MaxElsewhere
  BY DashTypes, DashboardAssumption DEF Elsewhere
<1>3. UNCHANGED <<screen, seen, tab, click>>
  BY DEF Elsewhere
<1>4. ClicksOK(click', tab')
  BY <1>3 DEF DashboardInv
<1>5. Len(click') <= MaxClicks
  BY <1>3, DashTypes, DashboardAssumption
<1>6. QED
  BY <1>1, <1>2, <1>3, <1>4, <1>5, DashTypes, DashKeeps

\* A dialog that goes with its card takes what waited in it along.
LEMMA LiveQueryOK ==
  ASSUME DashboardInv, LiveQuery
  PROVE  DashboardInv'
<1> DEFINE gone == {v \in Dialogs : tab.dialog # <<>> /\ tab.dialog[1] = v /\ stored[tab.dialog[2]] \in CardGone[v]}
           t    == [tab EXCEPT !.dialog = IF gone # {} THEN <<>> ELSE @]
           cs   == Unmounted(gone, "page")
<1>1. click' = cs /\ tab' = t /\ seen' = stored /\ UNCHANGED <<screen, stored, elsewhere>>
  BY DEF LiveQuery
<1>2. /\ t \in TabState /\ t.dialog = (IF gone # {} THEN <<>> ELSE tab.dialog)
      /\ t.mount = tab.mount /\ t.banner = tab.banner /\ t.panel = tab.panel
  BY DashTypes DEF TabState
<1>3. DialogOK(t)
  BY <1>2, DashTypes DEF DialogOK
<1>4. /\ cs \in [Clicks -> Click]
      /\ \A n \in Clicks :
           /\ cs[n].verb = click[n].verb /\ cs[n].on = click[n].on /\ cs[n].mount = click[n].mount
           /\ cs[n].phase = click[n].phase /\ cs[n].took = click[n].took /\ cs[n].told = click[n].told
           /\ cs[n].heard = IF click[n].verb \in gone /\ click[n].heard = "form" THEN "page" ELSE click[n].heard
  BY UnmountedIs
<1>5. \A v \in gone : v \in Dialogs /\ tab.dialog # <<>> /\ tab.dialog[1] = v
  OBVIOUS
<1> HIDE DEF t, cs, gone
<1>6. ASSUME NEW n \in Clicks
      PROVE  WaitsOnScreen(cs[n], t)
  <2>1. WaitsOnScreen(click[n], tab)
    BY DashTypes
  <2>2. cs[n].heard = "form" /\ cs[n].phase \in Waiting /\ cs[n].verb \in Dialogs => t.dialog = <<cs[n].verb, cs[n].on>>
    <3>1. SUFFICES ASSUME cs[n].heard = "form", cs[n].phase \in Waiting, cs[n].verb \in Dialogs
                   PROVE  t.dialog = <<cs[n].verb, cs[n].on>>
      OBVIOUS
    <3>2. click[n].heard = "form" /\ click[n].verb \notin gone
      BY <1>4, <3>1
    <3>3. tab.dialog = <<click[n].verb, click[n].on>>
      BY <1>4, <2>1, <3>1, <3>2 DEF WaitsOnScreen
    <3>4. tab.dialog[1] = click[n].verb
      BY <3>3
    <3>5. gone = {}
      BY <1>5, <3>2, <3>4
    <3>6. QED
      BY <1>2, <1>4, <3>3, <3>5
  <2>3. "grant" \notin gone
    BY <1>5, VerbsAre
  <2>4. cs[n].heard = "page" => cs[n].verb \in Dialogs
    BY <1>4, <1>5, <2>1 DEF WaitsOnScreen
  <2>5. cs[n].verb = "grant" /\ cs[n].mount = t.mount => cs[n].heard = "form"
    BY <1>2, <1>4, <2>1, <2>3 DEF WaitsOnScreen
  <2>6. cs[n].heard = "form" => click[n].heard = "form"
    BY <1>4
  <2>7. QED
    BY <1>2, <1>4, <2>1, <2>2, <2>4, <2>5, <2>6 DEF WaitsOnScreen
<1>7. \A n \in Clicks : cs[n].heard = "form" => click[n].heard = "form"
  BY <1>4
<1>8. seen' \in [Things -> Rows]
  BY <1>1, DashTypes
<1>9. QED
  BY <1>1, <1>2, <1>3, <1>4, <1>6, <1>7, <1>8, LeavesKeep

LEMMA ReloadOK ==
  ASSUME DashboardInv, Reload
  PROVE  DashboardInv'
<1> DEFINE t  == FreshTab(tab.mount + 1)
           cs == [n \in Clicks |-> [click[n] EXCEPT !.heard = "nobody"]]
<1>1. click' = cs /\ tab' = t /\ seen' = stored /\ tab.mount < MaxMounts /\ UNCHANGED <<screen, stored, elsewhere>>
  BY DEF Reload
<1>2. tab.mount \in Nat /\ tab.mount + 1 \in 1..MaxMounts
  BY <1>1, DashTypes, DashboardAssumption DEF TabState
<1>3. t \in TabState /\ t.dialog = <<>> /\ t.mount = tab.mount + 1 /\ t.banner = Nothing
  <2>1. (CHOOSE x \in Things : TRUE) \in Things
    BY DashboardAssumption
  <2>2. QED
    BY <1>2, <2>1 DEF FreshTab, TabState
<1>4. DialogOK(t)
  BY <1>3 DEF DialogOK
<1>5. ASSUME NEW n \in Clicks
      PROVE  /\ cs[n] \in Click
             /\ cs[n].verb = click[n].verb /\ cs[n].on = click[n].on /\ cs[n].mount = click[n].mount
             /\ cs[n].phase = click[n].phase /\ cs[n].took = click[n].took /\ cs[n].told = click[n].told
             /\ cs[n].heard = "nobody"
  BY DashTypes DEF Click
<1>6. cs \in [Clicks -> Click]
  BY <1>5
<1> HIDE DEF t, cs
<1>7. ASSUME NEW n \in Clicks
      PROVE  WaitsOnScreen(cs[n], t)
  <2>1. click[n].verb \in Verbs[screen] /\ click[n].mount <= tab.mount /\ click[n].mount \in Nat
    BY DashTypes, DashboardAssumption DEF WaitsOnScreen, Click
  <2>2. QED
    BY <1>2, <1>3, <1>5, <2>1 DEF WaitsOnScreen
<1>8. seen' \in [Things -> Rows]
  BY <1>1, DashTypes
<1>9. QED
  BY <1>1, <1>3, <1>4, <1>5, <1>6, <1>7, <1>8, LeavesKeep

LEMMA DashStepOK == DashboardInv /\ [DashboardNext]_dashboardVars => DashboardInv'
<1>1. SUFFICES ASSUME DashboardInv, [DashboardNext]_dashboardVars
               PROVE  DashboardInv'
  OBVIOUS
<1>2. CASE UNCHANGED dashboardVars
  <2>1. ClicksOK(click', tab') /\ UNCHANGED <<screen, stored, seen, tab, click, elsewhere>>
    BY <1>1, <1>2 DEF dashboardVars, DashboardInv
  <2>2. Len(click') <= MaxClicks
    BY <1>1, <2>1, DashTypes, DashboardAssumption
  <2>3. QED
    BY <1>1, <2>1, <2>2, DashTypes, DashKeeps
<1>3. ASSUME NEW x \in Things,
             \/ RevokeDeviceDialog(x) \/ ForgetDeviceDialog(x) \/ RevokeApiKeyDialog(x)
             \/ RemoveConnectionDialog(x)
      PROVE  DashboardInv'
  BY <1>1, <1>3, ConfirmationOK, VerbsAre
     DEF RevokeDeviceDialog, ForgetDeviceDialog, RevokeApiKeyDialog, RemoveConnectionDialog
<1>4. ASSUME NEW x \in Things,
             \/ PermissionsTable(x) \/ ApprovalsTable(x)
             \/ PairApproval(x) \/ CreateApiKeyForm(x) \/ AuthorizeConsent(x)
      PROVE  DashboardInv'
  BY <1>1, <1>4, ButtonsOK, TabStepsOK DEF AuthorizeConsent
<1>5. ASSUME NEW x \in Things, SignInForm(x) \/ ConnectPanel(x) \/ ConnectKeyForm(x)
      PROVE  DashboardInv'
  BY <1>1, <1>5, FormsOK, SwitchOK DEF SignInForm
<1>6. ASSUME DismissKey
      PROVE  DashboardInv'
  BY <1>1, <1>6, TabStepsOK, DashboardAssumption
<1>7. QED
  BY <1>1, <1>2, <1>3, <1>4, <1>5, <1>6, PickConnectorOK, DecidedOK, HeardOK, ElsewhereOK, LiveQueryOK, ReloadOK
     DEF DashboardNext

\* The inductive invariant holds in every state.
THEOREM DashboardInvariant == DashboardSpec => []DashboardInv
BY DashInitOK, DashStepOK, PTL DEF DashboardSpec

\* Type correctness of the rows, the tab and the clicks.
THEOREM DashboardTyped == DashboardSpec => []DashboardTypeOK
<1>1. DashboardInv => DashboardTypeOK
  BY DEF DashboardInv
<1>2. QED
  BY <1>1, DashboardInvariant, PTL

\* Whatever other tabs do meanwhile and whenever answers come, are lost or find their
\* form gone: what a tab says of a click is what became of it.
THEOREM TabTellsTheTruth == DashboardSpec => []DashboardSound
<1>1. DashboardInv => DashboardSound
  <2>1. SUFFICES ASSUME DashboardInv
                 PROVE  DashboardSound
    OBVIOUS
  <2>2. BannerIsEarned
    BY <2>1, DashTypes DEF EarnedBy, BannerIsEarned, Clicks
  <2>3. StaysForTheOutcome
    BY <2>1, DashTypes DEF StaysForTheOutcome, WaitsOnScreen, Awaited, Mounted, Waiting
  <2>4. GrantsOnce
    <3>1. SUFFICES ASSUME NEW m \in Clicks, NEW n \in Clicks, m # n, click[m].verb = "grant", click[n].verb = "grant",
                          click[m].took, click[n].took, click[m].mount = click[n].mount
                   PROVE  FALSE
      BY DEF GrantsOnce
    <3>2. ApartOK(click[m], click[n]) /\ OutcomeOK(click[m]) /\ OutcomeOK(click[n])
      BY <2>1, <3>1, DashTypes
    <3>3. QED
      BY <3>1, <3>2 DEF ApartOK, OutcomeOK
  <2>5. SubmitsWhatItShows
    BY <2>1, DashTypes DEF SubmitsWhatItShows, WaitsOnScreen, Awaited, Mounted, Waiting
  <2>6. ToldTheTruth
    BY <2>1, DashTypes DEF ToldTheTruth, OutcomeOK
  <2>7. QED
    BY <2>2, <2>3, <2>4, <2>5, <2>6 DEF DashboardSound
<1>2. QED
  BY <1>1, DashboardInvariant, PTL

-----------------------------------------------------------------------------
(* The services together.                                                   *)

\* A step of the composition is a step of each component or leaves it alone.
LEMMA ServicesStep ==
  ASSUME [ServicesNext]_servicesVars
  PROVE  /\ UNCHANGED component
         /\ [CredNext]_credVars
         /\ [LeaseNext]_leaseVars
         /\ [RemoteNext]_remoteVars
         /\ [BridgeNext]_bridgeVars
         /\ [ApiNext]_apiVars
         /\ [PairNext]_pairVars
         /\ [FlowNext]_flowVars
         /\ [ExecNext]_execVars
         /\ [KeyNext]_keyVars
         /\ [LocalNext]_localVars
         /\ [ReplayFileNext]_replayFileVars
         /\ [EdgeNext]_edgeVars
         /\ [McpNext]_mcpVars
         /\ [ReviewNext]_reviewVars
         /\ [DeployNext]_deployVars
         /\ [DashboardNext]_dashboardVars
<1>1. UNCHANGED component
  BY DEF ServicesNext, servicesVars, Others,
        CredStep, LeaseStep, RemoteStep, BridgeStep, ApiStep, PairStep,
        FlowStep, ExecStep, KeyStep, LocalStep, ReplayFileStep, EdgeStep,
        McpStep, ReviewStep, DeployStep, DashboardStep
<1>2. [CredNext]_credVars
  BY DEF ServicesNext, servicesVars, Others,
        CredStep, LeaseStep, RemoteStep, BridgeStep, ApiStep, PairStep,
        FlowStep, ExecStep, KeyStep, LocalStep, ReplayFileStep, EdgeStep,
        McpStep, ReviewStep, DeployStep, DashboardStep
<1>3. [LeaseNext]_leaseVars
  BY DEF ServicesNext, servicesVars, Others,
        CredStep, LeaseStep, RemoteStep, BridgeStep, ApiStep, PairStep,
        FlowStep, ExecStep, KeyStep, LocalStep, ReplayFileStep, EdgeStep,
        McpStep, ReviewStep, DeployStep, DashboardStep
<1>4. [RemoteNext]_remoteVars
  BY DEF ServicesNext, servicesVars, Others,
        CredStep, LeaseStep, RemoteStep, BridgeStep, ApiStep, PairStep,
        FlowStep, ExecStep, KeyStep, LocalStep, ReplayFileStep, EdgeStep,
        McpStep, ReviewStep, DeployStep, DashboardStep
<1>5. [BridgeNext]_bridgeVars
  BY DEF ServicesNext, servicesVars, Others,
        CredStep, LeaseStep, RemoteStep, BridgeStep, ApiStep, PairStep,
        FlowStep, ExecStep, KeyStep, LocalStep, ReplayFileStep, EdgeStep,
        McpStep, ReviewStep, DeployStep, DashboardStep
<1>6. [ApiNext]_apiVars
  BY DEF ServicesNext, servicesVars, Others,
        CredStep, LeaseStep, RemoteStep, BridgeStep, ApiStep, PairStep,
        FlowStep, ExecStep, KeyStep, LocalStep, ReplayFileStep, EdgeStep,
        McpStep, ReviewStep, DeployStep, DashboardStep
<1>7. [PairNext]_pairVars
  BY DEF ServicesNext, servicesVars, Others,
        CredStep, LeaseStep, RemoteStep, BridgeStep, ApiStep, PairStep,
        FlowStep, ExecStep, KeyStep, LocalStep, ReplayFileStep, EdgeStep,
        McpStep, ReviewStep, DeployStep, DashboardStep
<1>8. [FlowNext]_flowVars
  BY DEF ServicesNext, servicesVars, Others,
        CredStep, LeaseStep, RemoteStep, BridgeStep, ApiStep, PairStep,
        FlowStep, ExecStep, KeyStep, LocalStep, ReplayFileStep, EdgeStep,
        McpStep, ReviewStep, DeployStep, DashboardStep
<1>9. [ExecNext]_execVars
  BY DEF ServicesNext, servicesVars, Others,
        CredStep, LeaseStep, RemoteStep, BridgeStep, ApiStep, PairStep,
        FlowStep, ExecStep, KeyStep, LocalStep, ReplayFileStep, EdgeStep,
        McpStep, ReviewStep, DeployStep, DashboardStep
<1>10. [KeyNext]_keyVars
  BY DEF ServicesNext, servicesVars, Others,
        CredStep, LeaseStep, RemoteStep, BridgeStep, ApiStep, PairStep,
        FlowStep, ExecStep, KeyStep, LocalStep, ReplayFileStep, EdgeStep,
        McpStep, ReviewStep, DeployStep, DashboardStep
<1>11. [LocalNext]_localVars
  BY DEF ServicesNext, servicesVars, Others,
        CredStep, LeaseStep, RemoteStep, BridgeStep, ApiStep, PairStep,
        FlowStep, ExecStep, KeyStep, LocalStep, ReplayFileStep, EdgeStep,
        McpStep, ReviewStep, DeployStep, DashboardStep
<1>12. [ReplayFileNext]_replayFileVars
  BY DEF ServicesNext, servicesVars, Others,
        CredStep, LeaseStep, RemoteStep, BridgeStep, ApiStep, PairStep,
        FlowStep, ExecStep, KeyStep, LocalStep, ReplayFileStep, EdgeStep,
        McpStep, ReviewStep, DeployStep, DashboardStep
<1>13. [EdgeNext]_edgeVars
  BY DEF ServicesNext, servicesVars, Others,
        CredStep, LeaseStep, RemoteStep, BridgeStep, ApiStep, PairStep,
        FlowStep, ExecStep, KeyStep, LocalStep, ReplayFileStep, EdgeStep,
        McpStep, ReviewStep, DeployStep, DashboardStep
<1>14. [McpNext]_mcpVars
  BY DEF ServicesNext, servicesVars, Others,
        CredStep, LeaseStep, RemoteStep, BridgeStep, ApiStep, PairStep,
        FlowStep, ExecStep, KeyStep, LocalStep, ReplayFileStep, EdgeStep,
        McpStep, ReviewStep, DeployStep, DashboardStep
<1>15. [ReviewNext]_reviewVars
  BY DEF ServicesNext, servicesVars, Others,
        CredStep, LeaseStep, RemoteStep, BridgeStep, ApiStep, PairStep,
        FlowStep, ExecStep, KeyStep, LocalStep, ReplayFileStep, EdgeStep,
        McpStep, ReviewStep, DeployStep, DashboardStep
<1>16. [DeployNext]_deployVars
  BY DEF ServicesNext, servicesVars, Others,
        CredStep, LeaseStep, RemoteStep, BridgeStep, ApiStep, PairStep,
        FlowStep, ExecStep, KeyStep, LocalStep, ReplayFileStep, EdgeStep,
        McpStep, ReviewStep, DeployStep, DashboardStep
<1>17. [DashboardNext]_dashboardVars
  BY DEF ServicesNext, servicesVars, Others,
        CredStep, LeaseStep, RemoteStep, BridgeStep, ApiStep, PairStep,
        FlowStep, ExecStep, KeyStep, LocalStep, ReplayFileStep, EdgeStep,
        McpStep, ReviewStep, DeployStep, DashboardStep
<1>18. QED
  BY <1>1, <1>2, <1>3, <1>4, <1>5, <1>6, <1>7, <1>8, <1>9, <1>10, <1>11, <1>12, <1>13, <1>14, <1>15, <1>16, <1>17

\* What TLC runs as MCServices is each of the sixteen components, whichever of them
\* the behaviour is of: what is proved of a component holds there.
THEOREM ServicesAreTheirComponents ==
  ServicesSpec =>
    /\ CredSpec /\ LeaseSpec /\ RemoteSpec /\ BridgeSpec
    /\ ApiSpec /\ PairSpec /\ FlowSpec /\ ExecSpec
    /\ KeySpec /\ LocalSpec /\ ReplayFileSpec /\ EdgeSpec
    /\ McpSpec /\ ReviewSpec /\ DeploySpec /\ DashboardSpec
<1>1. ServicesInit =>
        /\ CredInit /\ LeaseInit /\ RemoteInit /\ BridgeInit
        /\ ApiInit /\ PairInit /\ FlowInit /\ ExecInit
        /\ KeyInit /\ LocalInit /\ ReplayFileInit /\ EdgeInit
        /\ McpInit /\ ReviewInit /\ DeployInit /\ DashboardInit
  BY DEF ServicesInit
<1>2. QED
  BY <1>1, ServicesStep, PTL
     DEF ServicesSpec, CredSpec, LeaseSpec, RemoteSpec, BridgeSpec, ApiSpec, PairSpec, FlowSpec, ExecSpec,
         KeySpec, LocalSpec, ReplayFileSpec, EdgeSpec, McpSpec, ReviewSpec, DeploySpec, DashboardSpec

\* Type correctness of all the services at once.
THEOREM ServicesTyped == ServicesSpec => []ServicesTypeOK
<1>1. ServicesSpec => [](CredTypeOK /\ LeaseTypeOK /\ RemoteTypeOK /\ BridgeTypeOK)
  BY ServicesAreTheirComponents, CredentialTyped, LeaseTypeCorrect, RemoteTyped, BridgeTyped, PTL
<1>2. ServicesSpec => [](ApiTypeOK /\ PairTypeOK /\ FlowTypeOK /\ ExecTypeOK)
  BY ServicesAreTheirComponents, AccessTyped, CodesAreUnique, ConnectedToItsOwn, ExecutionTyped, PTL
<1>3. ServicesSpec => [](KeyTypeOK /\ LocalTypeOK /\ ReplayFileTypeOK /\ EdgeTypeOK)
  <2>1. EdgeInv => EdgeTypeOK
    BY DEF EdgeInv
  <2>2. QED
    BY <2>1, ServicesAreTheirComponents, KeysTyped, LocalTyped, ReplayFileTyped, EdgeInvariant, PTL
<1>4. ServicesSpec => [](McpTypeOK /\ ReviewTypeOK /\ DeployTypeOK /\ DashboardTypeOK)
  <2>1. /\ McpInv => McpTypeOK
        /\ ReviewInv => ReviewTypeOK
    BY DEF McpInv, ReviewInv
  <2>2. QED
    BY <2>1, ServicesAreTheirComponents, McpInvariant, ReviewInvariant, DeployTyped, DashboardTyped, PTL
<1>5. CredTypeOK /\ LeaseTypeOK /\ RemoteTypeOK /\ BridgeTypeOK
        /\ ApiTypeOK /\ PairTypeOK /\ FlowTypeOK /\ ExecTypeOK
        /\ KeyTypeOK /\ LocalTypeOK /\ ReplayFileTypeOK /\ EdgeTypeOK
        /\ McpTypeOK /\ ReviewTypeOK /\ DeployTypeOK /\ DashboardTypeOK
        => ServicesTypeOK
  BY DEF ServicesTypeOK
<1>6. QED
  BY <1>1, <1>2, <1>3, <1>4, <1>5, PTL

\* A remote server is neither given up for good nor asked twice, and a passing review
\* has compared all there is to compare (reliability.ts, adapter.ts,
\* verify-endpoints.ts).
THEOREM RemoteToolsAreSound == ServicesSpec => []RemoteToolsSound
<1>1. RemoteSound /\ ReviewSound => RemoteToolsSound
  BY DEF RemoteToolsSound
<1>2. QED
  BY <1>1, ServicesAreTheirComponents, BreakerIsSound, PassedReviewsAreSound, PTL

\* Nobody outruns or goes round a budget, an envelope does what it announces, and what
\* a tab says of a click is what became of it (rate_limits.ts, mcp/protocol.ts, the
\* dashboard's forms).
THEOREM FrontDoorIsSound == ServicesSpec => []FrontDoorSound
<1>1. EdgeSound /\ McpSound /\ DashboardSound => FrontDoorSound
  BY DEF FrontDoorSound
<1>2. QED
  BY <1>1, ServicesAreTheirComponents, BudgetsAreKept, EnvelopesAreSound, TabTellsTheTruth, PTL

\* The device's credential and the file behind its replay cache are kept, whatever
\* commands and agents of one machine overlap (commands.ts, replay-store.ts).
THEOREM AgentStateIsKept == ServicesSpec => AgentStateSound
BY ServicesAreTheirComponents, LocalCredentialIsKept, ReplayFileRemembers, PTL DEF AgentStateSound

=============================================================================
