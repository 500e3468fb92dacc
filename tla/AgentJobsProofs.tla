--------------------------- MODULE AgentJobsProofs ---------------------------
(***************************************************************************)
(* What holds of AgentJobs for every set of jobs, processes and            *)
(* deliveries, every capacity of the cache and every bound of the clock.   *)
(***************************************************************************)
EXTENDS AgentJobs, FiniteSetTheorems, WellFoundedInduction, TLAPS

Fresh(d) == delivery[d].step \in {"fresh", "running"}

\* Who has a job and a process, and what a delivery knows about its row.
DeliveriesAgree ==
  \A d \in Deliveries :
    /\ delivery[d].step = "unused" => delivery[d] = NoDelivery
    /\ delivery[d].step \notin {"unused", "over"} =>
         delivery[d].job \in Jobs /\ delivery[d].agent \in Agents
    /\ delivery[d].at <= now
    /\ Fresh(d) => delivery[d].row # 0

\* A row lasts as long as the envelope it was inserted for, and was inserted in
\* the past.
RowsLast ==
  \A k \in DOMAIN rows :
    /\ expiresAt[rows[k].job] <= rows[k].until
    /\ rows[k].until <= 2 * MaxTime
    /\ rows[k].at <= now

\* The table has every row of the window a replay guard promises to keep.
WindowHeld ==
  \A k \in DOMAIN rows :
    rows[k].until > now /\ Len(rows) - k < MaxEntries => k \in held

\* A repeated row was inserted after the window of the first one.
RepeatsAreLate ==
  \A i, k \in DOMAIN rows : Repeats(i, k) => rows[i].until <= rows[k].at

\* A cancel frame reaches an execution for as long as it runs, unless its job
\* was accepted twice (jobs.ts, the in-flight table).
RunningIsCancellable ==
  \A d \in Deliveries : Running(d) =>
    \/ inflight[delivery[d].agent][delivery[d].job] = d
    \/ \E e \in Deliveries \ {d} : delivery[e].job = delivery[d].job /\ delivery[e].row # 0

\* RepeatsOnlyAtExpiry speaks of the rows inserted so far; what decides the next
\* insert is which of them the table still has.
IInv ==
  /\ TypeOK
  /\ DeliveriesAgree
  /\ RowsLast
  /\ WindowHeld
  /\ RepeatsAreLate
  /\ RunningIsCancellable

-----------------------------------------------------------------------------
\* The natural numbers are well ordered.
LEMMA LeastElement ==
  ASSUME NEW S \in SUBSET Nat, S # {}
  PROVE  \E x \in S : \A y \in S : x <= y
<1>1. \E x \in S : \A y \in S : ~ (<<y, x>> \in OpToRel(<, Nat))
  BY NatLessThanWellFounded, WFMin
<1>2. \A x, y \in Nat : x <= y \/ <<y, x>> \in OpToRel(<, Nat)
  BY DEF OpToRel
<1>3. QED
  BY <1>1, <1>2

\* The eviction leaves at most MaxEntries rows.
LEMMA YoungestFits ==
  ASSUME NEW n \in Nat, NEW S \in SUBSET 1..n
  PROVE  /\ Youngest(S) \subseteq S
         /\ IsFiniteSet(Youngest(S))
         /\ Cardinality(Youngest(S)) <= MaxEntries
<1>0. IsFiniteSet(1..n)
  BY FS_Interval
<1>1. IsFiniteSet(S)
  BY <1>0, FS_Subset
<1>2. Youngest(S) \subseteq S
  BY DEF Youngest
<1>2a. Youngest(S) \in SUBSET Nat
  <2>1. \A y \in 1..n : y \in Nat
    OBVIOUS
  <2>2. QED
    BY <1>2, <2>1
<1>3. IsFiniteSet(Youngest(S))
  BY <1>1, <1>2, FS_Subset
<1>4. CASE Youngest(S) = {}
  BY <1>2, <1>3, <1>4, FS_EmptySet, AgentJobsAssumption
<1>5. CASE Youngest(S) # {}
  <2>1. PICK x \in Youngest(S) : \A y \in Youngest(S) : x <= y
    BY <1>2a, <1>5, LeastElement
  <2> DEFINE R == {m \in S : m > x}
  <2>2. IsFiniteSet(R) /\ Cardinality(R) < MaxEntries
    BY <1>1, <2>1, FS_Subset DEF Youngest
  <2>3. ASSUME NEW y \in Youngest(S)
        PROVE  y \in R \cup {x}
    BY <1>2, <1>2a, <2>1
  <2>4. IsFiniteSet(R \cup {x}) /\ Cardinality(R \cup {x}) <= Cardinality(R) + 1
    <3>1. Cardinality(R) \in Nat
      BY <2>2, FS_CardinalityType
    <3>2. /\ IsFiniteSet(R \cup {x})
          /\ Cardinality(R \cup {x}) = IF x \in R THEN Cardinality(R) ELSE Cardinality(R) + 1
      <4> HIDE DEF R
      <4>1. QED
        BY <2>2, FS_AddElement
    <3>3. QED
      BY <3>1, <3>2
  <2>5. Cardinality(Youngest(S)) <= Cardinality(R \cup {x})
    BY <2>3, <2>4, FS_Subset
  <2>6. /\ Cardinality(R) \in Nat /\ Cardinality(R \cup {x}) \in Nat
        /\ Cardinality(Youngest(S)) \in Nat
    BY <2>2, <2>4, <1>3, FS_CardinalityType
  <2>7. QED
    BY <1>2, <1>3, <2>2, <2>4, <2>5, <2>6, AgentJobsAssumption
<1>6. QED
  BY <1>4, <1>5

\* The eviction keeps the rows that fewer than MaxEntries rows can follow.
LEMMA YoungestKeepsWindow ==
  ASSUME NEW n \in Nat, NEW S \in SUBSET 1..n, NEW k \in S, n - k < MaxEntries
  PROVE  k \in Youngest(S)
<1> DEFINE R == {m \in S : m > k}
<1>1. k \in 1..n /\ k + 1 \in Int /\ n \in Int
  OBVIOUS
<1>1a. R \subseteq (k + 1)..n
  <2>1. ASSUME NEW m \in R
        PROVE  m \in (k + 1)..n
    <3>1. m \in 1..n /\ m > k
      OBVIOUS
    <3>2. QED
      BY <1>1, <3>1
  <2>2. QED
    BY <2>1
<1>2. IsFiniteSet((k + 1)..n) /\ Cardinality((k + 1)..n) <= n - k
  <2>1. /\ IsFiniteSet((k + 1)..n)
        /\ Cardinality((k + 1)..n) = IF k + 1 > n THEN 0 ELSE n - (k + 1) + 1
    BY <1>1, FS_Interval
  <2>2. QED
    BY <1>1, <2>1
<1>3. IsFiniteSet(R) /\ Cardinality(R) <= Cardinality((k + 1)..n)
  BY <1>1a, <1>2, FS_Subset
<1>4. Cardinality(R) \in Nat /\ Cardinality((k + 1)..n) \in Nat
  BY <1>2, <1>3, FS_CardinalityType
<1>5. Cardinality(R) < MaxEntries
  BY <1>1, <1>2, <1>3, <1>4, AgentJobsAssumption
<1>6. QED
  BY <1>5 DEF Youngest

-----------------------------------------------------------------------------
(* Type correctness.                                                       *)

LEMMA InitIInv == Init => IInv
<1> SUFFICES ASSUME Init
             PROVE  IInv
  OBVIOUS
<1> USE AgentJobsAssumption DEF Init
<1>1. TypeOK
  <2>1. IsFiniteSet({}) /\ Cardinality({}) = 0
    BY FS_EmptySet
  <2>2. QED
    BY <2>1 DEF TypeOK, NoDelivery, Delivery, Steps, Row
<1>2. DeliveriesAgree
  BY DEF DeliveriesAgree, NoDelivery, Fresh
<1>3. RowsLast /\ WindowHeld /\ RepeatsAreLate
  BY DEF RowsLast, WindowHeld, RepeatsAreLate
<1>4. RunningIsCancellable
  BY DEF RunningIsCancellable, Running, NoDelivery
<1>5. QED
  BY <1>1, <1>2, <1>3, <1>4 DEF IInv

\* What a step may do to the clock and the cache: time passes, or one
\* transaction inserts a row or prunes.
CacheStep ==
  \/ UNCHANGED <<rows, held, now>>
  \/ Tick
  \/ \E d \in Deliveries : \E t \in delivery[d].at..now :
       /\ delivery[d].step = "claiming"
       /\ UNCHANGED now
       /\ Insert(d, t) \/ Ignore(d, t)

LEMMA NextCacheStep ==
  ASSUME [Next]_vars
  PROVE  CacheStep /\ UNCHANGED expiresAt
<1>1. CASE UNCHANGED vars
  BY <1>1 DEF vars, CacheStep
<1>2. CASE Tick
  BY <1>2 DEF Tick, CacheStep
<1>3. ASSUME NEW d \in Deliveries, Claim(d)
      PROVE  CacheStep /\ UNCHANGED expiresAt
  BY <1>3 DEF Claim, CacheStep
<1>4. ASSUME NEW d \in Deliveries,
             \/ Verify(d) \/ VerifyFails(d) \/ AskCache(d) \/ ClaimFails(d)
             \/ Begin(d) \/ NotAllowed(d) \/ Finish(d)
             \/ \E j \in Jobs, a \in Agents : Deliver(d, j, a)
      PROVE  CacheStep /\ UNCHANGED expiresAt
  BY <1>4 DEF Verify, VerifyFails, AskCache, ClaimFails, Begin, NotAllowed, Finish, Deliver,
              CacheStep
<1>5. ASSUME NEW a \in Agents, Restart(a) \/ \E j \in Jobs : Cancel(a, j)
      PROVE  CacheStep /\ UNCHANGED expiresAt
  BY <1>5 DEF Restart, Remembered, Cancel, CacheStep
<1>6. QED
  BY <1>1, <1>2, <1>3, <1>4, <1>5 DEF Next, Run

\* The end of a new row's window.
LEMMA UntilInRange ==
  ASSUME TypeOK, DeliveriesAgree, NEW d \in Deliveries, delivery[d].step = "claiming",
         NEW t \in delivery[d].at..now
  PROVE  /\ t \in Nat /\ delivery[d].job \in Jobs
         /\ t + Ttl(d) \in Nat
         /\ expiresAt[delivery[d].job] <= t + Ttl(d)
         /\ t + Ttl(d) <= 2 * MaxTime
<1>1. delivery[d] \in Delivery /\ delivery[d].job \in Jobs
  BY DEF TypeOK, DeliveriesAgree
<1>2. delivery[d].at \in Nat /\ expiresAt[delivery[d].job] \in 1..MaxTime /\ now \in 0..MaxTime
  BY <1>1 DEF TypeOK, Delivery
<1>3. QED
  BY <1>1, <1>2, AgentJobsAssumption DEF Ttl, Larger

LEMMA KeptHeld ==
  ASSUME TypeOK, NEW t
  PROVE  Kept(t) \subseteq held /\ held \subseteq 1..Len(rows) /\ Len(rows) \in Nat
BY DEF Kept, TypeOK

\* An insert appends a row of the right type.
LEMMA InsertRow ==
  ASSUME TypeOK, DeliveriesAgree, NEW d \in Deliveries, delivery[d].step = "claiming",
         NEW t \in delivery[d].at..now, Insert(d, t)
  PROVE  /\ rows' \in Seq(Row) /\ Len(rows') = Len(rows) + 1
         /\ DOMAIN rows = 1..Len(rows) /\ DOMAIN rows' = 1..Len(rows')
         /\ \A k \in DOMAIN rows : rows'[k] = rows[k]
         /\ rows'[Len(rows')] = [job |-> delivery[d].job, until |-> t + Ttl(d), at |-> now]
<1>1. [job |-> delivery[d].job, until |-> t + Ttl(d), at |-> now] \in Row
  BY UntilInRange DEF TypeOK, Row
<1>2. rows \in Seq(Row)
  BY DEF TypeOK
<1>3. QED
  BY <1>1, <1>2 DEF Insert

LEMMA CacheTypes ==
  ASSUME TypeOK, DeliveriesAgree, CacheStep
  PROVE  /\ now' \in 0..MaxTime
         /\ rows' \in Seq(Row)
         /\ held' \subseteq DOMAIN rows' /\ Cardinality(held') <= MaxEntries
<1> USE AgentJobsAssumption
<1>1. CASE UNCHANGED <<rows, held, now>>
  BY <1>1 DEF TypeOK
<1>2. CASE Tick
  BY <1>2 DEF TypeOK, Tick
<1>3. ASSUME NEW d \in Deliveries, NEW t \in delivery[d].at..now, delivery[d].step = "claiming",
             UNCHANGED now, Insert(d, t)
      PROVE  /\ now' \in 0..MaxTime
             /\ rows' \in Seq(Row)
             /\ held' \subseteq DOMAIN rows' /\ Cardinality(held') <= MaxEntries
  <2> DEFINE S == Kept(t) \cup {Len(rows) + 1}
  <2>1. /\ rows' \in Seq(Row) /\ DOMAIN rows' = 1..(Len(rows) + 1)
        /\ Len(rows) + 1 \in Nat
    <3>1. Len(rows) \in Nat
      BY DEF TypeOK
    <3>2. rows' \in Seq(Row) /\ Len(rows') = Len(rows) + 1 /\ DOMAIN rows' = 1..Len(rows')
      BY <1>3, InsertRow
    <3>3. QED
      BY <3>1, <3>2
  <2>2. S \in SUBSET (1..(Len(rows) + 1))
    BY KeptHeld
  <2>3. Youngest(S) \subseteq S /\ Cardinality(Youngest(S)) <= MaxEntries
    BY <2>1, <2>2, YoungestFits
  <2>4. held' = Youngest(S)
    BY <1>3 DEF Insert
  <2>5. QED
    BY <1>3, <2>1, <2>2, <2>3, <2>4 DEF TypeOK
<1>4. ASSUME NEW d \in Deliveries, NEW t, Ignore(d, t), UNCHANGED now
      PROVE  /\ now' \in 0..MaxTime
             /\ rows' \in Seq(Row)
             /\ held' \subseteq DOMAIN rows' /\ Cardinality(held') <= MaxEntries
  <2>1. rows' = rows /\ held' \subseteq held
    BY <1>4, KeptHeld DEF Ignore
  <2>2. IsFiniteSet(1..Len(rows)) /\ held \subseteq 1..Len(rows)
    BY FS_Interval, KeptHeld
  <2>3. IsFiniteSet(held)
    BY <2>2, FS_Subset
  <2>4. IsFiniteSet(held') /\ Cardinality(held') <= Cardinality(held)
    BY <2>1, <2>3, FS_Subset
  <2>5. Cardinality(held') \in Nat /\ Cardinality(held) \in Nat
    BY <2>3, <2>4, FS_CardinalityType
  <2>6. QED
    BY <1>4, <2>1, <2>4, <2>5 DEF TypeOK
<1>5. QED
  BY <1>1, <1>2, <1>3, <1>4 DEF CacheStep

-----------------------------------------------------------------------------
(* The cache keeps its window.                                             *)

\* What the rows say stays true, and the table keeps the rows of the window.
LEMMA CacheKeepsWindow ==
  ASSUME IInv, CacheStep, UNCHANGED expiresAt
  PROVE  RowsLast' /\ WindowHeld' /\ RepeatsAreLate'
<1> USE DEF IInv
<1>0. /\ rows \in Seq(Row) /\ Len(rows) \in Nat /\ DOMAIN rows = 1..Len(rows)
      /\ \A k \in DOMAIN rows : rows[k].until \in Nat /\ rows[k].at \in Nat
      /\ now \in Nat
  <2>1. rows \in Seq(Row) /\ now \in Nat
    BY DEF TypeOK
  <2>2. Len(rows) \in Nat /\ DOMAIN rows = 1..Len(rows)
    BY <2>1
  <2>3. \A k \in DOMAIN rows : rows[k] \in Row
    BY <2>1
  <2>4. QED
    BY <2>1, <2>2, <2>3 DEF Row
<1>1. CASE UNCHANGED <<rows, held, now>>
  BY <1>1 DEF RowsLast, WindowHeld, RepeatsAreLate, Repeats
<1>2. CASE Tick
  <2>1. now' = now + 1 /\ UNCHANGED <<rows, held>>
    BY <1>2 DEF Tick
  <2>2. QED
    BY <1>0, <2>1 DEF RowsLast, WindowHeld, RepeatsAreLate, Repeats
<1>3. ASSUME NEW d \in Deliveries, NEW t \in delivery[d].at..now, delivery[d].step = "claiming",
             UNCHANGED now, Insert(d, t)
      PROVE  RowsLast' /\ WindowHeld' /\ RepeatsAreLate'
  <2> DEFINE n == Len(rows) + 1
  <2>1. /\ Len(rows') = n /\ DOMAIN rows' = 1..n /\ n \in Nat
        /\ \A k \in 1..Len(rows) : rows'[k] = rows[k]
        /\ rows'[n] = [job |-> delivery[d].job, until |-> t + Ttl(d), at |-> now]
    BY <1>0, <1>3, InsertRow
  <2>2. \A k \in 1..n : k = n \/ k \in 1..Len(rows)
    BY <1>0
  <2>3. /\ t \in Nat /\ t <= now /\ t + Ttl(d) \in Nat
        /\ expiresAt[delivery[d].job] <= t + Ttl(d)
        /\ t + Ttl(d) <= 2 * MaxTime
    BY <1>0, <1>3, UntilInRange
  <2>4. RowsLast'
    <3>1. ASSUME NEW k \in 1..n
          PROVE  /\ expiresAt[rows'[k].job] <= rows'[k].until
                 /\ rows'[k].until <= 2 * MaxTime
                 /\ rows'[k].at <= now
      <4>1. CASE k = n
        BY <1>0, <2>1, <2>3, <4>1
      <4>2. CASE k \in 1..Len(rows)
        BY <1>0, <2>1, <4>2 DEF RowsLast
      <4>3. QED
        BY <2>2, <4>1, <4>2
    <3>2. QED
      BY <1>3, <2>1, <3>1 DEF RowsLast
  <2>5. ASSUME NEW k \in 1..n, rows'[k].until > now, n - k < MaxEntries
        PROVE  k \in held'
    <3>1. k \in Kept(t) \cup {n}
      <4>1. CASE k = n
        BY <4>1
      <4>2. CASE k \in 1..Len(rows)
        <5>1. rows[k].until > now /\ Len(rows) - k < MaxEntries
          BY <1>0, <2>1, <2>5, <4>2, AgentJobsAssumption
        <5>2. k \in held /\ rows[k].until > t
          BY <1>0, <2>3, <4>2, <5>1 DEF WindowHeld
        <5>3. QED
          BY <5>2 DEF Kept
      <4>3. QED
        BY <2>2, <4>1, <4>2
    <3>2. Kept(t) \cup {n} \in SUBSET (1..n)
      BY <2>1, KeptHeld
    <3>3. k \in Youngest(Kept(t) \cup {n})
      BY <2>1, <2>5, <3>1, <3>2, YoungestKeepsWindow
    <3>4. QED
      BY <1>3, <3>3 DEF Insert
  <2>6. WindowHeld'
    BY <1>3, <2>1, <2>5 DEF WindowHeld
  <2>7. ASSUME NEW i \in 1..n, NEW k \in 1..n,
               i < k, k - i <= MaxEntries, rows'[k].job = rows'[i].job
        PROVE  rows'[i].until <= rows'[k].at
    <3>1. i \in 1..Len(rows)
      BY <1>0, <2>2, <2>7
    <3>2. CASE k = n
      <4>1. Len(rows) - i < MaxEntries /\ rows[i].job = delivery[d].job
        BY <1>0, <2>1, <2>7, <3>1, <3>2, AgentJobsAssumption
      <4>2. ~(rows[i].until > now)
        <5>1. ASSUME rows[i].until > now
              PROVE  FALSE
          <6>1. i \in held /\ rows[i].until > t
            BY <1>0, <2>3, <3>1, <4>1, <5>1 DEF WindowHeld
          <6>2. i \in Kept(t)
            BY <6>1 DEF Kept
          <6>3. QED
            BY <1>3, <4>1, <6>2 DEF Insert
        <5>2. QED
          BY <5>1
      <4>3. rows'[i] = rows[i] /\ rows'[k].at = now
        BY <2>1, <3>1, <3>2
      <4>4. QED
        BY <1>0, <3>1, <4>2, <4>3
    <3>3. CASE k \in 1..Len(rows)
      BY <1>0, <2>1, <2>7, <3>1, <3>3 DEF RepeatsAreLate, Repeats
    <3>4. QED
      BY <2>2, <3>2, <3>3
  <2>8. RepeatsAreLate'
    BY <2>1, <2>7 DEF RepeatsAreLate, Repeats
  <2>9. QED
    BY <2>4, <2>6, <2>8
<1>4. ASSUME NEW d \in Deliveries, NEW t \in delivery[d].at..now, delivery[d].step = "claiming",
             UNCHANGED now, Ignore(d, t)
      PROVE  RowsLast' /\ WindowHeld' /\ RepeatsAreLate'
  <2>1. rows' = rows /\ held' = Kept(t)
    BY <1>4 DEF Ignore
  <2>2. t \in Nat /\ t <= now
    BY <1>0, <1>4, UntilInRange
  <2>3. RowsLast' /\ RepeatsAreLate'
    BY <1>4, <2>1 DEF RowsLast, RepeatsAreLate, Repeats
  <2>4. WindowHeld'
    BY <1>0, <1>4, <2>1, <2>2 DEF WindowHeld, Kept
  <2>5. QED
    BY <2>3, <2>4
<1>5. QED
  BY <1>1, <1>2, <1>3, <1>4 DEF CacheStep

-----------------------------------------------------------------------------
(* The deliveries and the in-flight table.                                 *)

Agrees(d) ==
  /\ delivery[d].step = "unused" => delivery[d] = NoDelivery
  /\ delivery[d].step \notin {"unused", "over"} =>
       delivery[d].job \in Jobs /\ delivery[d].agent \in Agents
  /\ delivery[d].at <= now
  /\ Fresh(d) => delivery[d].row # 0

\* An in-flight entry is of a running execution of its job in its process.
EntriesRun ==
  \A a \in Agents, j \in Jobs : inflight[a][j] # None =>
    LET d == inflight[a][j] IN Running(d) /\ delivery[d].job = j /\ delivery[d].agent = a

\* What a step does to one delivery: its type and the facts above are kept, and
\* what is known of an inserted row is not forgotten.
Changes(d) ==
  /\ delivery' \in [Deliveries -> Delivery]
  /\ \A e \in Deliveries \ {d} : delivery'[e] = delivery[e]
  /\ Agrees(d)'
  /\ delivery[d].row # 0 => delivery'[d].row # 0 /\ delivery'[d].job = delivery[d].job

\* A step that neither starts nor ends an execution.
Moves(d) == Changes(d) /\ ~Running(d) /\ ~Running(d)' /\ UNCHANGED inflight

LEMMA AgreesType ==
  ASSUME IInv, NEW d \in Deliveries
  PROVE  /\ delivery \in [Deliveries -> Delivery] /\ delivery[d] \in Delivery
         /\ Agrees(d) /\ now \in Nat /\ Len(rows) \in Nat
         /\ NoDelivery \in Delivery
BY DEF IInv, TypeOK, DeliveriesAgree, Agrees, Fresh, NoDelivery, Delivery, Steps

\* An answered or lost delivery remembers its job and its row.
LEMMA OverChanges ==
  ASSUME IInv, NEW d \in Deliveries
  PROVE  /\ Over(delivery[d]) \in Delivery
         /\ Over(delivery[d]).step = "over" /\ Over(delivery[d]).at = 0
         /\ Over(delivery[d]).job = delivery[d].job /\ Over(delivery[d]).row = delivery[d].row
BY AgreesType DEF Over, NoDelivery, Delivery, Steps

LEMMA AnswersChanges ==
  ASSUME IInv, NEW d \in Deliveries, NEW from, Answers(d, from), UNCHANGED now
  PROVE  Changes(d) /\ delivery[d].step = from /\ ~Running(d)'
<1>1. /\ delivery[d].step = from
      /\ delivery' = [delivery EXCEPT ![d] = Over(delivery[d])]
  BY DEF Answers
<1>2. delivery'[d] = Over(delivery[d]) /\ delivery' \in [Deliveries -> Delivery]
  BY <1>1, AgreesType, OverChanges
<1>3. \A e \in Deliveries \ {d} : delivery'[e] = delivery[e]
  BY <1>1, AgreesType
<1>4. Agrees(d)' /\ ~Running(d)'
  BY <1>2, AgreesType, OverChanges DEF Agrees, Fresh, Running
<1>5. QED
  BY <1>1, <1>2, <1>3, <1>4, OverChanges DEF Changes

LEMMA DeliverMoves ==
  ASSUME IInv, NEW d \in Deliveries, NEW j \in Jobs, NEW a \in Agents, Deliver(d, j, a)
  PROVE  Moves(d)
<1> DEFINE x == [NoDelivery EXCEPT !.job = j, !.agent = a, !.step = "verifying"]
<1>1. /\ delivery[d].step = "unused" /\ delivery[d].row = 0
      /\ delivery' = [delivery EXCEPT ![d] = x]
      /\ UNCHANGED <<now, inflight>>
  BY AgreesType DEF Deliver, Agrees, NoDelivery
<1>2. /\ x \in Delivery
      /\ x.step = "verifying" /\ x.job = j /\ x.agent = a /\ x.at = 0
  BY DEF NoDelivery, Delivery, Steps
<1> HIDE DEF x
<1>3. delivery'[d] = x /\ delivery' \in [Deliveries -> Delivery]
  BY <1>1, <1>2, AgreesType
<1>4. \A e \in Deliveries \ {d} : delivery'[e] = delivery[e]
  BY <1>1, AgreesType
<1>5. Agrees(d)' /\ ~Running(d)'
  BY <1>1, <1>2, <1>3, AgreesType DEF Agrees, Fresh, Running
<1>6. QED
  BY <1>1, <1>3, <1>4, <1>5 DEF Moves, Changes, Running

LEMMA RunMoves ==
  ASSUME IInv, NEW d \in Deliveries,
         \/ Verify(d) \/ VerifyFails(d) \/ AskCache(d) \/ Claim(d) \/ ClaimFails(d)
         \/ NotAllowed(d)
  PROVE  Moves(d)
<1>0. /\ delivery \in [Deliveries -> Delivery] /\ delivery[d] \in Delivery
      /\ Agrees(d) /\ now \in Nat /\ Len(rows) \in Nat
  BY AgreesType
<1>1. CASE VerifyFails(d) \/ ClaimFails(d) \/ NotAllowed(d)
  <2>1. /\ \E from \in {"verifying", "claiming", "fresh"} : Answers(d, from)
        /\ UNCHANGED <<now, inflight>>
    BY <1>1 DEF VerifyFails, ClaimFails, NotAllowed
  <2>2. QED
    BY <2>1, AnswersChanges DEF Moves, Running
<1>2. CASE Verify(d)
  <2>1. /\ delivery[d].step = "verifying" /\ UNCHANGED <<now, inflight>>
        /\ delivery' = [delivery EXCEPT ![d].step = "verified"]
    BY <1>2 DEF Verify, Goes
  <2>2. /\ delivery' \in [Deliveries -> Delivery]
        /\ delivery'[d].step = "verified" /\ delivery'[d].at = delivery[d].at
        /\ delivery'[d].job = delivery[d].job /\ delivery'[d].agent = delivery[d].agent
        /\ delivery'[d].row = delivery[d].row
        /\ \A e \in Deliveries \ {d} : delivery'[e] = delivery[e]
    BY <1>0, <2>1 DEF Delivery, Steps
  <2>3. Agrees(d)'
    BY <1>0, <2>1, <2>2 DEF Agrees, Fresh, Delivery
  <2>4. QED
    BY <2>1, <2>2, <2>3 DEF Moves, Changes, Running
<1>3. CASE AskCache(d)
  <2>1. /\ delivery[d].step = "verified" /\ UNCHANGED <<now, inflight>>
        /\ delivery' = [delivery EXCEPT ![d].step = "claiming", ![d].at = now]
    BY <1>3 DEF AskCache
  <2>2. /\ delivery' \in [Deliveries -> Delivery]
        /\ delivery'[d].step = "claiming" /\ delivery'[d].at = now
        /\ delivery'[d].job = delivery[d].job /\ delivery'[d].agent = delivery[d].agent
        /\ delivery'[d].row = delivery[d].row
        /\ \A e \in Deliveries \ {d} : delivery'[e] = delivery[e]
    BY <1>0, <2>1 DEF Delivery, Steps
  <2>3. Agrees(d)'
    BY <1>0, <2>1, <2>2 DEF Agrees, Fresh, Delivery
  <2>4. QED
    BY <2>1, <2>2, <2>3 DEF Moves, Changes, Running
<1>4. ASSUME NEW t, delivery[d].step = "claiming", Insert(d, t), UNCHANGED <<now, inflight>>
      PROVE  Moves(d)
  <2>1. delivery' = [delivery EXCEPT ![d].step = "fresh", ![d].row = Len(rows) + 1, ![d].at = 0]
    BY <1>4 DEF Insert
  <2> DEFINE x == [delivery[d] EXCEPT !.step = "fresh", !.row = Len(rows) + 1, !.at = 0]
  <2>1a. /\ x \in Delivery
         /\ x.step = "fresh" /\ x.at = 0 /\ x.row = Len(rows) + 1
         /\ x.job = delivery[d].job /\ x.agent = delivery[d].agent
    <3>1. ASSUME NEW n \in Nat, NEW y, y = [delivery[d] EXCEPT !.step = "fresh", !.row = n, !.at = 0]
          PROVE  /\ y \in Delivery
                 /\ y.step = "fresh" /\ y.at = 0 /\ y.row = n
                 /\ y.job = delivery[d].job /\ y.agent = delivery[d].agent
      BY <1>0, <3>1 DEF Delivery, Steps
    <3>2. Len(rows) + 1 \in Nat
      BY <1>0
    <3>3. QED
      BY <3>1, <3>2
  <2>1b. delivery' = [delivery EXCEPT ![d] = x]
    BY <1>0, <2>1
  <2> HIDE DEF x
  <2>2. /\ delivery' \in [Deliveries -> Delivery]
        /\ delivery'[d] = x
        /\ \A e \in Deliveries \ {d} : delivery'[e] = delivery[e]
    BY <1>0, <2>1a, <2>1b
  <2>3. Agrees(d)'
    BY <1>0, <1>4, <2>1a, <2>2 DEF Agrees, Fresh, Delivery
  <2>4. QED
    BY <1>0, <1>4, <2>1a, <2>2, <2>3 DEF Moves, Changes, Running
<1>5. ASSUME NEW t, Ignore(d, t), UNCHANGED <<now, inflight>>
      PROVE  Moves(d)
  BY <1>5, AnswersChanges DEF Ignore, Moves, Running
<1>6. CASE Claim(d)
  BY <1>4, <1>5, <1>6 DEF Claim
<1>7. QED
  BY <1>1, <1>2, <1>3, <1>6

\* The facts about deliveries after a step that changes one.
LEMMA ChangesAgree ==
  ASSUME IInv, NEW d \in Deliveries, Changes(d), now <= now', now' \in Nat
  PROVE  DeliveriesAgree'
<1>1. ASSUME NEW e \in Deliveries
      PROVE  Agrees(e)'
  <2>1. CASE e = d
    BY <2>1 DEF Changes
  <2>2. CASE e # d
    <3>1. delivery'[e] = delivery[e]
      BY <2>2 DEF Changes
    <3>2. /\ Agrees(e) /\ now \in Nat /\ delivery[e].at \in Nat
      BY AgreesType DEF Delivery
    <3>3. QED
      BY <3>1, <3>2 DEF Agrees, Fresh
  <2>3. QED
    BY <2>1, <2>2
<1>2. QED
  BY <1>1 DEF DeliveriesAgree, Agrees, Fresh

\* The in-flight table after a step that neither starts nor ends an execution.
LEMMA MovesKeepsEntries ==
  ASSUME IInv, NEW d \in Deliveries, Moves(d)
  PROVE  EntriesRun' /\ RunningIsCancellable'
<1>1. /\ inflight \in [Agents -> [Jobs -> Deliveries \cup {None}]]
      /\ EntriesRun /\ RunningIsCancellable
  BY DEF IInv, TypeOK, EntriesRun
<1>2. /\ ~Running(d) /\ ~Running(d)' /\ inflight' = inflight
      /\ \A e \in Deliveries \ {d} : delivery'[e] = delivery[e]
      /\ delivery[d].row # 0 => delivery'[d].row # 0 /\ delivery'[d].job = delivery[d].job
  BY DEF Moves, Changes
<1>3. EntriesRun'
  BY <1>1, <1>2 DEF EntriesRun, Running
<1>4. ASSUME NEW e \in Deliveries, Running(e)'
      PROVE  \/ inflight'[delivery'[e].agent][delivery'[e].job] = e
             \/ \E f \in Deliveries \ {e} : delivery'[f].job = delivery'[e].job /\ delivery'[f].row # 0
  <2>1. e # d /\ delivery'[e] = delivery[e] /\ Running(e)
    BY <1>2, <1>4 DEF Running
  <2>2. CASE inflight[delivery[e].agent][delivery[e].job] = e
    BY <1>2, <2>1, <2>2
  <2>3. ASSUME NEW f \in Deliveries \ {e}, delivery[f].job = delivery[e].job, delivery[f].row # 0
        PROVE  delivery'[f].job = delivery'[e].job /\ delivery'[f].row # 0
    BY <1>2, <2>1, <2>3
  <2>4. QED
    BY <1>1, <2>1, <2>2, <2>3 DEF RunningIsCancellable
<1>5. QED
  BY <1>3, <1>4 DEF RunningIsCancellable, Running

\* An execution starts: it takes over the entry of its job.
LEMMA BeginKeepsEntries ==
  ASSUME IInv, NEW d \in Deliveries, Begin(d)
  PROVE  /\ Changes(d) /\ EntriesRun' /\ RunningIsCancellable'
         /\ inflight' \in [Agents -> [Jobs -> Deliveries \cup {None}]]
<1> DEFINE a == delivery[d].agent
           j == delivery[d].job
<1>0. /\ delivery \in [Deliveries -> Delivery] /\ delivery[d] \in Delivery
      /\ Agrees(d) /\ now \in Nat
  BY AgreesType
<1>1. /\ inflight \in [Agents -> [Jobs -> Deliveries \cup {None}]]
      /\ EntriesRun /\ RunningIsCancellable
  BY DEF IInv, TypeOK, EntriesRun
<1>2. /\ delivery[d].step = "fresh" /\ now' = now
      /\ delivery' = [delivery EXCEPT ![d].step = "running"]
      /\ inflight' = [inflight EXCEPT ![a][j] = d]
  BY DEF Begin, Goes
<1>3. a \in Agents /\ j \in Jobs /\ delivery[d].row # 0
  BY <1>0, <1>2 DEF Agrees, Fresh
<1>4. /\ delivery' \in [Deliveries -> Delivery]
      /\ delivery'[d].step = "running" /\ delivery'[d].at = delivery[d].at
      /\ delivery'[d].job = j /\ delivery'[d].agent = a
      /\ delivery'[d].row = delivery[d].row
      /\ \A e \in Deliveries \ {d} : delivery'[e] = delivery[e]
  BY <1>0, <1>2 DEF Delivery, Steps
<1>5. Changes(d)
  BY <1>0, <1>2, <1>3, <1>4 DEF Changes, Agrees, Fresh
<1>6. /\ inflight' \in [Agents -> [Jobs -> Deliveries \cup {None}]]
      /\ \A b \in Agents, i \in Jobs :
           inflight'[b][i] = IF b = a /\ i = j THEN d ELSE inflight[b][i]
  BY <1>1, <1>2, <1>3
<1>7. EntriesRun'
  <2>1. ASSUME NEW b \in Agents, NEW i \in Jobs, inflight'[b][i] # None
        PROVE  /\ delivery'[inflight'[b][i]].step = "running"
               /\ delivery'[inflight'[b][i]].job = i /\ delivery'[inflight'[b][i]].agent = b
    <3>1. CASE b = a /\ i = j
      BY <1>4, <1>6, <3>1 DEF Running
    <3>2. CASE ~(b = a /\ i = j)
      <4>1. /\ inflight'[b][i] = inflight[b][i] /\ inflight[b][i] \in Deliveries
            /\ Running(inflight[b][i])
            /\ delivery[inflight[b][i]].job = i /\ delivery[inflight[b][i]].agent = b
        BY <1>1, <1>6, <2>1, <3>2 DEF EntriesRun
      <4>2. inflight[b][i] # d
        BY <3>2, <4>1
      <4>3. QED
        BY <1>4, <4>1, <4>2 DEF Running
    <3>3. QED
      BY <3>1, <3>2
  <2>2. QED
    BY <2>1 DEF EntriesRun, Running
<1>8. RunningIsCancellable'
  <2>1. ASSUME NEW e \in Deliveries, Running(e)'
        PROVE  \/ inflight'[delivery'[e].agent][delivery'[e].job] = e
               \/ \E f \in Deliveries \ {e} : delivery'[f].job = delivery'[e].job /\ delivery'[f].row # 0
    <3>1. CASE e = d
      BY <1>3, <1>4, <1>6, <3>1
    <3>2. CASE e # d
      <4>1. delivery'[e] = delivery[e] /\ Running(e)
        BY <1>4, <2>1, <3>2 DEF Running
      <4>2. delivery[e].agent \in Agents /\ delivery[e].job \in Jobs
        BY <4>1, AgreesType DEF Agrees, Running
      <4>3. CASE delivery[e].agent = a /\ delivery[e].job = j
        BY <1>3, <1>4, <3>2, <4>1, <4>3
      <4>4. CASE ~(delivery[e].agent = a /\ delivery[e].job = j)
                 /\ inflight[delivery[e].agent][delivery[e].job] = e
        BY <1>6, <4>1, <4>2, <4>4
      <4>5. ASSUME NEW f \in Deliveries \ {e}, delivery[f].job = delivery[e].job, delivery[f].row # 0
            PROVE  delivery'[f].job = delivery'[e].job /\ delivery'[f].row # 0
        BY <1>4, <4>1, <4>5
      <4>6. QED
        BY <1>1, <4>1, <4>3, <4>4, <4>5 DEF RunningIsCancellable
    <3>3. QED
      BY <3>1, <3>2
  <2>2. QED
    BY <2>1 DEF RunningIsCancellable, Running
<1>9. QED
  BY <1>5, <1>6, <1>7, <1>8

\* An execution ends and frees the entry of its job, whosever it is.
LEMMA FinishKeepsEntries ==
  ASSUME IInv, NEW d \in Deliveries, Finish(d)
  PROVE  /\ Changes(d) /\ EntriesRun' /\ RunningIsCancellable'
         /\ inflight' \in [Agents -> [Jobs -> Deliveries \cup {None}]]
<1> DEFINE a == delivery[d].agent
           j == delivery[d].job
<1>1. /\ inflight \in [Agents -> [Jobs -> Deliveries \cup {None}]]
      /\ EntriesRun /\ RunningIsCancellable
  BY DEF IInv, TypeOK, EntriesRun
<1>2. /\ Answers(d, "running") /\ now' = now
      /\ inflight' = [inflight EXCEPT ![a][j] = None]
  BY DEF Finish, Freed
<1>3. Changes(d) /\ Running(d) /\ ~Running(d)'
  BY <1>2, AnswersChanges DEF Running
<1>4. a \in Agents /\ j \in Jobs /\ delivery[d].row # 0
  BY <1>3, AgreesType DEF Agrees, Fresh, Running
<1>5. /\ \A e \in Deliveries \ {d} : delivery'[e] = delivery[e]
      /\ delivery'[d].job = j /\ delivery'[d].row # 0
  BY <1>3, <1>4 DEF Changes
<1>6. /\ inflight' \in [Agents -> [Jobs -> Deliveries \cup {None}]]
      /\ \A b \in Agents, i \in Jobs :
           inflight'[b][i] = IF b = a /\ i = j THEN None ELSE inflight[b][i]
  BY <1>1, <1>2, <1>4
<1>7. EntriesRun'
  <2>1. ASSUME NEW b \in Agents, NEW i \in Jobs, inflight'[b][i] # None
        PROVE  /\ delivery'[inflight'[b][i]].step = "running"
               /\ delivery'[inflight'[b][i]].job = i /\ delivery'[inflight'[b][i]].agent = b
    <3>1. ~(b = a /\ i = j) /\ inflight'[b][i] = inflight[b][i]
      BY <1>6, <2>1
    <3>2. /\ inflight[b][i] \in Deliveries /\ Running(inflight[b][i])
          /\ delivery[inflight[b][i]].job = i /\ delivery[inflight[b][i]].agent = b
      BY <1>1, <2>1, <3>1 DEF EntriesRun
    <3>3. inflight[b][i] # d
      BY <3>1, <3>2
    <3>4. QED
      BY <1>5, <3>1, <3>2, <3>3 DEF Running
  <2>2. QED
    BY <2>1 DEF EntriesRun, Running
<1>8. RunningIsCancellable'
  <2>1. ASSUME NEW e \in Deliveries, Running(e)'
        PROVE  \/ inflight'[delivery'[e].agent][delivery'[e].job] = e
               \/ \E f \in Deliveries \ {e} : delivery'[f].job = delivery'[e].job /\ delivery'[f].row # 0
    <3>1. e # d
      BY <1>3, <2>1
    <3>2. delivery'[e] = delivery[e] /\ Running(e)
      BY <1>5, <2>1, <3>1 DEF Running
    <3>3. delivery[e].agent \in Agents /\ delivery[e].job \in Jobs
      BY <3>2, AgreesType DEF Agrees, Running
    <3>4. CASE delivery[e].agent = a /\ delivery[e].job = j
      BY <1>5, <3>1, <3>2, <3>4
    <3>5. CASE ~(delivery[e].agent = a /\ delivery[e].job = j)
               /\ inflight[delivery[e].agent][delivery[e].job] = e
      BY <1>6, <3>2, <3>3, <3>5
    <3>6. ASSUME NEW f \in Deliveries \ {e}, delivery[f].job = delivery[e].job, delivery[f].row # 0
          PROVE  delivery'[f].job = delivery'[e].job /\ delivery'[f].row # 0
      BY <1>5, <3>2, <3>6
    <3>7. QED
      BY <1>1, <3>2, <3>4, <3>5, <3>6 DEF RunningIsCancellable
  <2>2. QED
    BY <2>1 DEF RunningIsCancellable, Running
<1>9. QED
  BY <1>3, <1>6, <1>7, <1>8

\* A cancel frame only marks an execution.
LEMMA CancelKeepsEntries ==
  ASSUME IInv, NEW a \in Agents, NEW j \in Jobs, Cancel(a, j)
  PROVE  /\ delivery' \in [Deliveries -> Delivery] /\ DeliveriesAgree'
         /\ EntriesRun' /\ RunningIsCancellable' /\ UNCHANGED inflight
<1> DEFINE d == inflight[a][j]
<1>1. /\ inflight \in [Agents -> [Jobs -> Deliveries \cup {None}]]
      /\ EntriesRun /\ RunningIsCancellable
  BY DEF IInv, TypeOK, EntriesRun
<1>2. /\ d \in Deliveries /\ now' = now /\ inflight' = inflight
      /\ delivery' = [delivery EXCEPT ![d].aborted = TRUE]
      /\ Running(d)
  BY <1>1 DEF Cancel, EntriesRun
<1>3. delivery \in [Deliveries -> Delivery]
  BY AgreesType, <1>2
<1>4. /\ delivery' \in [Deliveries -> Delivery]
      /\ \A e \in Deliveries :
           /\ delivery'[e].step = delivery[e].step /\ delivery'[e].job = delivery[e].job
           /\ delivery'[e].agent = delivery[e].agent /\ delivery'[e].row = delivery[e].row
           /\ delivery'[e].at = delivery[e].at
           /\ e # d => delivery'[e] = delivery[e]
  BY <1>2, <1>3 DEF Delivery
<1>5. DeliveriesAgree'
  <2>1. DeliveriesAgree
    BY DEF IInv
  <2>2. QED
    BY <1>2, <1>4, <2>1 DEF DeliveriesAgree, Fresh, Running
<1>6. EntriesRun'
  BY <1>1, <1>2, <1>4 DEF EntriesRun, Running
<1>7. RunningIsCancellable'
  BY <1>1, <1>2, <1>4 DEF RunningIsCancellable, Running
<1>8. QED
  BY <1>2, <1>4, <1>5, <1>6, <1>7

\* A process takes its own executions and entries with it, and no others.
LEMMA RestartKeepsEntries ==
  ASSUME IInv, NEW a \in Agents, Restart(a)
  PROVE  /\ delivery' \in [Deliveries -> Delivery] /\ DeliveriesAgree'
         /\ EntriesRun' /\ RunningIsCancellable'
         /\ inflight' \in [Agents -> [Jobs -> Deliveries \cup {None}]]
<1>1. /\ inflight \in [Agents -> [Jobs -> Deliveries \cup {None}]]
      /\ EntriesRun /\ RunningIsCancellable
  BY DEF IInv, TypeOK, EntriesRun
<1>2. /\ now' = now
      /\ delivery' = [d \in Deliveries |->
           IF delivery[d].agent = a THEN Over(delivery[d]) ELSE delivery[d]]
      /\ inflight' = [inflight EXCEPT ![a] = [j \in Jobs |-> None]]
  BY DEF Restart
<1>3. \A d \in Deliveries :
        /\ delivery[d] \in Delivery /\ delivery'[d] \in Delivery
        /\ delivery'[d].job = delivery[d].job /\ delivery'[d].row = delivery[d].row
        /\ delivery[d].agent = a => delivery'[d].step = "over" /\ delivery'[d].at = 0
        /\ delivery[d].agent # a => delivery'[d] = delivery[d]
  BY <1>2, AgreesType, OverChanges
<1>4. /\ inflight' \in [Agents -> [Jobs -> Deliveries \cup {None}]]
      /\ \A b \in Agents, i \in Jobs :
           inflight'[b][i] = IF b = a THEN None ELSE inflight[b][i]
  BY <1>1, <1>2
<1>5. DeliveriesAgree'
  <2>1. ASSUME NEW d \in Deliveries
        PROVE  Agrees(d)'
    <3>1. Agrees(d) /\ now \in Nat
      BY AgreesType
    <3>2. QED
      BY <1>2, <1>3, <3>1 DEF Agrees, Fresh
  <2>2. QED
    BY <2>1 DEF DeliveriesAgree, Agrees, Fresh
<1>6. EntriesRun'
  <2>1. ASSUME NEW b \in Agents, NEW i \in Jobs, inflight'[b][i] # None
        PROVE  /\ delivery'[inflight'[b][i]].step = "running"
               /\ delivery'[inflight'[b][i]].job = i /\ delivery'[inflight'[b][i]].agent = b
    <3>1. b # a /\ inflight'[b][i] = inflight[b][i] /\ inflight[b][i] \in Deliveries
      BY <1>1, <1>4, <2>1
    <3>2. /\ Running(inflight[b][i])
          /\ delivery[inflight[b][i]].job = i /\ delivery[inflight[b][i]].agent = b
      BY <1>1, <2>1, <3>1 DEF EntriesRun
    <3>3. QED
      BY <1>3, <3>1, <3>2 DEF Running
  <2>2. QED
    BY <2>1 DEF EntriesRun, Running
<1>7. RunningIsCancellable'
  <2>1. ASSUME NEW e \in Deliveries, Running(e)'
        PROVE  \/ inflight'[delivery'[e].agent][delivery'[e].job] = e
               \/ \E f \in Deliveries \ {e} : delivery'[f].job = delivery'[e].job /\ delivery'[f].row # 0
    <3>1. delivery[e].agent # a /\ delivery'[e] = delivery[e] /\ Running(e)
      BY <1>3, <2>1 DEF Running
    <3>2. delivery[e].agent \in Agents /\ delivery[e].job \in Jobs
      BY <3>1, AgreesType DEF Agrees, Running
    <3>3. QED
      BY <1>1, <1>3, <1>4, <3>1, <3>2 DEF RunningIsCancellable
  <2>2. QED
    BY <2>1 DEF RunningIsCancellable, Running
<1>8. QED
  BY <1>2, <1>3, <1>4, <1>5, <1>6, <1>7

-----------------------------------------------------------------------------
(* The invariant and what follows from it.                                 *)

\* What every step does to the deliveries and the in-flight table.
LEMMA NextEntries ==
  ASSUME IInv, [Next]_vars
  PROVE  /\ delivery' \in [Deliveries -> Delivery] /\ DeliveriesAgree'
         /\ EntriesRun' /\ RunningIsCancellable'
         /\ inflight' \in [Agents -> [Jobs -> Deliveries \cup {None}]]
<1>0. /\ inflight \in [Agents -> [Jobs -> Deliveries \cup {None}]]
      /\ delivery \in [Deliveries -> Delivery] /\ now \in Nat
      /\ DeliveriesAgree /\ EntriesRun /\ RunningIsCancellable
  BY DEF IInv, TypeOK, EntriesRun
<1>1. CASE UNCHANGED <<delivery, inflight>> /\ (now' = now \/ now' = now + 1)
  <2>1. \A d \in Deliveries : delivery[d].at \in Nat
    BY <1>0 DEF Delivery
  <2>2. DeliveriesAgree'
    BY <1>0, <1>1, <2>1 DEF DeliveriesAgree, Fresh
  <2>3. QED
    BY <1>0, <1>1, <2>2 DEF EntriesRun, RunningIsCancellable, Running
<1>2. ASSUME NEW d \in Deliveries, Moves(d), UNCHANGED now
      PROVE  /\ delivery' \in [Deliveries -> Delivery] /\ DeliveriesAgree'
             /\ EntriesRun' /\ RunningIsCancellable'
             /\ inflight' \in [Agents -> [Jobs -> Deliveries \cup {None}]]
  <2>1. Changes(d) /\ now <= now' /\ now' \in Nat
    BY <1>0, <1>2 DEF Moves
  <2>2. QED
    BY <1>0, <1>2, <2>1, MovesKeepsEntries, ChangesAgree DEF Moves, Changes
<1>3. ASSUME NEW d \in Deliveries, Run(d)
      PROVE  /\ delivery' \in [Deliveries -> Delivery] /\ DeliveriesAgree'
             /\ EntriesRun' /\ RunningIsCancellable'
             /\ inflight' \in [Agents -> [Jobs -> Deliveries \cup {None}]]
  <2>1. now' = now
    BY <1>3 DEF Run, Verify, VerifyFails, AskCache, Claim, ClaimFails, Begin, NotAllowed, Finish
  <2>2. CASE Begin(d) \/ Finish(d)
    <3>1. /\ Changes(d) /\ EntriesRun' /\ RunningIsCancellable'
          /\ inflight' \in [Agents -> [Jobs -> Deliveries \cup {None}]]
      BY <2>2, BeginKeepsEntries, FinishKeepsEntries
    <3>2. now <= now' /\ now' \in Nat
      BY <1>0, <2>1
    <3>3. QED
      BY <3>1, <3>2, ChangesAgree DEF Changes
  <2>3. CASE ~(Begin(d) \/ Finish(d))
    <3>1. Moves(d)
      BY <1>3, <2>3, RunMoves DEF Run
    <3>2. QED
      BY <1>2, <2>1, <3>1
  <2>4. QED
    BY <2>2, <2>3
<1>4. ASSUME NEW d \in Deliveries, NEW j \in Jobs, NEW a \in Agents, Deliver(d, j, a)
      PROVE  Moves(d) /\ UNCHANGED now
  BY <1>4, DeliverMoves DEF Deliver
<1>5. CASE UNCHANGED vars
  BY <1>1, <1>5 DEF vars
<1>6. CASE Tick
  BY <1>1, <1>6 DEF Tick
<1>7. ASSUME NEW a \in Agents, Restart(a) \/ \E j \in Jobs : Cancel(a, j)
      PROVE  /\ delivery' \in [Deliveries -> Delivery] /\ DeliveriesAgree'
             /\ EntriesRun' /\ RunningIsCancellable'
             /\ inflight' \in [Agents -> [Jobs -> Deliveries \cup {None}]]
  BY <1>0, <1>7, RestartKeepsEntries, CancelKeepsEntries
<1>8. QED
  BY <1>2, <1>3, <1>4, <1>5, <1>6, <1>7 DEF Next

LEMMA NextIInv == IInv /\ [Next]_vars => IInv'
<1> SUFFICES ASSUME IInv, [Next]_vars
             PROVE  IInv'
  OBVIOUS
<1>1. CacheStep /\ expiresAt' = expiresAt
  BY NextCacheStep
<1>2. /\ now' \in 0..MaxTime
      /\ rows' \in Seq(Row)
      /\ held' \subseteq DOMAIN rows' /\ Cardinality(held') <= MaxEntries
  BY <1>1, CacheTypes DEF IInv
<1>3. RowsLast' /\ WindowHeld' /\ RepeatsAreLate'
  BY <1>1, CacheKeepsWindow
<1>4. /\ delivery' \in [Deliveries -> Delivery] /\ DeliveriesAgree'
      /\ EntriesRun' /\ RunningIsCancellable'
      /\ inflight' \in [Agents -> [Jobs -> Deliveries \cup {None}]]
  BY NextEntries
<1>5. expiresAt \in [Jobs -> 1..MaxTime]
  BY DEF IInv, TypeOK
<1>6. TypeOK'
  BY <1>1, <1>2, <1>4, <1>5 DEF TypeOK, EntriesRun
<1>7. QED
  BY <1>3, <1>4, <1>6 DEF IInv

LEMMA Invariance == Spec => []IInv
BY InitIInv, NextIInv, PTL DEF Spec

\* Every variable keeps its type; the cache never outgrows its capacity, and an
\* in-flight entry is always of a running execution of its job.
THEOREM TypeCorrect == Spec => []TypeOK
BY Invariance, PTL DEF IInv

\* A cancel frame reaches an execution as long as it runs, unless its job was
\* accepted twice.
THEOREM ExecutionsAreCancellable == Spec => []RunningIsCancellable
BY Invariance, PTL DEF IInv

\* No job id is accepted again before its envelope's lifetime is over, for any
\* number of processes, deliveries and restarts, unless MaxEntries other rows
\* came in between.
THEOREM NoRepeatBeforeExpiry == Spec => []RepeatsOnlyAtExpiry
<1>1. IInv => RepeatsOnlyAtExpiry
  <2>1. SUFFICES ASSUME IInv, NEW i \in DOMAIN rows, NEW k \in DOMAIN rows, Repeats(i, k)
                 PROVE  rows[k].at >= expiresAt[rows[i].job]
    BY DEF RepeatsOnlyAtExpiry
  <2>2. /\ rows[i].until <= rows[k].at
        /\ expiresAt[rows[i].job] <= rows[i].until
    BY <2>1 DEF IInv, RepeatsAreLate, RowsLast
  <2>3. rows \in Seq(Row) /\ expiresAt \in [Jobs -> 1..MaxTime]
    BY <2>1 DEF IInv, TypeOK
  <2>4. rows[i] \in Row /\ rows[k] \in Row
    BY <2>3
  <2>5. /\ rows[i].until \in Nat /\ rows[k].at \in Nat
        /\ expiresAt[rows[i].job] \in Nat
    BY <2>3, <2>4 DEF Row
  <2>6. QED
    BY <2>2, <2>5
<1>2. QED
  BY <1>1, Invariance, PTL

\* The cache implements the window a replay guard promises: each transaction
\* that says yes is an acceptance the window allows.
THEOREM CacheIsAReplayWindow == Spec => GuardsReplays
<1>1. Init => Window!Init
  BY DEF Init, Window!Init
<1>2. IInv /\ [Next]_vars => [Window!Next]_<<now, rows>>
  <2> SUFFICES ASSUME IInv, [Next]_vars
               PROVE  [Window!Next]_<<now, rows>>
    OBVIOUS
  <2>1. CacheStep
    BY NextCacheStep
  <2>2. CASE Tick
    BY <2>2 DEF Tick, Window!Next, Window!Tick
  <2>3. ASSUME NEW d \in Deliveries, NEW t \in delivery[d].at..now, delivery[d].step = "claiming",
               UNCHANGED now, Insert(d, t)
        PROVE  Window!Accept(delivery[d].job) /\ delivery[d].job \in Jobs
    <3>1. /\ t \in Nat /\ delivery[d].job \in Jobs /\ t + Ttl(d) \in 0..(2 * MaxTime)
      BY <2>3, UntilInRange DEF IInv
    <3>2. now \in Nat /\ t <= now
      BY <2>3, <3>1 DEF IInv, TypeOK
    <3>3. ASSUME NEW k \in DOMAIN rows, Len(rows) - k < MaxEntries, rows[k].job = delivery[d].job
          PROVE  rows[k].until <= now
      <4>1. rows[k].until \in Nat
        <5>1. rows \in Seq(Row)
          BY DEF IInv, TypeOK
        <5>2. rows[k] \in Row
          BY <5>1
        <5>3. QED
          BY <5>2 DEF Row
      <4>2. CASE rows[k].until > now
        <5>1. k \in held /\ rows[k].until > t
          BY <3>1, <3>2, <3>3, <4>1, <4>2 DEF IInv, WindowHeld
        <5>2. QED
          BY <2>3, <3>3, <5>1 DEF Insert, Kept
      <4>3. QED
        BY <3>2, <4>1, <4>2
    <3>4. rows' = Append(rows, [job |-> delivery[d].job, until |-> t + Ttl(d), at |-> now])
      BY <2>3 DEF Insert
    <3>5. QED
      BY <2>3, <3>1, <3>3, <3>4 DEF Window!Accept, Window!Recent
  <2>4. ASSUME NEW d \in Deliveries, NEW t, Ignore(d, t), UNCHANGED now
        PROVE  UNCHANGED <<now, rows>>
    BY <2>4 DEF Ignore
  <2>5. CASE UNCHANGED <<rows, held, now>>
    BY <2>5
  <2>6. QED
    BY <2>1, <2>2, <2>3, <2>4, <2>5 DEF CacheStep, Window!Next
<1>3. QED
  BY <1>1, <1>2, Invariance, PTL DEF Spec, GuardsReplays, Window!Spec

-----------------------------------------------------------------------------
\* Delivery d will not be executed any more: it is answered, or its envelope
\* has expired and is still to be verified.
Hopeless(d) ==
  \/ delivery[d].step = "over"
  \/ /\ delivery[d].step = "verifying"
     /\ delivery[d].job \in Jobs
     /\ now > expiresAt[delivery[d].job]

\* A step of another delivery leaves delivery d alone, and d's own steps end it
\* or find its envelope expired.
LEMMA RunKeepsHopeless ==
  ASSUME IInv, NEW d \in Deliveries, Hopeless(d), NEW e \in Deliveries,
         Run(e) \/ \E j \in Jobs, a \in Agents : Deliver(e, j, a)
  PROVE  Hopeless(d)'
<1>1. /\ delivery \in [Deliveries -> Delivery] /\ UNCHANGED <<now, expiresAt>>
      /\ now \in Nat /\ expiresAt \in [Jobs -> 1..MaxTime]
  <2>1. UNCHANGED <<now, expiresAt>>
    BY DEF Run, Deliver, Claim, ClaimFails, Verify, VerifyFails, AskCache, Begin, NotAllowed, Finish
  <2>2. QED
    BY <2>1 DEF IInv, TypeOK
<1>2. CASE e # d
  <2>1. delivery'[d] = delivery[d]
    BY <1>1, <1>2 DEF Run, Deliver, Claim, Insert, Ignore, ClaimFails, Verify, VerifyFails,
                      AskCache, Begin, NotAllowed, Finish, Goes, Answers
  <2>2. QED
    BY <1>1, <2>1 DEF Hopeless
<1>3. CASE e = d
  <2>1. delivery[d].step = "verifying" /\ now > expiresAt[delivery[d].job]
    BY <1>3 DEF Hopeless, Run, Deliver, Claim, Insert, Ignore, ClaimFails, Verify, VerifyFails,
                AskCache, Begin, NotAllowed, Finish, Goes, Answers
  <2>2. ~Valid(delivery[d].job)
    <3>1. expiresAt[delivery[d].job] \in Nat
      BY <1>1, <2>1 DEF Hopeless
    <3>2. QED
      BY <1>1, <2>1, <3>1 DEF Valid
  <2>3. VerifyFails(d)
    BY <1>3, <2>1, <2>2 DEF Run, Deliver, Claim, Insert, Ignore, ClaimFails, Verify, AskCache,
                            Begin, NotAllowed, Finish, Goes, Answers
  <2>4. delivery'[d] = Over(delivery[d])
    BY <1>1, <2>3 DEF VerifyFails, Answers
  <2>5. QED
    BY <2>4, OverChanges DEF Hopeless
<1>4. QED
  BY <1>2, <1>3

LEMMA NextKeepsHopeless ==
  ASSUME IInv, NEW d \in Deliveries, Hopeless(d), [Next]_vars
  PROVE  Hopeless(d)'
<1>0. /\ delivery \in [Deliveries -> Delivery]
      /\ now \in Nat /\ expiresAt \in [Jobs -> 1..MaxTime]
  BY DEF IInv, TypeOK
<1>1. CASE \E e \in Deliveries : Run(e) \/ \E j \in Jobs, a \in Agents : Deliver(e, j, a)
  BY <1>1, RunKeepsHopeless
<1>2. ASSUME NEW a \in Agents, Restart(a)
      PROVE  Hopeless(d)'
  <2>1. delivery'[d] \in {Over(delivery[d]), delivery[d]} /\ UNCHANGED <<now, expiresAt>>
    BY <1>2 DEF Restart
  <2>2. QED
    BY <2>1, OverChanges DEF Hopeless
<1>3. ASSUME NEW a \in Agents, NEW j \in Jobs, Cancel(a, j)
      PROVE  Hopeless(d)'
  <2>1. /\ delivery'[d].step = delivery[d].step /\ delivery'[d].job = delivery[d].job
        /\ UNCHANGED <<now, expiresAt>>
    BY <1>0, <1>3 DEF Cancel, Delivery
  <2>2. QED
    BY <2>1 DEF Hopeless
<1>4. CASE Tick
  <2>1. UNCHANGED <<delivery, expiresAt>> /\ now' = now + 1
    BY <1>4 DEF Tick
  <2>2. delivery[d].job \in Jobs => expiresAt[delivery[d].job] \in Nat
    BY <1>0
  <2>3. QED
    BY <1>0, <2>1, <2>2 DEF Hopeless
<1>5. CASE UNCHANGED vars
  BY <1>5 DEF vars, Hopeless
<1>6. QED
  BY <1>1, <1>2, <1>3, <1>4, <1>5 DEF Next

\* An envelope that has expired when its frame arrives, or while its signature
\* is being checked, is never executed (sign.ts, verifyJob).
THEOREM ExpiredEnvelopesNeverRun == Spec => ExpiredNeverRuns
<1>1. ASSUME NEW d \in Deliveries
      PROVE  Spec => [](delivery[d].step = "verifying" /\ now > expiresAt[delivery[d].job]
                          => []~Running(d))
  <2>1. IInv /\ delivery[d].step = "verifying" /\ now > expiresAt[delivery[d].job] => Hopeless(d)
    BY DEF IInv, DeliveriesAgree, Hopeless
  <2>2. IInv /\ Hopeless(d) /\ [Next]_vars => Hopeless(d)'
    BY NextKeepsHopeless
  <2>3. Hopeless(d) => ~Running(d)
    BY DEF Hopeless, Running
  <2>4. QED
    BY <2>1, <2>2, <2>3, Invariance, PTL DEF Spec
<1>2. QED
  BY <1>1 DEF ExpiredNeverRuns

=============================================================================
