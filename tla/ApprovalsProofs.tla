--------------------------- MODULE ApprovalsProofs ---------------------------
(***************************************************************************)
(* What holds of Approvals for every set of users, requests and calls and  *)
(* every value of the other constants.                                     *)
(***************************************************************************)
EXTENDS Approvals, FiniteSetTheorems, TLAPS

\* An approved row carries an approval its own user gave for it, which has not
\* been spent, and expires within one ApprovalTtl of that approval.
RowsCarryTheirApproval ==
  \A k \in Keys :
    /\ approvals[k].requestedAt <= now
    /\ approvals[k].status = "approved" =>
         LET t == approvals[k].ticket IN
         /\ t \in 1..Len(given)
         /\ given[t].key = k
         /\ given[t].by = k[1]
         /\ approvals[k].expiresAt <= given[t].at + ApprovalTtl
         /\ \A c \in Calls : call[c].ticket # t

\* A call's ticket is an approval of its own request by its own user.
CallsHoldTheirApproval ==
  \A c \in Calls :
    /\ call[c].ticket # 0 =>
         /\ call[c].ticket \in 1..Len(given)
         /\ given[call[c].ticket].key = call[c].key
         /\ given[call[c].ticket].by = call[c].key[1]
    /\ call[c].pc \in {"cleared", "executed"} /\ call[c].decision = "REQUIRE_APPROVAL"
         => call[c].ticket # 0

\* RunsOnOwnApproval and SpentOnce are not inductive by themselves: what the
\* table promises the next claim has to be carried along.
IInv ==
  /\ TypeOK
  /\ RowsCarryTheirApproval
  /\ CallsHoldTheirApproval
  /\ SpentOnce

\* What a step may do to a row of the table: leave it, remove it, turn it into
\* a fresh pending row, or move its status along.
RowStep(k) ==
  \/ approvals'[k] = approvals[k]
  \/ approvals'[k] = NoRow
  \/ approvals'[k] = FreshRow

\* The initial states have the right types.
LEMMA InitTypeOK == Init => TypeOK
BY ApprovalsAssumption DEF Init, TypeOK, Exists, NoRow, Row, Statuses, Call, CallStates, Decisions, Approval, Keys

\* A request changes rows only to fresh ones or to none.
LEMMA RequestRowStep ==
  ASSUME TypeOK, NEW k \in Keys, RequestRow(k)
  PROVE  /\ approvals' \in [Keys -> {NoRow, FreshRow} \cup Row]
         /\ \A l \in Keys : RowStep(l)
<1>1. CASE UNCHANGED approvals
  BY <1>1 DEF TypeOK, RowStep
<1>2. CASE approvals' = [approvals EXCEPT ![k] = FreshRow]
  BY <1>2 DEF TypeOK, RowStep
<1>3. CASE \E out \in Evictions(k[1]) :
             approvals' = [l \in Keys |-> IF l = k THEN FreshRow
                                          ELSE IF l \in out THEN NoRow
                                          ELSE approvals[l]]
  BY <1>3 DEF TypeOK, RowStep
<1>4. QED
  BY <1>1, <1>2, <1>3 DEF RequestRow

\* A sweep only removes rows.
LEMMA SweepRowStep ==
  ASSUME TypeOK, Sweep
  PROVE  /\ approvals' \in [Keys -> {NoRow, FreshRow} \cup Row]
         /\ \A l \in Keys : RowStep(l)
BY DEF Sweep, TypeOK, RowStep

\* Rows that step this way keep the type of the table.
LEMMA RowStepType ==
  ASSUME TypeOK, approvals' \in [Keys -> {NoRow, FreshRow} \cup Row],
         \A l \in Keys : RowStep(l)
  PROVE  /\ approvals' \in [Keys -> Row]
         /\ \A k \in Keys : approvals'[k].status # "none" =>
              approvals'[k].expiresAt = approvals'[k].requestedAt + ApprovalTtl
<1>1. NoRow \in Row /\ FreshRow \in Row
  BY ApprovalsAssumption DEF TypeOK, NoRow, FreshRow, Row, Statuses
<1>2. approvals' \in [Keys -> Row]
  BY <1>1
<1>3. ASSUME NEW k \in Keys, approvals'[k].status # "none"
      PROVE  approvals'[k].expiresAt = approvals'[k].requestedAt + ApprovalTtl
  <2>1. CASE approvals'[k] = approvals[k]
    BY <1>3, <2>1 DEF TypeOK, Exists
  <2>2. CASE approvals'[k] = NoRow
    BY <1>3, <2>2 DEF NoRow
  <2>3. CASE approvals'[k] = FreshRow
    BY <2>3 DEF FreshRow
  <2>4. QED
    BY <2>1, <2>2, <2>3 DEF RowStep
<1>4. QED
  BY <1>2, <1>3

\* Every step preserves the type invariant.
LEMMA NextTypeOK == TypeOK /\ [Next]_vars => TypeOK'
<1> SUFFICES ASSUME TypeOK, [Next]_vars
             PROVE  TypeOK'
  OBVIOUS
<1> USE ApprovalsAssumption
<1>1. ASSUME NEW c \in Calls, Decide(c) \/ ClaimRefused(c) \/ CallFails(c) \/ Execute(c)
      PROVE  TypeOK'
  <2>1. call' \in [Calls -> Call]
    <3>1. \E pc \in CallStates : Goto(c, pc)
      BY <1>1 DEF Decide, ClaimRefused, CallFails, Execute, CallStates
    <3>2. QED
      BY <3>1 DEF Goto, TypeOK, Call
  <2>2. UNCHANGED <<now, approvals, given>>
    BY <1>1 DEF Decide, ClaimRefused, CallFails, Execute
  <2>3. QED
    BY <2>1, <2>2 DEF TypeOK, Exists
<1>2. ASSUME NEW c \in Calls, ClaimGranted(c)
      PROVE  TypeOK'
  <2>1. call[c].key \in Keys /\ approvals[call[c].key] \in Row
    BY DEF TypeOK, Call
  <2>2. call' \in [Calls -> Call]
    BY <1>2, <2>1 DEF ClaimGranted, TypeOK, Call, CallStates, Row
  <2>3. /\ approvals' \in [Keys -> Row]
        /\ \A k \in Keys : Exists(k)' =>
             approvals'[k].expiresAt = approvals'[k].requestedAt + ApprovalTtl
    BY <1>2, <2>1 DEF ClaimGranted, Spend, Spendable, TypeOK, Exists, Row, Statuses
  <2>4. QED
    BY <1>2, <2>2, <2>3 DEF ClaimGranted, TypeOK
<1>3. ASSUME NEW c \in Calls, ClaimAnswerLost(c)
      PROVE  TypeOK'
  <2>1. call[c].key \in Keys /\ approvals[call[c].key] \in Row
    BY DEF TypeOK, Call
  <2>2. call' \in [Calls -> Call]
    BY <1>3 DEF ClaimAnswerLost, Goto, TypeOK, Call, CallStates
  <2>3. /\ approvals' \in [Keys -> Row]
        /\ \A k \in Keys : Exists(k)' =>
             approvals'[k].expiresAt = approvals'[k].requestedAt + ApprovalTtl
    BY <1>3, <2>1 DEF ClaimAnswerLost, Spend, Spendable, TypeOK, Exists, Row, Statuses
  <2>4. QED
    BY <1>3, <2>2, <2>3 DEF ClaimAnswerLost, TypeOK
<1>4. ASSUME NEW c \in Calls, Request(c)
      PROVE  TypeOK'
  <2>1. call[c].key \in Keys
    BY DEF TypeOK, Call
  <2>2. call' \in [Calls -> Call]
    BY <1>4 DEF Request, Goto, TypeOK, Call, CallStates
  <2>3. QED
    BY <1>4, <2>1, <2>2, RequestRowStep, RowStepType DEF Request, TypeOK, Exists
<1>5. ASSUME NEW u \in Users, NEW k \in Keys, Approve(u, k)
      PROVE  TypeOK'
  <2>1. given' \in Seq(Approval)
    BY <1>5 DEF Approve, TypeOK, Approval
  <2>2. Len(given) \in Nat
    BY DEF TypeOK
  <2>3. /\ approvals' \in [Keys -> Row]
        /\ \A l \in Keys : Exists(l)' =>
             approvals'[l].expiresAt = approvals'[l].requestedAt + ApprovalTtl
    <3>1. approvals[k] \in Row /\ approvals[k].status = "pending"
      BY <1>5 DEF Approve, Answerable, TypeOK
    <3> DEFINE row == [approvals[k] EXCEPT !.status = "approved", !.ticket = Len(given) + 1]
    <3>2. Len(given) + 1 \in Nat
      BY <2>2
    <3>3. row \in Row
      BY <3>1, <3>2 DEF Row, Statuses
    <3>4. row.expiresAt = approvals[k].expiresAt /\ row.requestedAt = approvals[k].requestedAt
      BY <3>1 DEF Row
    <3>5. approvals' = [approvals EXCEPT ![k] = row]
      BY <1>5 DEF Approve
    <3> HIDE DEF row
    <3>6. QED
      BY <3>1, <3>3, <3>4, <3>5 DEF TypeOK, Exists
  <2>4. QED
    BY <1>5, <2>1, <2>3 DEF Approve, TypeOK
<1>6. ASSUME NEW u \in Users, NEW k \in Keys, Deny(u, k)
      PROVE  TypeOK'
  BY <1>6 DEF Deny, Answerable, TypeOK, Exists, Row, Statuses
<1>7. CASE Sweep
  BY <1>7, SweepRowStep, RowStepType DEF Sweep, TypeOK, Exists
<1>8. CASE Tick
  BY <1>8 DEF Tick, TypeOK, Exists
<1>9. CASE UNCHANGED vars
  BY <1>9 DEF vars, TypeOK, Exists
<1>10. QED
  BY <1>1, <1>2, <1>3, <1>4, <1>5, <1>6, <1>7, <1>8, <1>9 DEF Next, CallStep

\* The columns of a row and the states of a call stay within their types
\* (the records of Approvals; every mutation of service/approvals.ts).
THEOREM TypeCorrect == Spec => []TypeOK
BY InitTypeOK, NextTypeOK, PTL DEF Spec

-----------------------------------------------------------------------------
\* Nothing is approved and nothing is spent at the start.
LEMMA InitIInv == Init => IInv
<1>1. ASSUME Init
      PROVE  RowsCarryTheirApproval /\ CallsHoldTheirApproval /\ SpentOnce
  BY <1>1 DEF Init, RowsCarryTheirApproval, CallsHoldTheirApproval, SpentOnce, NoRow
<1>2. QED
  BY <1>1, InitTypeOK DEF IInv

\* Rows that stay, go or become fresh keep what the table promises.
LEMMA RowStepCarry ==
  ASSUME IInv, \A l \in Keys : RowStep(l), UNCHANGED <<now, given>>,
         \A c \in Calls : call'[c].ticket = call[c].ticket
  PROVE  RowsCarryTheirApproval'
<1> SUFFICES ASSUME NEW k \in Keys
             PROVE  /\ approvals'[k].requestedAt <= now
                    /\ approvals'[k].status = "approved" =>
                         LET t == approvals'[k].ticket IN
                         /\ t \in 1..Len(given)
                         /\ given[t].key = k
                         /\ given[t].by = k[1]
                         /\ approvals'[k].expiresAt <= given[t].at + ApprovalTtl
                         /\ \A c \in Calls : call[c].ticket # t
  BY DEF RowsCarryTheirApproval
<1>1. CASE approvals'[k] = approvals[k]
  BY <1>1 DEF IInv, RowsCarryTheirApproval
<1>2. CASE approvals'[k] = NoRow
  BY <1>2 DEF IInv, TypeOK, NoRow
<1>3. CASE approvals'[k] = FreshRow
  BY <1>3 DEF IInv, TypeOK, FreshRow
<1>4. QED
  BY <1>1, <1>2, <1>3 DEF RowStep

\* A step that only moves calls along, and clears none that is gated, keeps
\* the promises about calls.
LEMMA CallStepHolds ==
  ASSUME IInv, UNCHANGED given,
         NEW c \in Calls, NEW pc \in CallStates, Goto(c, pc),
         pc \in {"cleared", "executed"} =>
           call[c].pc \in {"cleared", "executed"} \/ call[c].decision # "REQUIRE_APPROVAL"
  PROVE  /\ \A d \in Calls : call'[d].ticket = call[d].ticket
         /\ CallsHoldTheirApproval'
         /\ SpentOnce'
<1>1. \A d \in Calls : /\ call'[d].ticket = call[d].ticket
                       /\ call'[d].key = call[d].key
                       /\ call'[d].decision = call[d].decision
                       /\ d # c => call'[d].pc = call[d].pc
  BY DEF Goto, IInv, TypeOK, Call
<1>2. call'[c].pc = pc
  BY DEF Goto, IInv, TypeOK, Call
<1>3. CallsHoldTheirApproval'
  BY <1>1, <1>2 DEF IInv, CallsHoldTheirApproval
<1>4. SpentOnce'
  BY <1>1 DEF IInv, SpentOnce
<1>5. QED
  BY <1>1, <1>3, <1>4

\* Spending a row for nobody keeps what the table promises.
LEMMA SpendCarry ==
  ASSUME IInv, NEW k \in Keys, Spend(k), UNCHANGED <<now, given>>,
         \A c \in Calls : call'[c].ticket # call[c].ticket =>
           call'[c].ticket = approvals[k].ticket,
         approvals[k].status = "approved"
  PROVE  RowsCarryTheirApproval'
<1>1. /\ approvals'[k].status = "consumed"
      /\ approvals'[k].requestedAt = approvals[k].requestedAt
      /\ \A l \in Keys \ {k} : approvals'[l] = approvals[l]
  BY DEF Spend, IInv, TypeOK, Row
<1>2. \A l \in Keys \ {k} : approvals[l].status = "approved" =>
        approvals[l].ticket # approvals[k].ticket
  BY DEF IInv, RowsCarryTheirApproval
<1>3. QED
  BY <1>1, <1>2 DEF IInv, RowsCarryTheirApproval

\* Every step preserves the inductive invariant.
LEMMA NextIInv == IInv /\ [Next]_vars => IInv'
<1> SUFFICES ASSUME IInv, [Next]_vars
             PROVE  IInv'
  OBVIOUS
<1>a. TypeOK /\ TypeOK'
  BY NextTypeOK DEF IInv
<1>b. \A c \in Calls : call[c].key \in Keys
  BY <1>a DEF TypeOK, Call
<1>1. ASSUME NEW c \in Calls, Decide(c) \/ ClaimRefused(c) \/ CallFails(c) \/ Execute(c)
      PROVE  IInv'
  <2>1. UNCHANGED <<now, approvals, given>>
    BY <1>1 DEF Decide, ClaimRefused, CallFails, Execute
  <2>2. PICK pc \in CallStates :
          /\ Goto(c, pc)
          /\ pc \in {"cleared", "executed"} =>
               call[c].pc \in {"cleared", "executed"} \/ call[c].decision # "REQUIRE_APPROVAL"
    BY <1>1 DEF Decide, ClaimRefused, CallFails, Execute, CallStates
  <2>3. QED
    BY <1>a, <2>1, <2>2, CallStepHolds, RowStepCarry DEF RowStep, IInv
<1>2. ASSUME NEW c \in Calls, ClaimGranted(c)
      PROVE  IInv'
  <2> DEFINE k == call[c].key
             t == approvals[k].ticket
  <2>1. /\ k \in Keys
        /\ approvals[k].status = "approved"
        /\ UNCHANGED <<now, given>>
    BY <1>2, <1>b DEF ClaimGranted, Spendable
  <2>2. /\ call'[c].ticket = t /\ call'[c].key = k
        /\ \A d \in Calls \ {c} : call'[d] = call[d]
    BY <1>2, <1>a DEF ClaimGranted, TypeOK, Call
  <2>3. /\ t \in 1..Len(given) /\ given[t].key = k /\ given[t].by = k[1]
        /\ \A d \in Calls : call[d].ticket # t
    BY <2>1 DEF IInv, RowsCarryTheirApproval
  <2>4. Spend(k)
    BY <1>2 DEF ClaimGranted
  <2> HIDE DEF k, t
  <2>5. RowsCarryTheirApproval'
    BY <2>1, <2>2, <2>4, SpendCarry DEF t
  <2>6. CallsHoldTheirApproval'
    BY <2>1, <2>2, <2>3 DEF IInv, CallsHoldTheirApproval
  <2>7. SpentOnce'
    BY <2>2, <2>3 DEF IInv, SpentOnce
  <2>8. QED
    BY <1>a, <2>5, <2>6, <2>7 DEF IInv
<1>3. ASSUME NEW c \in Calls, ClaimAnswerLost(c)
      PROVE  IInv'
  <2>1. /\ approvals[call[c].key].status = "approved"
        /\ UNCHANGED <<now, given>>
        /\ Spend(call[c].key)
        /\ Goto(c, "failed")
    BY <1>3 DEF ClaimAnswerLost, Spendable
  <2>2. /\ \A d \in Calls : call'[d].ticket = call[d].ticket
        /\ CallsHoldTheirApproval'
        /\ SpentOnce'
    BY <2>1, CallStepHolds DEF CallStates
  <2>3. QED
    BY <1>a, <1>b, <2>1, <2>2, SpendCarry DEF IInv
<1>4. ASSUME NEW c \in Calls, Request(c)
      PROVE  IInv'
  <2>1. /\ \A d \in Calls : call'[d].ticket = call[d].ticket
        /\ CallsHoldTheirApproval'
        /\ SpentOnce'
    BY <1>4, CallStepHolds DEF Request, CallStates
  <2>2. \A l \in Keys : RowStep(l)
    BY <1>4, <1>a, <1>b, RequestRowStep DEF Request
  <2>3. QED
    BY <1>4, <1>a, <2>1, <2>2, RowStepCarry DEF Request, IInv
<1>5. ASSUME NEW u \in Users, NEW k \in Keys, Approve(u, k)
      PROVE  IInv'
  <2> DEFINE n == Len(given) + 1
  <2>1. /\ n \in Nat /\ n > Len(given) /\ Len(given') = n
        /\ \A t \in 1..Len(given) : given'[t] = given[t]
        /\ given'[n].by = k[1] /\ given'[n].key = k /\ given'[n].at = now
    BY <1>5, <1>a DEF Approve, Answerable, TypeOK, Approval
  <2>2. /\ approvals'[k].ticket = n
        /\ approvals'[k].requestedAt = approvals[k].requestedAt
        /\ approvals'[k].expiresAt = approvals[k].expiresAt
        /\ \A l \in Keys \ {k} : approvals'[l] = approvals[l]
        /\ now' = now /\ call' = call
    BY <1>5, <1>a DEF Approve, TypeOK, Row
  <2>3. approvals[k].expiresAt <= now + ApprovalTtl
    <3>1. /\ approvals[k].expiresAt = approvals[k].requestedAt + ApprovalTtl
          /\ approvals[k].requestedAt <= now
      BY <1>5, <1>a DEF Approve, Answerable, TypeOK, IInv, RowsCarryTheirApproval
    <3>2. approvals[k] \in Row /\ now \in Nat
      BY <1>a DEF TypeOK
    <3>3. QED
      BY <3>1, <3>2, ApprovalsAssumption DEF Row
  <2>4. \A c \in Calls : call[c].ticket # n
    BY <2>1 DEF IInv, CallsHoldTheirApproval
  <2> HIDE DEF n
  <2>5. RowsCarryTheirApproval'
    <3> SUFFICES ASSUME NEW l \in Keys
                 PROVE  /\ approvals'[l].requestedAt <= now'
                        /\ approvals'[l].status = "approved" =>
                             LET t == approvals'[l].ticket IN
                             /\ t \in 1..Len(given')
                             /\ given'[t].key = l
                             /\ given'[t].by = l[1]
                             /\ approvals'[l].expiresAt <= given'[t].at + ApprovalTtl
                             /\ \A c \in Calls : call'[c].ticket # t
      BY DEF RowsCarryTheirApproval
    <3>1. CASE l = k
      BY <3>1, <2>1, <2>2, <2>3, <2>4 DEF IInv, RowsCarryTheirApproval
    <3>2. CASE l # k
      BY <3>2, <2>1, <2>2 DEF IInv, RowsCarryTheirApproval
    <3>3. QED
      BY <3>1, <3>2
  <2>6. CallsHoldTheirApproval'
    BY <2>1, <2>2 DEF IInv, CallsHoldTheirApproval
  <2>7. SpentOnce'
    BY <2>2 DEF IInv, SpentOnce
  <2>8. QED
    BY <1>a, <2>5, <2>6, <2>7 DEF IInv
<1>6. ASSUME NEW u \in Users, NEW k \in Keys, Deny(u, k)
      PROVE  IInv'
  <2>1. /\ approvals'[k].status = "denied"
        /\ approvals'[k].requestedAt = approvals[k].requestedAt
        /\ \A l \in Keys \ {k} : approvals'[l] = approvals[l]
        /\ UNCHANGED <<now, call, given>>
    BY <1>6, <1>a DEF Deny, TypeOK, Row
  <2>2. RowsCarryTheirApproval'
    BY <2>1 DEF IInv, RowsCarryTheirApproval
  <2>3. CallsHoldTheirApproval' /\ SpentOnce'
    BY <2>1 DEF IInv, CallsHoldTheirApproval, SpentOnce
  <2>4. QED
    BY <1>a, <2>2, <2>3 DEF IInv
<1>7. CASE Sweep
  <2>1. /\ \A l \in Keys : RowStep(l)
        /\ UNCHANGED <<now, call, given>>
    BY <1>7, <1>a, SweepRowStep DEF Sweep
  <2>2. CallsHoldTheirApproval' /\ SpentOnce'
    BY <2>1 DEF IInv, CallsHoldTheirApproval, SpentOnce
  <2>3. QED
    BY <1>a, <2>1, <2>2, RowStepCarry DEF IInv
<1>8. CASE Tick
  <2>1. UNCHANGED <<approvals, call, given>> /\ now' = now + 1
    BY <1>8 DEF Tick
  <2>2. now \in Nat /\ \A k \in Keys : approvals[k].requestedAt \in Nat
    BY <1>a DEF TypeOK, Row
  <2>3. RowsCarryTheirApproval'
    BY <2>1, <2>2 DEF IInv, RowsCarryTheirApproval
  <2>4. CallsHoldTheirApproval' /\ SpentOnce'
    BY <2>1 DEF IInv, CallsHoldTheirApproval, SpentOnce
  <2>5. QED
    BY <1>a, <2>3, <2>4 DEF IInv
<1>9. CASE UNCHANGED vars
  BY <1>9 DEF vars, IInv, TypeOK, Exists, RowsCarryTheirApproval, CallsHoldTheirApproval, SpentOnce
<1>10. QED
  BY <1>1, <1>2, <1>3, <1>4, <1>5, <1>6, <1>7, <1>8, <1>9 DEF Next, CallStep

\* One human approval pays for at most one call (service/approvals.ts, claim).
THEOREM EveryApprovalSpentOnce == Spec => []SpentOnce
<1>1. IInv => SpentOnce
  BY DEF IInv
<1>2. QED
  BY <1>1, InitIInv, NextIInv, PTL DEF Spec

\* A gated call runs only on an approval its own user gave for exactly that
\* request (pipeline/execute.ts, assertAllowed).
THEOREM GatedCallsHoldTheirApproval == Spec => []RunsOnOwnApproval
<1>1. IInv => RunsOnOwnApproval
  BY DEF IInv, CallsHoldTheirApproval, RunsOnOwnApproval
<1>2. QED
  BY <1>1, InitIInv, NextIInv, PTL DEF Spec

-----------------------------------------------------------------------------
\* A live denied row is neither refreshed, evicted nor swept.
LEMMA NextKeepsDenial ==
  ASSUME TypeOK, Next, NEW k \in Keys, approvals[k].status = "denied", Live(k)
  PROVE  approvals'[k] = approvals[k]
<1>1. ASSUME NEW c \in Calls, ClaimGranted(c) \/ ClaimAnswerLost(c)
      PROVE  approvals'[k] = approvals[k]
  <2>1. call[c].key # k
    BY <1>1 DEF ClaimGranted, ClaimAnswerLost, Spendable
  <2>2. QED
    BY <1>1, <2>1 DEF ClaimGranted, ClaimAnswerLost, Spend, TypeOK
<1>2. ASSUME NEW c \in Calls, Request(c)
      PROVE  approvals'[k] = approvals[k]
  <2>1. Stands(k) /\ Exists(k)
    BY DEF Stands, Exists
  <2>2. \A o, out : out \in Evictions(o) => k \notin out
    BY DEF Evictions, Pending
  <2>3. RequestRow(call[c].key)
    BY <1>2 DEF Request
  <2>4. QED
    BY <2>1, <2>2, <2>3 DEF RequestRow, TypeOK
<1>3. ASSUME NEW u \in Users, NEW l \in Keys, Approve(u, l) \/ Deny(u, l)
      PROVE  approvals'[k] = approvals[k]
  BY <1>3 DEF Approve, Deny, Answerable, TypeOK
<1>4. CASE Sweep
  BY <1>4 DEF Sweep, TypeOK
<1>5. CASE Tick \/ \E c \in Calls : Decide(c) \/ ClaimRefused(c) \/ CallFails(c) \/ Execute(c)
  BY <1>5 DEF Tick, Decide, ClaimRefused, CallFails, Execute
<1>6. QED
  BY <1>1, <1>2, <1>3, <1>4, <1>5 DEF Next, CallStep

\* A denial stands until it expires (service/approvals.ts, request).
THEOREM DenialsStand == Spec => DenialStands
<1>1. TypeOK /\ [Next]_vars =>
        [\A k \in Keys :
           approvals[k].status = "denied" /\ Live(k) => approvals'[k] = approvals[k]]_vars
  BY NextKeepsDenial
<1>2. QED
  BY <1>1, TypeCorrect, PTL DEF Spec, DenialStands

\* A claim that clears a call comes within one ApprovalTtl of the approval.
LEMMA NextSpendsFresh ==
  ASSUME IInv, Next, NEW c \in Calls, call'[c].ticket # call[c].ticket
  PROVE  now < given[call'[c].ticket].at + ApprovalTtl
<1>1. PICK d \in Calls : ClaimGranted(d)
  <2>1. ASSUME NEW d \in Calls, CallStep(d), ~ClaimGranted(d)
        PROVE  FALSE
    <3>1. \E pc \in CallStates : Goto(d, pc)
      BY <2>1 DEF CallStep, Decide, ClaimRefused, ClaimAnswerLost, Request, CallFails,
                  Execute, CallStates
    <3>2. QED
      BY <3>1 DEF Goto, IInv, TypeOK, Call
  <2>2. QED
    BY <2>1 DEF Next, Approve, Deny, Sweep, Tick
<1>2. c = d /\ call'[c].ticket = approvals[call[c].key].ticket
  BY <1>1 DEF ClaimGranted, IInv, TypeOK, Call
<1>3. call[c].key \in Keys /\ Spendable(call[c].key)
  BY <1>1, <1>2 DEF ClaimGranted, IInv, TypeOK, Call
<1>4. LET t == approvals[call[c].key].ticket IN
      /\ approvals[call[c].key].expiresAt <= given[t].at + ApprovalTtl
      /\ t \in 1..Len(given)
  BY <1>3 DEF IInv, RowsCarryTheirApproval, Spendable
<1>5. now < approvals[call[c].key].expiresAt
  BY <1>3 DEF Spendable, Live
<1>6. /\ approvals[call[c].key].expiresAt \in Nat /\ now \in Nat
      /\ given[approvals[call[c].key].ticket].at \in Nat
  <2>1. /\ approvals[call[c].key] \in Row /\ now \in Nat
        /\ approvals[call[c].key].ticket \in 1..Len(given) /\ given \in Seq(Approval)
    BY <1>3, <1>4 DEF IInv, TypeOK
  <2>2. \A i \in 1..Len(given) : given[i] \in Approval
    BY <2>1
  <2>3. QED
    BY <2>1, <2>2 DEF Row, Approval
<1>7. ApprovalTtl \in Nat
  BY ApprovalsAssumption
<1>8. now < given[approvals[call[c].key].ticket].at + ApprovalTtl
  BY <1>4, <1>5, <1>6, <1>7
<1>9. QED
  BY <1>2, <1>8

\* Consent is fresh when it is spent (_shared/limits.ts, APPROVAL_TTL_MS).
THEOREM ConsentIsFresh == Spec => FreshConsent
<1>1. IInv /\ [Next]_vars =>
        [\A c \in Calls :
           call'[c].ticket # call[c].ticket => now < given[call'[c].ticket].at + ApprovalTtl]_vars
  BY NextSpendsFresh
<1>2. QED
  BY <1>1, InitIInv, NextIInv, PTL DEF Spec, FreshConsent

-----------------------------------------------------------------------------
\* The cardinalities InsertMakesRoom compares are of finite sets, however many
\* requests there are: only a request makes a row pending, one at a time.
PendingIsFinite == \A o \in Owners : IsFiniteSet(Pending(o))

\* A step makes at most one row pending.
LEMMA NextPendingGrowsByOne ==
  ASSUME TypeOK, [Next]_vars
  PROVE  \E l : \A k \in Keys \ {l} :
           approvals'[k].status = "pending" => approvals[k].status = "pending"
<1>1. ASSUME NEW c \in Calls, Request(c)
      PROVE  \A k \in Keys \ {call[c].key} :
               approvals'[k].status = "pending" => approvals[k].status = "pending"
  BY <1>1 DEF Request, RequestRow, TypeOK, NoRow
<1>2. ASSUME NEW c \in Calls, CallStep(c), ~Request(c), NEW k \in Keys,
             approvals'[k].status = "pending"
      PROVE  approvals[k].status = "pending"
  BY <1>2 DEF CallStep, Decide, ClaimGranted, ClaimRefused, ClaimAnswerLost, CallFails, Execute,
              Spend, TypeOK, Row
<1>3. ASSUME NEW u \in Users, NEW l \in Keys, Approve(u, l) \/ Deny(u, l), NEW k \in Keys,
             approvals'[k].status = "pending"
      PROVE  approvals[k].status = "pending"
  BY <1>3 DEF Approve, Deny, TypeOK, Row
<1>4. ASSUME Sweep \/ Tick \/ UNCHANGED vars, NEW k \in Keys, approvals'[k].status = "pending"
      PROVE  approvals[k].status = "pending"
  BY <1>4 DEF Sweep, Tick, vars, TypeOK, NoRow
<1>5. QED
  BY <1>1, <1>2, <1>3, <1>4 DEF Next

LEMMA NextPendingIsFinite == TypeOK /\ PendingIsFinite /\ [Next]_vars => PendingIsFinite'
<1> SUFFICES ASSUME TypeOK, PendingIsFinite, [Next]_vars, NEW o \in Owners
             PROVE  IsFiniteSet(Pending(o)')
  BY DEF PendingIsFinite
<1>1. PICK l : \A k \in Keys \ {l} :
                 approvals'[k].status = "pending" => approvals[k].status = "pending"
  BY NextPendingGrowsByOne
<1>2. Pending(o)' \in SUBSET (Pending(o) \cup {l})
  BY <1>1 DEF Pending
<1>3. IsFiniteSet(Pending(o) \cup {l})
  BY FS_AddElement DEF PendingIsFinite
<1>4. QED
  BY <1>2, <1>3, FS_Subset

\* At or over the cap, an eviction removes the overflow and no row twice.
LEMMA EvictionsMakeRoom ==
  ASSUME NEW o \in Owners, IsFiniteSet(Pending(o)), Cardinality(Pending(o)) >= MaxPending,
         NEW out \in Evictions(o)
  PROVE  /\ out \in SUBSET Pending(o)
         /\ Cardinality(out) >= 1
         /\ Cardinality(Pending(o)) > MaxPending => Cardinality(out) >= 2
<1>1. MaxPending \in Nat /\ Cardinality(Pending(o)) \in Nat
  BY ApprovalsAssumption, FS_CardinalityType
<1>2. PICK scan \in Scans(o) :
        /\ out \subseteq scan
        /\ Cardinality(out) = IF Overflow(scan) > 0 THEN Overflow(scan) ELSE 0
  BY DEF Evictions
<1>3. out \in SUBSET Pending(o)
  BY DEF Evictions
<1>4. CASE Cardinality(Pending(o)) > MaxPending
  <2>1. Cardinality(scan) = MaxPending + 1
    BY <1>1, <1>4 DEF Scans
  <2>2. Overflow(scan) = 2
    BY <1>1, <2>1 DEF Overflow
  <2>3. QED
    BY <1>2, <1>3, <2>2
<1>5. CASE Cardinality(Pending(o)) = MaxPending
  <2>1. Cardinality(scan) = MaxPending
    BY <1>1, <1>5 DEF Scans
  <2>2. Overflow(scan) = 1
    BY <1>1, <2>1 DEF Overflow
  <2>3. QED
    BY <1>1, <1>2, <1>3, <1>5, <2>2
<1>6. QED
  BY <1>1, <1>4, <1>5

\* Only a request inserts a row, and only after making room for it.
LEMMA NextMakesRoom ==
  ASSUME TypeOK, PendingIsFinite, Next, NEW k \in Keys, ~Exists(k), Exists(k)',
         Cardinality(Pending(k[1])) >= MaxPending
  PROVE  /\ Cardinality(Pending(k[1])') <= Cardinality(Pending(k[1]))
         /\ Cardinality(Pending(k[1])) > MaxPending =>
              Cardinality(Pending(k[1])') < Cardinality(Pending(k[1]))
<1> DEFINE o == k[1]
<1>1. PICK c \in Calls : Request(c) /\ call[c].key = k
  <2>1. ASSUME NEW c \in Calls, CallStep(c), ~Request(c)
        PROVE  FALSE
    <3>1. CASE ClaimGranted(c) \/ ClaimAnswerLost(c)
      <4>1. call[c].key \in Keys /\ Exists(call[c].key)
        BY <3>1 DEF ClaimGranted, ClaimAnswerLost, Spendable, Exists, TypeOK, Call
      <4>2. QED
        BY <3>1, <4>1 DEF ClaimGranted, ClaimAnswerLost, Spend, Exists, TypeOK
    <3>2. CASE ~(ClaimGranted(c) \/ ClaimAnswerLost(c))
      BY <2>1, <3>2 DEF CallStep, Decide, ClaimRefused, CallFails, Execute, Exists
    <3>3. QED
      BY <3>1, <3>2
  <2>2. ASSUME NEW c \in Calls, Request(c), call[c].key # k
        PROVE  FALSE
    BY <2>2 DEF Request, RequestRow, Exists, TypeOK, NoRow
  <2>3. ASSUME NEW u \in Users, NEW l \in Keys, Approve(u, l) \/ Deny(u, l)
        PROVE  FALSE
    BY <2>3 DEF Approve, Deny, Answerable, Exists, TypeOK
  <2>4. ~Sweep /\ ~Tick
    BY DEF Sweep, Tick, Exists, NoRow
  <2>5. QED
    BY <2>1, <2>2, <2>3, <2>4 DEF Next
<1>2. PICK out \in Evictions(o) :
        approvals' = [l \in Keys |-> IF l = k THEN FreshRow
                                     ELSE IF l \in out THEN NoRow ELSE approvals[l]]
  BY <1>1 DEF Request, RequestRow, Stands, Exists
<1>3. o \in Owners /\ IsFiniteSet(Pending(o)) /\ Cardinality(Pending(o)) \in Nat
  BY FS_CardinalityType DEF Keys, PendingIsFinite
<1>4. /\ out \in SUBSET Pending(o)
      /\ Cardinality(out) >= 1
      /\ Cardinality(Pending(o)) > MaxPending => Cardinality(out) >= 2
  BY <1>3, EvictionsMakeRoom
<1>5. Pending(o)' = (Pending(o) \ out) \cup {k}
  BY <1>2 DEF Pending, FreshRow, NoRow
<1>6. IsFiniteSet(out) /\ Cardinality(out) \in Nat
  BY <1>3, <1>4, FS_Subset, FS_CardinalityType
<1>7. /\ IsFiniteSet(Pending(o) \ out)
      /\ Cardinality(Pending(o) \ out) = Cardinality(Pending(o)) - Cardinality(out)
  <2>1. Pending(o) \cap out = out
    BY <1>4
  <2>2. QED
    BY <1>3, <2>1, FS_Difference
<1>8. Cardinality(Pending(o)') <= Cardinality(Pending(o)) - Cardinality(out) + 1
  <2>1. Cardinality((Pending(o) \ out) \cup {k}) \in
          {Cardinality(Pending(o) \ out), Cardinality(Pending(o) \ out) + 1}
    BY <1>7, FS_AddElement
  <2>2. QED
    BY <1>3, <1>5, <1>6, <1>7, <2>1
<1>9. MaxPending \in Nat /\ Cardinality(Pending(o)') \in Nat
  BY <1>5, <1>7, FS_AddElement, FS_CardinalityType, ApprovalsAssumption
<1>10. QED
  BY <1>3, <1>4, <1>6, <1>8, <1>9

\* The table of pending requests keeps its cap: an insert never grows an
\* owner's rows past it, and brings a table that drifted over it closer
\* (features/approvals/mutations.ts, "never 101").
THEOREM PendingKeepsItsCap == Spec => InsertMakesRoom
<1>1. Init => PendingIsFinite
  <2>1. Init => \A o \in Owners : Pending(o) = {}
    BY DEF Init, Pending, NoRow
  <2>2. QED
    BY <2>1, FS_EmptySet DEF PendingIsFinite
<1>2. TypeOK /\ PendingIsFinite /\ [Next]_vars =>
        [\A k \in Keys :
           LET before == Cardinality(Pending(k[1]))
               after  == Cardinality(Pending(k[1])')
           IN  ~Exists(k) /\ Exists(k)' /\ before >= MaxPending
                 => after <= before /\ (before > MaxPending => after < before)]_vars
  BY NextMakesRoom
<1>3. QED
  BY <1>1, <1>2, NextPendingIsFinite, TypeCorrect, PTL DEF Spec, InsertMakesRoom

=============================================================================
