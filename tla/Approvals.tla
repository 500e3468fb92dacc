------------------------------ MODULE Approvals ------------------------------
(***************************************************************************)
(* The exact-call approval store: the rows of the Convex table             *)
(* "approvals", the gateway calls that spend them (service/approvals.ts,   *)
(* pipeline/execute.ts) and the people who answer them                     *)
(* (features/approvals/mutations.ts).                                      *)
(*                                                                         *)
(* A Convex mutation is one serializable transaction, so each mutation is  *)
(* one action.  A gateway call awaits two of them (claim, then request)    *)
(* and anything may happen in between: other calls, people, the sweep and  *)
(* the clock.                                                              *)
(***************************************************************************)
EXTENDS Integers, Sequences, FiniteSets

CONSTANTS
  Users,         \* the people who sign in and may answer
  Owners,        \* those on whose behalf calls are made: a row belongs to one
  Requests,      \* request hashes: connector, action and canonical arguments
  Calls,         \* gateway calls (executeAction), each made once
  ApprovalTtl,   \* APPROVAL_TTL_MS, in ticks of the clock
  MaxPending,    \* MAX_PENDING_APPROVALS_PER_OWNER
  MaxTime,       \* bound: the clock stops here
  MaxDecisions   \* bound: approvals people give in one behaviour

ASSUME ApprovalsAssumption ==
  /\ Owners \subseteq Users
  /\ ApprovalTtl \in Nat \ {0}
  /\ MaxPending \in Nat \ {0}
  /\ MaxTime \in Nat
  /\ MaxDecisions \in Nat

VARIABLES
  now,        \* Date.now() of the control plane
  approvals,  \* the table: at most one row per owner and request hash
  call,       \* what each gateway call is doing
  given       \* history: every approval a person gave, in order

vars == <<now, approvals, call, given>>

Keys == Owners \X Requests

Statuses == {"none", "pending", "approved", "denied", "consumed"}

\* A row remembers, besides its columns, which approval (index of given) it
\* carries while its status is "approved".
Row == [status : Statuses, requestedAt : Nat, expiresAt : Nat, ticket : Nat]

NoRow == [status |-> "none", requestedAt |-> 0, expiresAt |-> 0, ticket |-> 0]

\* Mutant of FreshRow: the expiry is not moved.
FreshRowExpired == [status |-> "pending", requestedAt |-> now, expiresAt |-> now, ticket |-> 0]

\* The row a request inserts, or turns an old row into.
FreshRow == [status      |-> "pending",
             requestedAt |-> now,
             expiresAt   |-> now + ApprovalTtl,
             ticket      |-> 0]

CallStates ==
  {"idle", "claiming", "requesting", "cleared", "executed", "refused", "failed"}

Decisions == {"ALLOW", "REQUIRE_APPROVAL", "DENY"}

\* A call's ticket is the approval it spent, 0 when it spent none.
Call == [pc : CallStates, key : Keys, decision : Decisions, ticket : Nat]

Approval == [by : Users, key : Keys, at : Nat]

-----------------------------------------------------------------------------
Exists(k)    == approvals[k].status # "none"
Live(k)      == approvals[k].expiresAt > now

\* Mutant of Spendable: expiry is left to the sweep.
SpendableExpired(k) == approvals[k].status = "approved"

\* The row a claim may spend.
Spendable(k) == approvals[k].status = "approved" /\ Live(k)

\* Mutant of Stands: a request may reopen a denied row.
StandsPendingOnly(k) == approvals[k].status = "pending" /\ Live(k)

\* The row a request leaves alone.
Stands(k) == approvals[k].status \in {"pending", "denied"} /\ Live(k)

Pending(o) == {k \in Keys : k[1] = o /\ approvals[k].status = "pending"}

\* An index scan returns at most MaxPending + 1 of an owner's pending rows.
\* The order of insertion is not kept, so it may be any of them.
Scans(o) ==
  {scan \in SUBSET Pending(o) :
     IF Cardinality(Pending(o)) <= MaxPending
       THEN scan = Pending(o)
       ELSE Cardinality(scan) = MaxPending + 1}

\* Mutant of Overflow: the off-by-one its comment in the source warns about.
OverflowOffByOne(scan) == Cardinality(scan) - MaxPending

\* How many of the scanned rows have to go before one is inserted.
Overflow(scan) == Cardinality(scan) - MaxPending + 1

\* The sets of rows an insertion for owner o may evict: none below the cap,
\* otherwise the Overflow(scan) rows that were requested first.
Evictions(o) ==
  {out \in SUBSET Pending(o) :
     \E scan \in Scans(o) :
       /\ out \subseteq scan
       /\ Cardinality(out) = IF Overflow(scan) > 0 THEN Overflow(scan) ELSE 0
       /\ \A k \in out, l \in scan \ out :
            approvals[k].requestedAt <= approvals[l].requestedAt}

-----------------------------------------------------------------------------
Init ==
  /\ now = 0
  /\ approvals = [k \in Keys |-> NoRow]
  /\ call \in [Calls -> [pc : {"idle"}, key : Keys, decision : Decisions, ticket : {0}]]
  /\ given = <<>>

Goto(c, pc) == call' = [call EXCEPT ![c].pc = pc]

\* The policy has decided: DENY ends the call, ALLOW clears it, and
\* REQUIRE_APPROVAL sends it to the approval store.
Decide(c) ==
  /\ call[c].pc = "idle"
  /\ \/ call[c].decision = "DENY"             /\ Goto(c, "refused")
     \/ call[c].decision = "ALLOW"            /\ Goto(c, "cleared")
     \/ call[c].decision = "REQUIRE_APPROVAL" /\ Goto(c, "claiming")
  /\ UNCHANGED <<now, approvals, given>>

\* Mutant of Spend: the claim reads the row and forgets to write it.
SpendNothing(k) == approvals' = [approvals EXCEPT ![k].status = "approved"]

\* The claim mutation's effect on the table.
Spend(k) == approvals' = [approvals EXCEPT ![k].status = "consumed"]

\* claim answers true: the approval is spent and the call may execute.
ClaimGranted(c) ==
  LET k == call[c].key IN
  /\ call[c].pc = "claiming"
  /\ Spendable(k)
  /\ Spend(k)
  /\ call' = [call EXCEPT ![c].pc = "cleared", ![c].ticket = approvals[k].ticket]
  /\ UNCHANGED <<now, given>>

\* claim answers false: nothing to spend, the call will be queued.
ClaimRefused(c) ==
  /\ call[c].pc = "claiming"
  /\ ~Spendable(call[c].key)
  /\ Goto(c, "requesting")
  /\ UNCHANGED <<now, approvals, given>>

\* claim commits but its answer never reaches the gateway: the call fails
\* and the approval it spent buys nothing.
ClaimAnswerLost(c) ==
  /\ call[c].pc = "claiming"
  /\ Spendable(call[c].key)
  /\ Spend(call[c].key)
  /\ Goto(c, "failed")
  /\ UNCHANGED <<now, given>>

\* The request mutation for key k: a live pending or denied row stands, any
\* other row becomes pending again, and a new row is inserted after room has
\* been made for it.
RequestRow(k) ==
  \/ /\ Stands(k)
     /\ UNCHANGED approvals
  \/ /\ Exists(k) /\ ~Stands(k)
     /\ approvals' = [approvals EXCEPT ![k] = FreshRow]
  \/ /\ ~Exists(k)
     /\ \E out \in Evictions(k[1]) :
          approvals' = [l \in Keys |-> IF l = k THEN FreshRow
                                       ELSE IF l \in out THEN NoRow
                                       ELSE approvals[l]]

\* The call is queued for a person and refused with APPROVAL_REQUIRED.
Request(c) ==
  /\ call[c].pc = "requesting"
  /\ RequestRow(call[c].key)
  /\ Goto(c, "refused")
  /\ UNCHANGED <<now, given>>

\* The control plane is unreachable, or the gateway process dies: a claim that
\* was not committed, a request that was not recorded, an execution not begun.
CallFails(c) ==
  /\ call[c].pc \in {"claiming", "requesting", "cleared"}
  /\ Goto(c, "failed")
  /\ UNCHANGED <<now, approvals, given>>

\* The executor runs the action; this is the side effect approvals guard.
Execute(c) ==
  /\ call[c].pc = "cleared"
  /\ Goto(c, "executed")
  /\ UNCHANGED <<now, approvals, given>>

\* Mutant of Answerable: the owner of the row is not compared.
AnswerableByAnyone(u, k) ==
  /\ Exists(k)
  /\ approvals[k].status = "pending"
  /\ Live(k)

\* What approve and deny require of the row a person answers.
Answerable(u, k) ==
  /\ Exists(k) /\ k[1] = u
  /\ approvals[k].status = "pending"
  /\ Live(k)

Approve(u, k) ==
  /\ Answerable(u, k)
  /\ Len(given) < MaxDecisions
  /\ given' = Append(given, [by |-> u, key |-> k, at |-> now])
  /\ approvals' = [approvals EXCEPT ![k] = [@ EXCEPT !.status = "approved",
                                                    !.ticket = Len(given) + 1]]
  /\ UNCHANGED <<now, call>>

Deny(u, k) ==
  /\ Answerable(u, k)
  /\ approvals' = [approvals EXCEPT ![k].status = "denied"]
  /\ UNCHANGED <<now, call, given>>

\* The hourly sweep deletes expired rows whatever their status, a batch at a
\* time.
Sweep ==
  /\ \E lapsed \in SUBSET {k \in Keys : Exists(k) /\ ~Live(k)} \ {{}} :
       approvals' = [k \in Keys |-> IF k \in lapsed THEN NoRow ELSE approvals[k]]
  /\ UNCHANGED <<now, call, given>>

Tick ==
  /\ now < MaxTime
  /\ now' = now + 1
  /\ UNCHANGED <<approvals, call, given>>

CallStep(c) ==
  \/ Decide(c) \/ ClaimGranted(c) \/ ClaimRefused(c) \/ ClaimAnswerLost(c)
  \/ Request(c) \/ CallFails(c) \/ Execute(c)

Next ==
  \/ \E c \in Calls : CallStep(c)
  \/ \E u \in Users, k \in Keys : Approve(u, k) \/ Deny(u, k)
  \/ Sweep
  \/ Tick

Spec == Init /\ [][Next]_vars

-----------------------------------------------------------------------------
(* Properties                                                              *)

\* Every variable has its type; a row that exists expires one ApprovalTtl
\* after it was last requested, so a refresh always moves the expiry too.
TypeOK ==
  /\ now \in Nat
  /\ approvals \in [Keys -> Row]
  /\ call \in [Calls -> Call]
  /\ given \in Seq(Approval)
  /\ \A k \in Keys : Exists(k) => approvals[k].expiresAt = approvals[k].requestedAt + ApprovalTtl

\* A gated call that got past the approval store holds an approval given by
\* its own user for exactly its own request (service/approvals.ts, claim and
\* request; features/approvals/mutations.ts, resolve).
RunsOnOwnApproval ==
  \A c \in Calls :
    call[c].pc \in {"cleared", "executed"} /\ call[c].decision = "REQUIRE_APPROVAL"
      => /\ call[c].ticket \in 1..Len(given)
         /\ given[call[c].ticket].key = call[c].key
         /\ given[call[c].ticket].by = call[c].key[1]

\* One approval is spent by at most one call, whatever runs concurrently,
\* expires, is swept and is asked for again.
SpentOnce ==
  \A c, d \in Calls :
    c # d /\ call[c].ticket # 0 => call[c].ticket # call[d].ticket

\* A denial stands until it expires: no retry, eviction or sweep touches it.
DenialStands ==
  [][\A k \in Keys :
       approvals[k].status = "denied" /\ Live(k) => approvals'[k] = approvals[k]]_vars

\* Consent is fresh when it is spent: the call is cleared less than one
\* ApprovalTtl after the person said yes (the reason APPROVAL_TTL_MS is short).
FreshConsent ==
  [][\A c \in Calls :
       call'[c].ticket # call[c].ticket => now < given[call'[c].ticket].at + ApprovalTtl]_vars

\* Inserting a row never grows a table that is at its cap, and shrinks one
\* that has drifted over it ("100 existing rows plus one insert must still be
\* 100, never 101").
InsertMakesRoom ==
  [][\A k \in Keys :
       LET before == Cardinality(Pending(k[1]))
           after  == Cardinality(Pending(k[1])')
       IN  ~Exists(k) /\ Exists(k)' /\ before >= MaxPending
             => after <= before /\ (before > MaxPending => after < before)]_vars

\* "A retry loop cannot walk a decision backwards" (service/approvals.ts): an
\* approval that has not expired leaves its status only by being spent.
DecisionNotWalkedBack ==
  [][\A k \in Keys : Spendable(k) => approvals'[k].status \in {"approved", "consumed"}]_vars

=============================================================================
