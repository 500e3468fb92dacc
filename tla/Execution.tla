------------------------------ MODULE Execution ------------------------------
(***************************************************************************)
(* "THE execution path" (gateway pipeline/execute.ts) with the two entry   *)
(* points that funnel into it, POST /v1/actions and the MCP tools/call     *)
(* (mcp/server.ts), the policy that decides (packages/policy, convex       *)
(* service/policy.ts and features/policy/mutations.ts), the catalog, the   *)
(* choice of executor and the audit row.                                   *)
(*                                                                         *)
(* One user.  Every read of the control plane is an await of its own, and  *)
(* in between the user revokes the key, sets rules, connects and removes   *)
(* connections, and the machine comes and goes.  A local action requires   *)
(* the one capability of its connector, a cloud action a connection.  What *)
(* becomes of a claim is the model Approvals, how a job reaches a device   *)
(* DeviceRelay and JobDispatch, how a credential is renewed Credentials.   *)
(***************************************************************************)
EXTENDS Naturals, Sequences, FiniteSets

CONSTANTS
  ExecCalls,      \* the calls
  ExecActions,
  ActionHome,     \* per action, its connector
  HomeExecutor,   \* per connector, "cloud" or "local"
  Baseline,       \* per action, DEFAULT_RISK_DECISION of its risk class
  MaxRuleRows,    \* MAX_POLICY_RULES_PER_USER: rows read of a connector
  RuleDecisions,  \* bound: the decisions the user gives a rule
  MaxRules,       \* bound: rows of the policyRules table
  MaxExecFaults   \* bound: failed reads, writes and dead gateways

Decisions == {"ALLOW", "REQUIRE_APPROVAL", "DENY"}
Homes     == {ActionHome[a] : a \in ExecActions}
Wildcard  == "*"

ASSUME ExecutionAssumption ==
  /\ ExecActions # {}
  /\ HomeExecutor \in [Homes -> {"cloud", "local"}]
  /\ Baseline \in [ExecActions -> Decisions]
  /\ RuleDecisions \subseteq Decisions
  /\ {MaxRuleRows, MaxRules, MaxExecFaults} \subseteq Nat
  /\ Wildcard \notin ExecActions

VARIABLES
  account,     \* what the user has: a key, a machine, cloud connections
  rules,       \* the policyRules table, oldest row first
  run,         \* per call, where it has got to
  execFaults   \* how many of the MaxExecFaults have happened

execVars == <<account, rules, run, execFaults>>

Account ==
  [key    : {"active", "revoked"},
   device : {"offline", "online", "capable"},  \* what it announces while online
   linked : BOOLEAN]                           \* there is an active connection

RuleRow == [home : Homes, target : ExecActions \cup {Wildcard}, decision : Decisions]

RunStates ==
  {"idle", "arrived", "listing", "missing", "deciding", "ruled", "claiming", "requesting",
   "executing", "running", "recording", "done"}

Refusals == {"key", "rule", "device", "connection"}

Run ==
  [state    : RunStates,
   entry    : {"rest", "mcp"},
   action   : ExecActions,
   standing : SUBSET Refusals,    \* reasons to refuse it in force ever since it arrived
   rule     : Decisions \cup {"none"},
   decision : Decisions,          \* "DENY" until decided
   executed : BOOLEAN,            \* an executor was given the action
   answer   : {"none", "success", "error", "unauthorized"},
   rows     : Seq([decision : Decisions, status : {"success", "error"}]),
   unheard  : BOOLEAN]            \* an audit write failed, or nobody was left to write

ExecInit ==
  /\ account = [key |-> "active", device |-> "capable", linked |-> TRUE]
  /\ rules = <<>>
  /\ run = [c \in ExecCalls |->
       [state |-> "idle", entry |-> "rest", action |-> CHOOSE a \in ExecActions : TRUE, standing |-> {},
        rule |-> "none", decision |-> "DENY", executed |-> FALSE, answer |-> "none", rows |-> <<>>,
        unheard |-> FALSE]]
  /\ execFaults = 0

-----------------------------------------------------------------------------
(* The policy: packages/policy and the rows it is given.                   *)

Rank == [ALLOW |-> 0, REQUIRE_APPROVAL |-> 1, DENY |-> 2]

\* mostRestrictive, of a non-empty set.
MostRestrictive(D) == CHOOSE d \in D : \A e \in D : Rank[e] <= Rank[d]

RowsOf(table, h) == {i \in DOMAIN table : table[i].home = h}

\* What take() returns: the oldest rows of the connector.
RowsRead(table, h) ==
  {i \in RowsOf(table, h) : Cardinality({j \in RowsOf(table, h) : j < i}) < MaxRuleRows}

DecisionsFor(table, rows, target) == {table[i].decision : i \in {j \in rows : table[j].target = target}}

\* Mutant of Matched: a rule for the connector hides the one for the action.
MatchedWildcardFirst(table, rows, a) ==
  LET wild == DecisionsFor(table, rows, Wildcard)
      own  == DecisionsFor(table, rows, a)
  IN IF wild # {} THEN MostRestrictive(wild) ELSE IF own # {} THEN MostRestrictive(own) ELSE "none"

\* matchRule: rules for the very action, else those for all of the connector's.
Matched(table, rows, a) ==
  LET own  == DecisionsFor(table, rows, a)
      wild == DecisionsFor(table, rows, Wildcard)
  IN IF own # {} THEN MostRestrictive(own) ELSE IF wild # {} THEN MostRestrictive(wild) ELSE "none"

\* evaluatePolicy: a missing capability denies, and a rule only ever tightens
\* the baseline of the action's risk class.
Evaluate(a, rule, capable) ==
  IF ~capable THEN "DENY" ELSE MostRestrictive({Baseline[a]} \cup ({rule} \ {"none"}))

\* setRule: an upsert among the rows it reads, which are no more than those.
WithRule(h, target, decision) ==
  LET found == {i \in RowsRead(rules, h) : rules[i].target = target}
      row   == [home |-> h, target |-> target, decision |-> decision]
  IN IF found = {} THEN Append(rules, row)
     ELSE [rules EXCEPT ![CHOOSE i \in found : \A j \in found : i <= j] = row]

-----------------------------------------------------------------------------
Local(a) == HomeExecutor[ActionHome[a]] = "local"

\* The user said no: to the action, or to its connector and nothing else to it.
\* Rows beyond those that are read are out of everybody's sight.
Forbidden(table, a) ==
  LET h == ActionHome[a]
      Says(target, D) == \E i \in RowsOf(table, h) : table[i].target = target /\ table[i].decision \in D IN
  /\ RowsRead(table, h) = RowsOf(table, h)
  /\ Says(a, {"DENY"}) \/ (Says(Wildcard, {"DENY"}) /\ ~Says(a, Decisions))

\* The reasons that stand against an action: the key is revoked, a rule says
\* no, no machine announces the capability, there is no connection.
InForce(acc, table, a) ==
  {r \in Refusals :
     \/ r = "key" /\ acc.key = "revoked"
     \/ r = "rule" /\ Forbidden(table, a)
     \/ r = "device" /\ Local(a) /\ acc.device # "capable"
     \/ r = "connection" /\ ~Local(a) /\ ~acc.linked}

\* A change of what the user has, and of what has stood ever since.  Bound: what
\* changes once every call is done is no call's concern.
Changes(acc, table) ==
  /\ ~\A c \in ExecCalls : run[c].state = "done"
  /\ account' = acc /\ rules' = table
  /\ run' = [c \in ExecCalls |->
       IF run[c].executed \/ run[c].state \in {"idle", "done"} THEN run[c]
       ELSE [run[c] EXCEPT !.standing = @ \cap InForce(acc, table, run[c].action)]]
  /\ UNCHANGED execFaults

RevokeExecKey == account.key = "active" /\ Changes([account EXCEPT !.key = "revoked"], rules)

MachineChanges ==
  \E d \in {"offline", "online", "capable"} \ {account.device} : Changes([account EXCEPT !.device = d], rules)

ConnectionChanges == Changes([account EXCEPT !.linked = ~@], rules)

SetRule ==
  \E h \in Homes, d \in RuleDecisions :
    \E target \in {a \in ExecActions : ActionHome[a] = h} \cup {Wildcard} :
      LET table == WithRule(h, target, d) IN
      table # rules /\ Len(table) <= MaxRules /\ Changes(account, table)

-----------------------------------------------------------------------------
ExecFault == execFaults < MaxExecFaults /\ execFaults' = execFaults + 1

Moves(c, rec) == run' = [run EXCEPT ![c] = rec] /\ UNCHANGED <<account, rules>>

Ended(c, answer) == [run[c] EXCEPT !.state = "done", !.answer = answer]

\* To the finally of executeAction, with what it will record.
Failing(c) == [run[c] EXCEPT !.state = "recording", !.answer = "error"]

\* The request reaches the gateway and is within its peer's budget, or is not:
\* the limiter fails closed when the control plane does not answer.
Arrive(c) ==
  /\ run[c].state = "idle"
  /\ \/ \E a \in ExecActions, entry \in {"rest", "mcp"} :
          Moves(c, [run[c] EXCEPT !.state = "arrived", !.entry = entry, !.action = a,
                                  !.standing = InForce(account, rules, a)])
     \/ Moves(c, Ended(c, "error"))
  /\ UNCHANGED execFaults

\* authenticateCaller; a failed lookup is a denial.
Authenticate(c) ==
  /\ run[c].state = "arrived"
  /\ \/ /\ account.key = "active"
        /\ Moves(c, [run[c] EXCEPT !.state = IF run[c].entry = "mcp" THEN "listing" ELSE "deciding"])
        /\ UNCHANGED execFaults
     \/ account.key = "revoked" /\ Moves(c, Ended(c, "unauthorized")) /\ UNCHANGED execFaults
     \/ Moves(c, Ended(c, "unauthorized")) /\ ExecFault

\* callTool resolves the caller's catalog first: an action is in it while its
\* connector is connected and a machine announces what it requires.  A failed
\* read ends the call before the pipeline, and without a row.
InCatalog(a) == IF Local(a) THEN account.device = "capable" ELSE account.linked

ListCatalog(c) ==
  /\ run[c].state = "listing"
  /\ \/ /\ Moves(c, [run[c] EXCEPT !.state = IF InCatalog(run[c].action) THEN "deciding" ELSE "missing"])
        /\ UNCHANGED execFaults
     \/ Moves(c, [Ended(c, "error") EXCEPT !.unheard = TRUE]) /\ ExecFault

\* auditCatalogMiss.
RecordMiss(c) ==
  /\ run[c].state = "missing"
  /\ \/ /\ Moves(c, [Ended(c, "error") EXCEPT !.rows = Append(@, [decision |-> "DENY", status |-> "error"])])
        /\ UNCHANGED execFaults
     \/ Moves(c, [Ended(c, "error") EXCEPT !.unheard = TRUE]) /\ ExecFault

\* What assertAllowed does about the decision.
Decided(c, rule, capable) ==
  LET d == Evaluate(run[c].action, rule, capable) IN
  [run[c] EXCEPT !.decision = d, !.rule = rule,
     !.answer = IF d = "DENY" THEN "error" ELSE @,
     !.state = CASE d = "DENY" -> "recording"
                 [] d = "REQUIRE_APPROVAL" -> "claiming"
                 [] d = "ALLOW" -> "executing"]

\* decide: the rules, and for a local connector then the devices.
ReadRules(c) ==
  LET a == run[c].action
      rule == Matched(rules, RowsRead(rules, ActionHome[a]), a) IN
  /\ run[c].state = "deciding"
  /\ Moves(c, IF Local(a) THEN [run[c] EXCEPT !.state = "ruled", !.rule = rule] ELSE Decided(c, rule, TRUE))
  /\ UNCHANGED execFaults

ReadDevices(c) ==
  /\ run[c].state = "ruled"
  /\ Moves(c, Decided(c, run[c].rule, account.device = "capable"))
  /\ UNCHANGED execFaults

\* The claim finds an approval or does not; if not, one is requested.
ClaimApproval(c) ==
  /\ run[c].state = "claiming"
  /\ \E state \in {"executing", "requesting"} : Moves(c, [run[c] EXCEPT !.state = state])
  /\ UNCHANGED execFaults

\* Queued or not, the call is refused.
RequestApproval(c) ==
  /\ run[c].state = "requesting"
  /\ Moves(c, Failing(c))
  /\ UNCHANGED execFaults

\* The router's executor looks for a device or a credential again, and then
\* the action is under way.
Execute(c) ==
  /\ run[c].state = "executing"
  /\ Moves(c, IF InCatalog(run[c].action) THEN [run[c] EXCEPT !.state = "running", !.executed = TRUE]
                                          ELSE Failing(c))
  /\ UNCHANGED execFaults

\* The device or the remote server answers, fails or is too late.
Executed(c) ==
  /\ run[c].state = "running"
  /\ \E answer \in {"success", "error"} :
       Moves(c, [run[c] EXCEPT !.state = "recording", !.answer = answer])
  /\ UNCHANGED execFaults

\* A read or the claim fails: its error is this call's.
ReadFails(c) ==
  /\ run[c].state \in {"deciding", "ruled", "claiming", "executing"}
  /\ Moves(c, Failing(c))
  /\ ExecFault

Row(c) == [decision |-> run[c].decision, status |-> run[c].answer]

\* The finally: one row, whatever happened; a sink that fails is swallowed.
RecordRow(c) ==
  /\ run[c].state = "recording"
  /\ \/ /\ Moves(c, [run[c] EXCEPT !.state = "done", !.rows = Append(@, Row(c))])
        /\ UNCHANGED execFaults
     \/ Moves(c, [run[c] EXCEPT !.state = "done", !.unheard = TRUE]) /\ ExecFault

\* The gateway process dies: nobody is left to record or to answer.
GatewayDies ==
  LET dying == {c \in ExecCalls : run[c].state \notin {"idle", "done"}} IN
  /\ dying # {}
  /\ run' = [c \in ExecCalls |->
       IF c \in dying THEN [run[c] EXCEPT !.state = "done", !.answer = "none", !.unheard = TRUE] ELSE run[c]]
  /\ ExecFault
  /\ UNCHANGED <<account, rules>>

ExecNext ==
  \/ \E c \in ExecCalls :
       \/ Arrive(c) \/ Authenticate(c) \/ ListCatalog(c) \/ RecordMiss(c) \/ ReadRules(c) \/ ReadDevices(c)
       \/ ClaimApproval(c) \/ RequestApproval(c) \/ Execute(c) \/ Executed(c) \/ ReadFails(c) \/ RecordRow(c)
  \/ RevokeExecKey \/ MachineChanges \/ ConnectionChanges \/ SetRule \/ GatewayDies

ExecSpec == ExecInit /\ [][ExecNext]_execVars

-----------------------------------------------------------------------------
\* Every variable has its type, and only the rows beyond those that are read
\* are ever duplicated.
ExecTypeOK ==
  /\ account \in Account
  /\ rules \in Seq(RuleRow) /\ Len(rules) <= MaxRules
  /\ run \in [ExecCalls -> Run]
  /\ execFaults \in 0..MaxExecFaults
  /\ \A h \in Homes : \A i, j \in RowsRead(rules, h) : rules[i].target = rules[j].target => i = j

\* A reason to refuse that stood from a call's arrival on keeps it from being
\* executed, through either entry point, however the reads of the key, the
\* rules, the devices and the connections interleave with changes of others.
StandingRefusalHolds ==
  \A c \in ExecCalls : run[c].executed => run[c].standing = {}

\* Every authenticated call that was answered has exactly one audit row unless
\* the sink failed, and the row tells what happened: a denied call was never
\* executed, a success is the answer the caller got of an executed one.
AuditTellsTheTruth ==
  \A c \in ExecCalls :
    LET r == run[c] IN
    /\ Len(r.rows) <= 1
    /\ r.state = "done" /\ ~r.unheard /\ r.executed => Len(r.rows) = 1
    /\ \A i \in DOMAIN r.rows :
         /\ r.rows[i].status = r.answer
         /\ r.rows[i].status = "success" => r.executed
         /\ r.rows[i].decision = "DENY" => ~r.executed

\* A refusal the owner's standing rules demand is never walked past, and the audit
\* row of a call tells what happened (pipeline/execute.ts).
ExecutionSound == StandingRefusalHolds /\ AuditTellsTheTruth

=============================================================================
