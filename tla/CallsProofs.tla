----------------------------- MODULE CallsProofs -----------------------------
(***************************************************************************)
(* Theorems about a call on its way: the execution path with its policy    *)
(* and its audit (Execution), the calls of an upstream MCP server behind   *)
(* their breaker (RemoteCalls), the bridge to Blender's main thread        *)
(* (BlenderBridge) and the review of the remote endpoints                  *)
(* (EndpointReview), for any number of calls, actions, rules and tools.    *)
(***************************************************************************)
EXTENDS Execution, RemoteCalls, BlenderBridge, EndpointReview, FiniteSetTheorems, TLAPS

-----------------------------------------------------------------------------
(* The execution path.                                                     *)

\* The reasons that stand against a call are in force; one that a step has
\* already looked for is not among them, and a rule that says no has been read.
RunOK(r) ==
  /\ r.state \notin {"idle", "done"} /\ ~r.executed => r.standing \subseteq InForce(account, rules, r.action)
  /\ r.state \notin {"idle", "arrived", "done"} => "key" \notin r.standing
  /\ r.state = "ruled" /\ "rule" \in r.standing => r.rule = "DENY"
  /\ r.state \in {"claiming", "requesting", "executing"} => "rule" \notin r.standing
  /\ r.executed => r.standing = {} /\ r.state \in {"running", "recording", "done"}

\* What a call will record is settled before its row is written, once.
RowsOK(r) ==
  /\ r.state # "done" => r.rows = <<>> /\ ~r.unheard
  /\ r.state = "running" => r.executed
  /\ r.state \in {"claiming", "requesting", "executing"} \/ r.executed => r.decision # "DENY"
  /\ r.state = "recording" => r.answer \in {"success", "error"} /\ (r.answer = "success" => r.executed)
  /\ Len(r.rows) <= 1
  /\ r.state = "done" /\ ~r.unheard /\ r.executed => Len(r.rows) = 1
  /\ \A i \in DOMAIN r.rows :
       /\ r.rows[i].status = r.answer
       /\ r.rows[i].status = "success" => r.executed
       /\ r.rows[i].decision = "DENY" => ~r.executed

ExecInv == ExecTypeOK /\ \A c \in ExecCalls : RunOK(run[c]) /\ RowsOK(run[c])

-----------------------------------------------------------------------------
ExecTypes ==
  /\ account \in Account
  /\ rules \in Seq(RuleRow) /\ Len(rules) <= MaxRules
  /\ run \in [ExecCalls -> Run]
  /\ execFaults \in 0..MaxExecFaults

\* No two of the rows that are read are about the same.
NoDuplicates == \A h \in Homes : \A i, j \in RowsRead(rules, h) : rules[i].target = rules[j].target => i = j

LEMMA ExecTypeParts == ExecTypeOK <=> ExecTypes /\ NoDuplicates
BY DEF ExecTypeOK, ExecTypes, NoDuplicates

LEMMA ExecTyped ==
  ASSUME ExecInv
  PROVE  ExecTypes /\ NoDuplicates
BY ExecTypeParts DEF ExecInv

LEMMA ExecFaultCounts ==
  ASSUME ExecInv, ExecFault
  PROVE  execFaults' \in 0..MaxExecFaults
BY ExecTyped, ExecutionAssumption DEF ExecFault, ExecTypes

(* The policy.                                                             *)

LEMMA MostRestrictiveIsOne ==
  ASSUME NEW D, D \subseteq Decisions, D # {}
  PROVE  MostRestrictive(D) \in D
<1>1. \E d \in D : \A e \in D : Rank[e] <= Rank[d]
  <2>1. CASE "DENY" \in D
    BY <2>1 DEF Decisions, Rank
  <2>2. CASE "DENY" \notin D /\ "REQUIRE_APPROVAL" \in D
    BY <2>2 DEF Decisions, Rank
  <2>3. CASE "DENY" \notin D /\ "REQUIRE_APPROVAL" \notin D
    <3>1. \A d \in D : d = "ALLOW"
      BY <2>3 DEF Decisions
    <3>2. QED
      BY <3>1 DEF Rank
  <2>4. QED
    BY <2>1, <2>2, <2>3
<1>2. QED
  BY <1>1 DEF MostRestrictive

LEMMA Ranks == Rank["ALLOW"] = 0 /\ Rank["REQUIRE_APPROVAL"] = 1 /\ Rank["DENY"] = 2
BY DEF Rank

LEMMA NothingBeatsDeny ==
  ASSUME NEW D, D \subseteq Decisions, "DENY" \in D
  PROVE  MostRestrictive(D) = "DENY"
<1>1. \A e \in D : Rank[e] <= Rank["DENY"]
  <2>1. \A e \in Decisions : Rank[e] <= 2
    BY Ranks DEF Decisions
  <2>2. QED
    BY <2>1, Ranks
<1>2. \A e \in D : Rank[e] <= Rank[MostRestrictive(D)]
  BY <1>1 DEF MostRestrictive
<1>3. MostRestrictive(D) \in Decisions
  BY MostRestrictiveIsOne
<1>4. Rank["DENY"] <= Rank[MostRestrictive(D)]
  BY <1>2
<1>5. QED
  BY <1>3, <1>4, Ranks DEF Decisions

LEMMA EvaluateDecides ==
  ASSUME NEW a \in ExecActions, NEW rule \in Decisions \cup {"none"}, NEW capable \in BOOLEAN
  PROVE  /\ Evaluate(a, rule, capable) \in Decisions
         /\ rule = "DENY" => Evaluate(a, rule, capable) = "DENY"
<1> DEFINE D == {Baseline[a]} \cup ({rule} \ {"none"})
<1>1. D \subseteq Decisions /\ D # {}
  BY ExecutionAssumption
<1>2. rule = "DENY" => "DENY" \in D
  OBVIOUS
<1>3. Evaluate(a, rule, capable) = IF ~capable THEN "DENY" ELSE MostRestrictive(D)
  BY DEF Evaluate
<1> HIDE DEF D
<1>4. MostRestrictive(D) \in Decisions /\ (rule = "DENY" => MostRestrictive(D) = "DENY")
  BY <1>1, <1>2, MostRestrictiveIsOne, NothingBeatsDeny
<1>5. QED
  BY <1>3, <1>4 DEF Decisions

LEMMA TypedRules ==
  ASSUME NEW table \in Seq(RuleRow), NEW rows \in SUBSET DOMAIN table, NEW target
  PROVE  DecisionsFor(table, rows, target) \subseteq Decisions
<1>1. \A i \in DOMAIN table : table[i] \in RuleRow
  OBVIOUS
<1>2. QED
  BY <1>1 DEF DecisionsFor, RuleRow

LEMMA MatchedIsARule ==
  ASSUME NEW table \in Seq(RuleRow), NEW rows \in SUBSET DOMAIN table, NEW a
  PROVE  Matched(table, rows, a) \in Decisions \cup {"none"}
<1>1. DecisionsFor(table, rows, a) \subseteq Decisions /\ DecisionsFor(table, rows, Wildcard) \subseteq Decisions
  BY TypedRules
<1>2. QED
  BY <1>1, MostRestrictiveIsOne DEF Matched

LEMMA ReadRowsAreRows ==
  ASSUME NEW table \in Seq(RuleRow), NEW h
  PROVE  RowsRead(table, h) \subseteq RowsOf(table, h) /\ RowsOf(table, h) \subseteq DOMAIN table
BY DEF RowsRead, RowsOf

\* Where the user said no, the rows that are read say no.
LEMMA ForbiddenIsDenied ==
  ASSUME NEW table \in Seq(RuleRow), NEW a, Forbidden(table, a)
  PROVE  Matched(table, RowsRead(table, ActionHome[a]), a) = "DENY"
<1> DEFINE R == RowsRead(table, ActionHome[a])
           own == DecisionsFor(table, R, a)
           wild == DecisionsFor(table, R, Wildcard)
<1>1. R = RowsOf(table, ActionHome[a]) /\ R \subseteq DOMAIN table
  BY ReadRowsAreRows DEF Forbidden
<1>2. own \subseteq Decisions /\ wild \subseteq Decisions
  BY <1>1, TypedRules
<1>3. \A i \in R : table[i].decision \in Decisions
  <2>1. \A i \in DOMAIN table : table[i] \in RuleRow
    OBVIOUS
  <2>2. QED
    BY <1>1, <2>1 DEF RuleRow
<1>4. CASE \E i \in R : table[i].target = a /\ table[i].decision = "DENY"
  <2>1. "DENY" \in own
    BY <1>4 DEF DecisionsFor
  <2>2. QED
    BY <1>2, <2>1, NothingBeatsDeny DEF Matched
<1>5. CASE /\ \E i \in R : table[i].target = Wildcard /\ table[i].decision = "DENY"
           /\ ~\E i \in R : table[i].target = a /\ table[i].decision \in Decisions
  <2>1. "DENY" \in wild /\ own = {}
    BY <1>3, <1>5 DEF DecisionsFor
  <2>2. QED
    BY <1>2, <2>1, NothingBeatsDeny DEF Matched
<1>6. QED
  BY <1>1, <1>4, <1>5 DEF Forbidden

-----------------------------------------------------------------------------
(* The steps of a call.                                                    *)

\* A step of one call is told by what the call becomes.
LEMMA MovesKeeps ==
  ASSUME ExecInv, NEW c \in ExecCalls, NEW rec \in Run, Moves(c, rec), RunOK(rec), RowsOK(rec),
         execFaults' \in 0..MaxExecFaults
  PROVE  ExecInv'
<1>1. UNCHANGED <<account, rules>> /\ ExecTypes /\ NoDuplicates
  BY ExecTyped DEF Moves
<1>2. /\ run' \in [ExecCalls -> Run] /\ run'[c] = rec
      /\ \A k \in ExecCalls : k # c => run'[k] = run[k]
  BY <1>1 DEF Moves, ExecTypes
<1>3. ExecTypes' /\ NoDuplicates'
  BY <1>1, <1>2 DEF ExecTypes, NoDuplicates, RowsRead, RowsOf
<1>4. ExecTypeOK'
  BY <1>3, ExecTypeParts, PTL
<1>5. \A k \in ExecCalls : RunOK(run[k])'
  BY <1>1, <1>2 DEF ExecInv, RunOK, InForce, Forbidden, RowsRead, RowsOf
<1>6. \A k \in ExecCalls : RowsOK(run[k])'
  BY <1>2 DEF ExecInv, RowsOK
<1>7. QED
  BY <1>4, <1>5, <1>6 DEF ExecInv

LEMMA CallOf ==
  ASSUME ExecInv, NEW c \in ExecCalls
  PROVE  run[c] \in Run /\ RunOK(run[c]) /\ RowsOK(run[c]) /\ execFaults \in 0..MaxExecFaults
BY ExecTyped DEF ExecInv, ExecTypes

LEMMA EndedKeeps ==
  ASSUME ExecInv, NEW c \in ExecCalls, NEW answer \in {"error", "unauthorized"}, run[c].state \in {"idle", "arrived"},
         Moves(c, Ended(c, answer)), execFaults' \in 0..MaxExecFaults
  PROVE  ExecInv'
<1> DEFINE rec == Ended(c, answer)
<1>1. run[c] \in Run /\ RunOK(run[c]) /\ RowsOK(run[c])
  BY CallOf
<1>2. /\ rec \in Run /\ rec.state = "done" /\ rec.answer = answer /\ rec.executed = run[c].executed
      /\ rec.rows = run[c].rows
  BY <1>1 DEF Ended, Run, RunStates
<1>3. ~run[c].executed /\ run[c].rows = <<>>
  BY <1>1 DEF RunOK, RowsOK
<1> HIDE DEF rec
<1>4. RunOK(rec) /\ RowsOK(rec)
  BY <1>2, <1>3 DEF RunOK, RowsOK
<1>5. QED
  BY <1>2, <1>4, MovesKeeps DEF rec

LEMMA FailingKeeps ==
  ASSUME ExecInv, NEW c \in ExecCalls, run[c].state \in {"deciding", "ruled", "claiming", "requesting", "executing"},
         Moves(c, Failing(c)), execFaults' \in 0..MaxExecFaults
  PROVE  ExecInv'
<1> DEFINE rec == Failing(c)
<1>1. run[c] \in Run /\ RunOK(run[c]) /\ RowsOK(run[c])
  BY CallOf
<1>2. /\ rec \in Run /\ rec.state = "recording" /\ rec.answer = "error" /\ rec.executed = run[c].executed
      /\ rec.rows = run[c].rows /\ rec.unheard = run[c].unheard /\ rec.standing = run[c].standing
      /\ rec.action = run[c].action /\ rec.decision = run[c].decision
  BY <1>1 DEF Failing, Run, RunStates
<1>3. /\ ~run[c].executed /\ run[c].rows = <<>> /\ ~run[c].unheard /\ "key" \notin run[c].standing
      /\ run[c].standing \subseteq InForce(account, rules, run[c].action)
  BY <1>1 DEF RunOK, RowsOK
<1> HIDE DEF rec
<1>4. RunOK(rec) /\ RowsOK(rec)
  BY <1>2, <1>3 DEF RunOK, RowsOK
<1>5. QED
  BY <1>2, <1>4, MovesKeeps DEF rec

LEMMA ArriveKeeps ==
  ASSUME ExecInv, NEW c \in ExecCalls, Arrive(c)
  PROVE  ExecInv'
<1>1. run[c].state = "idle" /\ execFaults' \in 0..MaxExecFaults
  BY CallOf DEF Arrive
<1>2. run[c] \in Run /\ RunOK(run[c]) /\ RowsOK(run[c])
  BY CallOf
<1>3. ASSUME NEW a \in ExecActions, NEW entry \in {"rest", "mcp"},
             Moves(c, [run[c] EXCEPT !.state = "arrived", !.entry = entry, !.action = a,
                                     !.standing = InForce(account, rules, a)])
      PROVE  ExecInv'
  <2> DEFINE rec == [run[c] EXCEPT !.state = "arrived", !.entry = entry, !.action = a,
                                   !.standing = InForce(account, rules, a)]
  <2>1. InForce(account, rules, a) \in SUBSET Refusals
    BY DEF InForce
  <2>2. /\ rec \in Run /\ rec.state = "arrived" /\ rec.action = a /\ rec.standing = InForce(account, rules, a)
        /\ rec.executed = run[c].executed /\ rec.rows = run[c].rows /\ rec.unheard = run[c].unheard
    BY <1>2, <2>1 DEF Run, RunStates
  <2>3. ~run[c].executed /\ run[c].rows = <<>> /\ ~run[c].unheard
    BY <1>1, <1>2 DEF RunOK, RowsOK
  <2> HIDE DEF rec
  <2>4. RunOK(rec) /\ RowsOK(rec)
    BY <2>2, <2>3 DEF RunOK, RowsOK
  <2>5. QED
    BY <1>1, <1>3, <2>2, <2>4, MovesKeeps DEF rec
<1>4. CASE Moves(c, Ended(c, "error"))
  BY <1>1, <1>4, EndedKeeps
<1>5. QED
  BY <1>3, <1>4 DEF Arrive

LEMMA AuthenticateKeeps ==
  ASSUME ExecInv, NEW c \in ExecCalls, Authenticate(c)
  PROVE  ExecInv'
<1>1. run[c].state = "arrived" /\ execFaults' \in 0..MaxExecFaults
  BY CallOf, ExecFaultCounts DEF Authenticate
<1>2. run[c] \in Run /\ RunOK(run[c]) /\ RowsOK(run[c])
  BY CallOf
<1> DEFINE rec == [run[c] EXCEPT !.state = IF run[c].entry = "mcp" THEN "listing" ELSE "deciding"]
<1>3. CASE account.key = "active" /\ Moves(c, rec)
  <2>1. /\ rec \in Run /\ rec.state \in {"listing", "deciding"} /\ rec.action = run[c].action
        /\ rec.standing = run[c].standing
        /\ rec.executed = run[c].executed /\ rec.rows = run[c].rows /\ rec.unheard = run[c].unheard
    BY <1>2 DEF Run, RunStates
  <2>2. /\ ~run[c].executed /\ run[c].rows = <<>> /\ ~run[c].unheard
        /\ run[c].standing \subseteq InForce(account, rules, run[c].action)
    BY <1>1, <1>2 DEF RunOK, RowsOK
  <2>3. "key" \notin run[c].standing
    BY <1>3, <2>2 DEF InForce
  <2>4. Moves(c, rec)
    BY <1>3
  <2> HIDE DEF rec
  <2>5. RunOK(rec) /\ RowsOK(rec)
    BY <2>1, <2>2, <2>3 DEF RunOK, RowsOK
  <2>6. QED
    BY <1>1, <2>1, <2>4, <2>5, MovesKeeps
<1>4. CASE Moves(c, Ended(c, "unauthorized"))
  BY <1>1, <1>4, EndedKeeps
<1>5. QED
  BY <1>3, <1>4 DEF Authenticate

\* A call that ends before the pipeline, with or without a row.
LEMMA MissKeeps ==
  ASSUME ExecInv, NEW c \in ExecCalls, run[c].state \in {"listing", "missing"}, execFaults' \in 0..MaxExecFaults,
         \/ Moves(c, [Ended(c, "error") EXCEPT !.unheard = TRUE])
         \/ Moves(c, [Ended(c, "error") EXCEPT !.rows = Append(@, [decision |-> "DENY", status |-> "error"])])
  PROVE  ExecInv'
<1> DEFINE end == Ended(c, "error")
           row == [decision |-> "DENY", status |-> "error"]
           silent == [end EXCEPT !.unheard = TRUE]
           told == [end EXCEPT !.rows = Append(@, row)]
<1>1. run[c] \in Run /\ RunOK(run[c]) /\ RowsOK(run[c])
  BY CallOf
<1>2. ~run[c].executed /\ run[c].rows = <<>>
  BY <1>1 DEF RunOK, RowsOK
<1>3. end \in Run /\ end.state = "done" /\ end.answer = "error" /\ ~end.executed /\ end.rows = <<>>
  BY <1>1, <1>2 DEF Ended, Run, RunStates
<1>4. Moves(c, silent) \/ Moves(c, told)
  OBVIOUS
<1> HIDE DEF end
<1>5. row \in [decision : Decisions, status : {"success", "error"}]
  BY DEF Decisions
<1>6. CASE Moves(c, silent)
  <2>1. silent \in Run /\ silent.state = "done" /\ ~silent.executed /\ silent.rows = <<>>
    BY <1>3 DEF Run
  <2> HIDE DEF silent
  <2>2. RunOK(silent) /\ RowsOK(silent)
    BY <2>1 DEF RunOK, RowsOK
  <2>3. QED
    BY <1>6, <2>1, <2>2, MovesKeeps
<1>7. CASE Moves(c, told)
  <2> HIDE DEF row
  <2>1. Append(end.rows, row) = <<row>> /\ <<row>> \in Seq([decision : Decisions, status : {"success", "error"}])
    BY <1>3, <1>5
  <2>2. told \in Run /\ told.state = "done" /\ told.answer = "error" /\ ~told.executed /\ told.rows = <<row>>
    BY <1>3, <2>1 DEF Run
  <2>3. Len(<<row>>) = 1 /\ \A i \in DOMAIN <<row>> : <<row>>[i].status = "error"
    BY DEF row
  <2> HIDE DEF told
  <2>4. RunOK(told) /\ RowsOK(told)
    BY <2>2, <2>3 DEF RunOK, RowsOK
  <2>5. QED
    BY <1>7, <2>2, <2>4, MovesKeeps
<1>8. QED
  BY <1>4, <1>6, <1>7

LEMMA ListCatalogKeeps ==
  ASSUME ExecInv, NEW c \in ExecCalls, ListCatalog(c)
  PROVE  ExecInv'
<1>1. run[c].state = "listing" /\ execFaults' \in 0..MaxExecFaults
  BY CallOf, ExecFaultCounts DEF ListCatalog
<1>2. run[c] \in Run /\ RunOK(run[c]) /\ RowsOK(run[c])
  BY CallOf
<1> DEFINE rec == [run[c] EXCEPT !.state = IF InCatalog(run[c].action) THEN "deciding" ELSE "missing"]
<1>3. CASE Moves(c, rec)
  <2>1. /\ rec \in Run /\ rec.state \in {"missing", "deciding"} /\ rec.action = run[c].action
        /\ rec.standing = run[c].standing
        /\ rec.executed = run[c].executed /\ rec.rows = run[c].rows /\ rec.unheard = run[c].unheard
    BY <1>2 DEF Run, RunStates
  <2>2. /\ ~run[c].executed /\ run[c].rows = <<>> /\ ~run[c].unheard /\ "key" \notin run[c].standing
        /\ run[c].standing \subseteq InForce(account, rules, run[c].action)
    BY <1>1, <1>2 DEF RunOK, RowsOK
  <2> HIDE DEF rec
  <2>3. RunOK(rec) /\ RowsOK(rec)
    BY <2>1, <2>2 DEF RunOK, RowsOK
  <2>4. QED
    BY <1>1, <1>3, <2>1, <2>3, MovesKeeps
<1>4. CASE Moves(c, [Ended(c, "error") EXCEPT !.unheard = TRUE])
  BY <1>1, <1>4, MissKeeps
<1>5. QED
  BY <1>3, <1>4 DEF ListCatalog

LEMMA RecordMissKeeps ==
  ASSUME ExecInv, NEW c \in ExecCalls, RecordMiss(c)
  PROVE  ExecInv'
<1>1. run[c].state = "missing" /\ execFaults' \in 0..MaxExecFaults
  BY CallOf, ExecFaultCounts DEF RecordMiss
<1>2. QED
  BY <1>1, MissKeeps DEF RecordMiss

\* What the pipeline does with the decision: where a rule stands against the call,
\* it has been read and denies it.
LEMMA DecidedKeeps ==
  ASSUME ExecInv, NEW c \in ExecCalls, NEW rule \in Decisions \cup {"none"}, NEW capable \in BOOLEAN,
         run[c].state \in {"deciding", "ruled"}, "rule" \in run[c].standing => rule = "DENY",
         Moves(c, Decided(c, rule, capable)), UNCHANGED execFaults
  PROVE  ExecInv'
<1> DEFINE d == Evaluate(run[c].action, rule, capable)
           rec == [run[c] EXCEPT !.decision = d, !.rule = rule,
                     !.answer = IF d = "DENY" THEN "error" ELSE @,
                     !.state = CASE d = "DENY" -> "recording"
                                 [] d = "REQUIRE_APPROVAL" -> "claiming"
                                 [] d = "ALLOW" -> "executing"]
<1>1. run[c] \in Run /\ RunOK(run[c]) /\ RowsOK(run[c]) /\ execFaults \in 0..MaxExecFaults
  BY CallOf
<1>2. run[c].action \in ExecActions
  BY <1>1 DEF Run
<1>3. d \in Decisions /\ (rule = "DENY" => d = "DENY")
  BY <1>2, EvaluateDecides
<1>4. Moves(c, rec)
  BY DEF Decided
<1> HIDE DEF d
<1>5. /\ rec \in Run /\ rec.decision = d /\ rec.action = run[c].action /\ rec.standing = run[c].standing
      /\ rec.executed = run[c].executed /\ rec.rows = run[c].rows /\ rec.unheard = run[c].unheard
      /\ d = "DENY" => rec.state = "recording" /\ rec.answer = "error"
      /\ d # "DENY" => rec.state \in {"claiming", "executing"}
  <2>1. CASE d = "DENY"
    BY <1>1, <1>3, <2>1 DEF Run, RunStates, Decisions
  <2>2. CASE d = "REQUIRE_APPROVAL"
    BY <1>1, <1>3, <2>2 DEF Run, RunStates, Decisions
  <2>3. CASE d = "ALLOW"
    BY <1>1, <1>3, <2>3 DEF Run, RunStates, Decisions
  <2>4. QED
    BY <1>3, <2>1, <2>2, <2>3 DEF Decisions
<1> HIDE DEF rec
<1>6. /\ ~run[c].executed /\ run[c].rows = <<>> /\ ~run[c].unheard /\ "key" \notin run[c].standing
      /\ run[c].standing \subseteq InForce(account, rules, run[c].action)
  BY <1>1 DEF RunOK, RowsOK
<1>7. d # "DENY" => "rule" \notin run[c].standing
  BY <1>3
<1>8. RunOK(rec)
  BY <1>5, <1>6, <1>7 DEF RunOK
<1>9. RowsOK(rec)
  BY <1>5, <1>6 DEF RowsOK
<1>10. QED
  BY <1>1, <1>4, <1>5, <1>8, <1>9, MovesKeeps

LEMMA ReadRulesKeeps ==
  ASSUME ExecInv, NEW c \in ExecCalls, ReadRules(c)
  PROVE  ExecInv'
<1> DEFINE a == run[c].action
           rule == Matched(rules, RowsRead(rules, ActionHome[a]), a)
<1>1. /\ run[c].state = "deciding" /\ UNCHANGED execFaults
      /\ Moves(c, IF Local(a) THEN [run[c] EXCEPT !.state = "ruled", !.rule = rule] ELSE Decided(c, rule, TRUE))
  BY DEF ReadRules
<1>2. run[c] \in Run /\ RunOK(run[c]) /\ RowsOK(run[c]) /\ execFaults \in 0..MaxExecFaults
  BY CallOf
<1>3. /\ ~run[c].executed /\ run[c].rows = <<>> /\ ~run[c].unheard /\ "key" \notin run[c].standing
      /\ run[c].standing \subseteq InForce(account, rules, a)
  BY <1>1, <1>2 DEF RunOK, RowsOK
<1>4. rules \in Seq(RuleRow)
  BY ExecTyped DEF ExecTypes
<1>5. rule \in Decisions \cup {"none"}
  BY <1>4, ReadRowsAreRows, MatchedIsARule
<1>6. "rule" \in run[c].standing => rule = "DENY"
  <2>1. "rule" \in run[c].standing => Forbidden(rules, a)
    BY <1>3 DEF InForce
  <2>2. QED
    BY <1>4, <2>1, ForbiddenIsDenied
<1> HIDE DEF rule
<1>7. CASE Local(a)
  <2> DEFINE rec == [run[c] EXCEPT !.state = "ruled", !.rule = rule]
  <2>1. /\ rec \in Run /\ rec.state = "ruled" /\ rec.rule = rule /\ rec.action = a
        /\ rec.standing = run[c].standing
        /\ rec.executed = run[c].executed /\ rec.rows = run[c].rows /\ rec.unheard = run[c].unheard
    BY <1>2, <1>5 DEF Run, RunStates
  <2>2. Moves(c, rec)
    BY <1>1, <1>7
  <2> HIDE DEF rec
  <2>3. RunOK(rec) /\ RowsOK(rec)
    BY <1>3, <1>6, <2>1 DEF RunOK, RowsOK
  <2>4. QED
    BY <1>1, <1>2, <2>1, <2>2, <2>3, MovesKeeps
<1>8. CASE ~Local(a)
  BY <1>1, <1>5, <1>6, <1>8, DecidedKeeps
<1>9. QED
  BY <1>7, <1>8

LEMMA ReadDevicesKeeps ==
  ASSUME ExecInv, NEW c \in ExecCalls, ReadDevices(c)
  PROVE  ExecInv'
<1>1. run[c] \in Run /\ RunOK(run[c])
  BY CallOf
<1>2. run[c].rule \in Decisions \cup {"none"}
  BY <1>1 DEF Run
<1>3. "rule" \in run[c].standing => run[c].rule = "DENY"
  BY <1>1 DEF RunOK, ReadDevices
<1>4. QED
  BY <1>2, <1>3, DecidedKeeps DEF ReadDevices

LEMMA ClaimApprovalKeeps ==
  ASSUME ExecInv, NEW c \in ExecCalls, ClaimApproval(c)
  PROVE  ExecInv'
<1>1. PICK state \in {"executing", "requesting"} : Moves(c, [run[c] EXCEPT !.state = state])
  BY DEF ClaimApproval
<1>2. run[c].state = "claiming" /\ UNCHANGED execFaults
  BY DEF ClaimApproval
<1>3. run[c] \in Run /\ RunOK(run[c]) /\ RowsOK(run[c]) /\ execFaults \in 0..MaxExecFaults
  BY CallOf
<1> DEFINE rec == [run[c] EXCEPT !.state = state]
<1>4. /\ rec \in Run /\ rec.state = state /\ rec.action = run[c].action /\ rec.standing = run[c].standing
      /\ rec.executed = run[c].executed /\ rec.rows = run[c].rows /\ rec.unheard = run[c].unheard
      /\ rec.decision = run[c].decision
  BY <1>3 DEF Run, RunStates
<1>5. Moves(c, rec)
  BY <1>1
<1> HIDE DEF rec
<1>6. RunOK(rec) /\ RowsOK(rec)
  BY <1>2, <1>3, <1>4 DEF RunOK, RowsOK
<1>7. QED
  BY <1>2, <1>3, <1>4, <1>5, <1>6, MovesKeeps

\* What no step before has looked for, the executor does: a device, a connection.
LEMMA ExecuteKeeps ==
  ASSUME ExecInv, NEW c \in ExecCalls, Execute(c)
  PROVE  ExecInv'
<1>1. /\ run[c].state = "executing" /\ UNCHANGED execFaults
      /\ Moves(c, IF InCatalog(run[c].action) THEN [run[c] EXCEPT !.state = "running", !.executed = TRUE]
                                             ELSE Failing(c))
  BY DEF Execute
<1>2. run[c] \in Run /\ RunOK(run[c]) /\ RowsOK(run[c]) /\ execFaults \in 0..MaxExecFaults
  BY CallOf
<1>3. CASE InCatalog(run[c].action)
  <2> DEFINE rec == [run[c] EXCEPT !.state = "running", !.executed = TRUE]
  <2>1. /\ rec \in Run /\ rec.state = "running" /\ rec.executed /\ rec.standing = run[c].standing
        /\ rec.rows = run[c].rows /\ rec.unheard = run[c].unheard /\ rec.decision = run[c].decision
    BY <1>2 DEF Run, RunStates
  <2>2. Moves(c, rec)
    BY <1>1, <1>3
  <2> HIDE DEF rec
  <2>3. /\ run[c].rows = <<>> /\ ~run[c].unheard /\ run[c].decision # "DENY"
        /\ "key" \notin run[c].standing /\ "rule" \notin run[c].standing
        /\ run[c].standing \subseteq InForce(account, rules, run[c].action)
    BY <1>1, <1>2 DEF RunOK, RowsOK
  <2>4. "device" \notin run[c].standing /\ "connection" \notin run[c].standing
    BY <1>3, <2>3 DEF InForce, InCatalog
  <2>5. run[c].standing = {}
    BY <1>2, <2>3, <2>4 DEF Run, Refusals
  <2>6. RunOK(rec) /\ RowsOK(rec)
    BY <2>1, <2>3, <2>5 DEF RunOK, RowsOK
  <2>7. QED
    BY <1>1, <1>2, <2>1, <2>2, <2>6, MovesKeeps
<1>4. CASE ~InCatalog(run[c].action)
  BY <1>1, <1>2, <1>4, FailingKeeps
<1>5. QED
  BY <1>3, <1>4

LEMMA ExecutedKeeps ==
  ASSUME ExecInv, NEW c \in ExecCalls, Executed(c)
  PROVE  ExecInv'
<1>1. PICK answer \in {"success", "error"} : Moves(c, [run[c] EXCEPT !.state = "recording", !.answer = answer])
  BY DEF Executed
<1>2. run[c].state = "running" /\ UNCHANGED execFaults
  BY DEF Executed
<1>3. run[c] \in Run /\ RunOK(run[c]) /\ RowsOK(run[c]) /\ execFaults \in 0..MaxExecFaults
  BY CallOf
<1> DEFINE rec == [run[c] EXCEPT !.state = "recording", !.answer = answer]
<1>4. /\ rec \in Run /\ rec.state = "recording" /\ rec.answer = answer /\ rec.standing = run[c].standing
      /\ rec.executed = run[c].executed /\ rec.rows = run[c].rows /\ rec.unheard = run[c].unheard
      /\ rec.decision = run[c].decision
  BY <1>3 DEF Run, RunStates
<1>5. Moves(c, rec)
  BY <1>1
<1> HIDE DEF rec
<1>6. RunOK(rec) /\ RowsOK(rec)
  BY <1>2, <1>3, <1>4 DEF RunOK, RowsOK
<1>7. QED
  BY <1>2, <1>3, <1>4, <1>5, <1>6, MovesKeeps

LEMMA RecordRowKeeps ==
  ASSUME ExecInv, NEW c \in ExecCalls, RecordRow(c)
  PROVE  ExecInv'
<1> DEFINE row == Row(c)
           told == [run[c] EXCEPT !.state = "done", !.rows = Append(@, row)]
           silent == [run[c] EXCEPT !.state = "done", !.unheard = TRUE]
<1>1. run[c].state = "recording" /\ execFaults' \in 0..MaxExecFaults /\ (Moves(c, told) \/ Moves(c, silent))
  BY CallOf, ExecFaultCounts DEF RecordRow
<1>2. run[c] \in Run /\ RunOK(run[c]) /\ RowsOK(run[c])
  BY CallOf
<1>3. /\ run[c].rows = <<>> /\ run[c].answer \in {"success", "error"}
      /\ run[c].answer = "success" => run[c].executed
      /\ run[c].executed => run[c].decision # "DENY"
      /\ run[c].executed => run[c].standing = {}
  BY <1>1, <1>2 DEF RunOK, RowsOK
<1>4. /\ row \in [decision : Decisions, status : {"success", "error"}]
      /\ row.decision = run[c].decision /\ row.status = run[c].answer
  BY <1>2, <1>3 DEF Row, Run
<1> HIDE DEF row
<1>5. CASE Moves(c, told)
  <2>1. Append(run[c].rows, row) = <<row>> /\ <<row>> \in Seq([decision : Decisions, status : {"success", "error"}])
    BY <1>3, <1>4
  <2>2. /\ told \in Run /\ told.state = "done" /\ told.answer = run[c].answer /\ told.rows = <<row>>
        /\ told.executed = run[c].executed /\ told.standing = run[c].standing /\ told.decision = run[c].decision
    BY <1>2, <2>1 DEF Run, RunStates
  <2>3. Len(<<row>>) = 1 /\ \A i \in DOMAIN <<row>> : <<row>>[i] = row
    OBVIOUS
  <2> HIDE DEF told
  <2>4. RunOK(told)
    BY <1>3, <2>2 DEF RunOK
  <2>5. RowsOK(told)
    BY <1>3, <1>4, <2>2, <2>3 DEF RowsOK
  <2>6. QED
    BY <1>1, <1>5, <2>2, <2>4, <2>5, MovesKeeps
<1>6. CASE Moves(c, silent)
  <2>1. /\ silent \in Run /\ silent.state = "done" /\ silent.unheard /\ silent.rows = run[c].rows
        /\ silent.executed = run[c].executed /\ silent.standing = run[c].standing /\ silent.decision = run[c].decision
    BY <1>2 DEF Run, RunStates
  <2> HIDE DEF silent
  <2>2. RunOK(silent) /\ RowsOK(silent)
    BY <1>3, <2>1 DEF RunOK, RowsOK
  <2>3. QED
    BY <1>1, <1>6, <2>1, <2>2, MovesKeeps
<1>7. QED
  BY <1>1, <1>5, <1>6

\* The gateway dies with every call it runs.
LEMMA GatewayDiesKeeps ==
  ASSUME ExecInv, GatewayDies
  PROVE  ExecInv'
<1> DEFINE dying == {c \in ExecCalls : run[c].state \notin {"idle", "done"}}
           dead(c) == [run[c] EXCEPT !.state = "done", !.answer = "none", !.unheard = TRUE]
<1>1. /\ run' = [c \in ExecCalls |-> IF c \in dying THEN dead(c) ELSE run[c]]
      /\ UNCHANGED <<account, rules>> /\ execFaults' \in 0..MaxExecFaults
  BY ExecFaultCounts DEF GatewayDies
<1>2. ExecTypes /\ NoDuplicates
  BY ExecTyped
<1>3. ASSUME NEW c \in dying
      PROVE  dead(c) \in Run /\ RunOK(dead(c)) /\ RowsOK(dead(c))
  <2> DEFINE rec == dead(c)
  <2>1. run[c] \in Run /\ RunOK(run[c]) /\ RowsOK(run[c]) /\ run[c].state \notin {"idle", "done"}
    BY CallOf
  <2>2. /\ rec \in Run /\ rec.state = "done" /\ rec.unheard /\ rec.rows = run[c].rows
        /\ rec.executed = run[c].executed /\ rec.standing = run[c].standing /\ rec.decision = run[c].decision
    BY <2>1 DEF Run, RunStates
  <2> HIDE DEF rec
  <2>3. RunOK(rec) /\ RowsOK(rec)
    BY <2>1, <2>2 DEF RunOK, RowsOK
  <2>4. QED
    BY <2>2, <2>3 DEF rec
<1> HIDE DEF dead
<1>4. /\ run' \in [ExecCalls -> Run]
      /\ \A c \in ExecCalls : run'[c] = IF c \in dying THEN dead(c) ELSE run[c]
  BY <1>1, <1>2, <1>3 DEF ExecTypes
<1>5. ExecTypes' /\ NoDuplicates'
  BY <1>1, <1>2, <1>4 DEF ExecTypes, NoDuplicates, RowsRead, RowsOf
<1>6. ExecTypeOK'
  BY <1>5, ExecTypeParts, PTL
<1>7. \A c \in ExecCalls : RunOK(run'[c]) /\ RowsOK(run'[c])
  BY <1>3, <1>4 DEF ExecInv
<1>8. \A c \in ExecCalls : RunOK(run[c])'
  BY <1>1, <1>7 DEF RunOK, InForce, Forbidden, RowsRead, RowsOf
<1>9. \A c \in ExecCalls : RowsOK(run[c])'
  BY <1>7 DEF RowsOK
<1>10. QED
  BY <1>6, <1>8, <1>9 DEF ExecInv

-----------------------------------------------------------------------------
(* What the user changes meanwhile.                                        *)

LEMMA ChangesKeeps ==
  ASSUME ExecInv, NEW acc \in Account, NEW table \in Seq(RuleRow), Len(table) <= MaxRules,
         \A h \in Homes : \A i, j \in RowsRead(table, h) : table[i].target = table[j].target => i = j,
         Changes(acc, table)
  PROVE  ExecInv'
<1> DEFINE since(c) == [run[c] EXCEPT !.standing = @ \cap InForce(acc, table, run[c].action)]
           spared(c) == run[c].executed \/ run[c].state \in {"idle", "done"}
<1>1. /\ account' = acc /\ rules' = table /\ UNCHANGED execFaults
      /\ run' = [c \in ExecCalls |-> IF spared(c) THEN run[c] ELSE since(c)]
  BY DEF Changes
<1>2. ExecTypes
  BY ExecTyped
<1>3. ASSUME NEW c \in ExecCalls
      PROVE  /\ since(c) \in Run
             /\ since(c).standing = run[c].standing \cap InForce(acc, table, run[c].action)
             /\ since(c).state = run[c].state /\ since(c).executed = run[c].executed /\ since(c).action = run[c].action
             /\ since(c).rule = run[c].rule /\ since(c).rows = run[c].rows /\ since(c).unheard = run[c].unheard
             /\ since(c).decision = run[c].decision /\ since(c).answer = run[c].answer
  BY CallOf DEF Run
<1> HIDE DEF since
<1>4. /\ run' \in [ExecCalls -> Run]
      /\ \A c \in ExecCalls : run'[c] = IF spared(c) THEN run[c] ELSE since(c)
  BY <1>1, <1>2, <1>3 DEF ExecTypes
<1>5. ExecTypes' /\ NoDuplicates'
  BY <1>1, <1>2, <1>4 DEF ExecTypes, NoDuplicates, RowsRead, RowsOf
<1>6. ExecTypeOK'
  BY <1>5, ExecTypeParts, PTL
<1>7. ASSUME NEW c \in ExecCalls
      PROVE  RunOK(run[c])'
  <2>1. RunOK(run[c])
    BY CallOf
  <2>2. CASE spared(c)
    BY <1>4, <2>1, <2>2 DEF RunOK
  <2>3. CASE ~spared(c)
    <3>1. run'[c] = since(c)
      BY <1>4, <2>3
    <3>2. run'[c].standing \subseteq run[c].standing /\ run'[c].standing \subseteq InForce(acc, table, run[c].action)
      BY <1>3, <3>1
    <3>3. InForce(acc, table, run[c].action) = InForce(account', rules', run'[c].action)
      BY <1>1, <1>3, <3>1
    <3>4. run'[c].standing \subseteq InForce(account, rules, run[c].action)'
      BY <3>2, <3>3
    <3>5. QED
      BY <1>3, <2>1, <2>3, <3>1, <3>2, <3>4 DEF RunOK
  <2>4. QED
    BY <2>2, <2>3
<1>8. ASSUME NEW c \in ExecCalls
      PROVE  RowsOK(run[c])'
  <2>1. RowsOK(run[c])
    BY CallOf
  <2>2. QED
    BY <1>3, <1>4, <2>1 DEF RowsOK
<1>9. QED
  BY <1>6, <1>7, <1>8 DEF ExecInv

LEMMA UserChangesKeep ==
  ASSUME ExecInv, RevokeExecKey \/ MachineChanges \/ ConnectionChanges
  PROVE  ExecInv'
<1>1. /\ account \in Account /\ rules \in Seq(RuleRow) /\ Len(rules) <= MaxRules
      /\ \A h \in Homes : \A i, j \in RowsRead(rules, h) : rules[i].target = rules[j].target => i = j
  BY ExecTyped DEF ExecTypes, NoDuplicates
<1>2. PICK acc \in Account : Changes(acc, rules)
  <2>1. [account EXCEPT !.key = "revoked"] \in Account /\ [account EXCEPT !.linked = ~@] \in Account
        /\ \A d \in {"offline", "online", "capable"} : [account EXCEPT !.device = d] \in Account
    BY <1>1 DEF Account
  <2>2. QED
    BY <2>1 DEF RevokeExecKey, MachineChanges, ConnectionChanges
<1>3. QED
  BY <1>1, <1>2, ChangesKeeps

\* A rule for what no row that is read is about goes to the end of the table, and
\* one for what a row is about takes its place.
LEMMA AppendedRule ==
  ASSUME NEW table \in Seq(RuleRow), NEW row \in RuleRow,
         \A h \in Homes : \A i, j \in RowsRead(table, h) : table[i].target = table[j].target => i = j,
         \A i \in RowsRead(table, row.home) : table[i].target # row.target
  PROVE  \A h \in Homes : \A i, j \in RowsRead(Append(table, row), h) :
           Append(table, row)[i].target = Append(table, row)[j].target => i = j
<1> DEFINE n == Len(table)
           more == Append(table, row)
<1>1. /\ n \in Nat /\ DOMAIN table = 1..n /\ more \in Seq(RuleRow) /\ DOMAIN more = 1..(n + 1) /\ more[n + 1] = row
      /\ \A i \in 1..n : more[i] = table[i]
  OBVIOUS
<1> HIDE DEF more, n
<1>2. MaxRuleRows \in Nat
  BY ExecutionAssumption
<1>3. ASSUME NEW h \in Homes
      PROVE  \A i, j \in RowsRead(more, h) : more[i].target = more[j].target => i = j
  <2>1. \A i \in 1..n : i \in RowsOf(more, h) <=> i \in RowsOf(table, h)
    BY <1>1 DEF RowsOf
  <2>2. RowsOf(table, h) \subseteq 1..n /\ RowsOf(more, h) \subseteq 1..(n + 1)
    BY <1>1 DEF RowsOf
  <2>3. ASSUME NEW i \in 1..n
        PROVE  i \in RowsRead(more, h) <=> i \in RowsRead(table, h)
    <3>1. {j \in RowsOf(more, h) : j < i} = {j \in RowsOf(table, h) : j < i}
      BY <1>1, <2>1, <2>2
    <3>2. QED
      BY <2>1, <3>1 DEF RowsRead
  <2>4. ASSUME NEW i \in RowsRead(more, h), NEW j \in RowsRead(more, h), i = n + 1, j # i
        PROVE  more[i].target # more[j].target
    <3>a. j \in 1..(n + 1)
      BY <2>2, <2>4 DEF RowsRead
    <3>1. j \in 1..n /\ j \in RowsRead(table, h)
      BY <1>1, <2>3, <2>4, <3>a
    <3>2. row.home = h
      BY <1>1, <2>4 DEF RowsRead, RowsOf
    <3>3. QED
      BY <1>1, <2>4, <3>1, <3>2
  <2>5. QED
    <3>1. ASSUME NEW i \in RowsRead(more, h), NEW j \in RowsRead(more, h), more[i].target = more[j].target
          PROVE  i = j
      <4>1. i \in 1..(n + 1) /\ j \in 1..(n + 1)
        BY <2>2 DEF RowsRead
      <4>2. CASE i \in 1..n /\ j \in 1..n
        BY <1>1, <2>3, <3>1, <4>2
      <4>3. CASE i = n + 1 \/ j = n + 1
        BY <2>4, <3>1, <4>3
      <4>4. QED
        BY <1>1, <4>1, <4>2, <4>3
    <3>2. QED
      BY <3>1
<1>4. QED
  BY <1>3 DEF more

LEMMA ReplacedRule ==
  ASSUME NEW table \in Seq(RuleRow), NEW row \in RuleRow,
         \A h \in Homes : \A i, j \in RowsRead(table, h) : table[i].target = table[j].target => i = j,
         NEW k \in DOMAIN table, table[k].home = row.home, table[k].target = row.target
  PROVE  \A h \in Homes : \A i, j \in RowsRead([table EXCEPT ![k] = row], h) :
           [table EXCEPT ![k] = row][i].target = [table EXCEPT ![k] = row][j].target => i = j
<1> DEFINE new == [table EXCEPT ![k] = row]
<1>1. DOMAIN new = DOMAIN table /\ \A i \in DOMAIN table : new[i].home = table[i].home /\ new[i].target = table[i].target
  OBVIOUS
<1> HIDE DEF new
<1>2. \A h : RowsOf(new, h) = RowsOf(table, h)
  BY <1>1 DEF RowsOf
<1>3. ASSUME NEW h \in Homes
      PROVE  RowsRead(new, h) = RowsRead(table, h)
  <2>1. RowsOf(new, h) = RowsOf(table, h)
    BY <1>2
  <2>2. QED
    BY <2>1, Zenon DEF RowsRead
<1>4. \A h : RowsRead(table, h) \subseteq DOMAIN table
  BY DEF RowsRead, RowsOf
<1>5. QED
  BY <1>1, <1>3, <1>4 DEF new

LEMMA SetRuleKeeps ==
  ASSUME ExecInv, SetRule
  PROVE  ExecInv'
<1>a. PICK h \in Homes, d \in RuleDecisions :
        \E target \in {a \in ExecActions : ActionHome[a] = h} \cup {Wildcard} :
          Len(WithRule(h, target, d)) <= MaxRules /\ Changes(account, WithRule(h, target, d))
  BY DEF SetRule
<1>1. PICK target \in {a \in ExecActions : ActionHome[a] = h} \cup {Wildcard} :
        Len(WithRule(h, target, d)) <= MaxRules /\ Changes(account, WithRule(h, target, d))
  BY <1>a
<1> DEFINE found == {i \in RowsRead(rules, h) : rules[i].target = target}
           row == [home |-> h, target |-> target, decision |-> d]
           k == CHOOSE i \in found : \A j \in found : i <= j
<1>2. /\ account \in Account /\ rules \in Seq(RuleRow)
      /\ \A x \in Homes : \A i, j \in RowsRead(rules, x) : rules[i].target = rules[j].target => i = j
  BY ExecTyped DEF ExecTypes, NoDuplicates
<1>3. row \in RuleRow /\ row.home = h /\ row.target = target
  BY ExecutionAssumption DEF RuleRow
<1>4. WithRule(h, target, d) = IF found = {} THEN Append(rules, row) ELSE [rules EXCEPT ![k] = row]
  BY DEF WithRule
<1> HIDE DEF row
<1>5. CASE found = {}
  <2>1. \A i \in RowsRead(rules, row.home) : rules[i].target # row.target
    BY <1>3, <1>5
  <2>2. Append(rules, row) \in Seq(RuleRow)
    BY <1>2, <1>3
  <2>3. QED
    BY <1>1, <1>2, <1>3, <1>4, <1>5, <2>1, <2>2, AppendedRule, ChangesKeeps
<1>6. CASE found # {}
  <2>1. \A i, j \in found : i = j /\ i \in Nat /\ i \in DOMAIN rules /\ rules[i].home = h /\ rules[i].target = target
    BY <1>2 DEF RowsRead, RowsOf
  <2>2. \E i \in found : \A j \in found : i <= j
    BY <1>6, <2>1
  <2>3. k \in found
    BY <2>2
  <2> HIDE DEF k
  <2>4. k \in DOMAIN rules /\ rules[k].home = row.home /\ rules[k].target = row.target
    BY <1>3, <2>1, <2>3
  <2>5. [rules EXCEPT ![k] = row] \in Seq(RuleRow)
    BY <1>2, <1>3, <2>4
  <2>6. WithRule(h, target, d) = [rules EXCEPT ![k] = row]
    BY <1>4, <1>6
  <2> DEFINE table == [rules EXCEPT ![k] = row]
  <2>7. \A x \in Homes : \A i, j \in RowsRead(table, x) : table[i].target = table[j].target => i = j
    BY <1>2, <1>3, <2>4, ReplacedRule
  <2>8. table \in Seq(RuleRow) /\ Len(table) <= MaxRules /\ Changes(account, table)
    BY <1>1, <2>5, <2>6
  <2> HIDE DEF table
  <2>9. QED
    BY <1>2, <2>7, <2>8, ChangesKeeps
<1>7. QED
  BY <1>5, <1>6

LEMMA ExecInitOK == ExecInit => ExecInv
<1> SUFFICES ASSUME ExecInit PROVE ExecInv
  OBVIOUS
<1>1. (CHOOSE a \in ExecActions : TRUE) \in ExecActions
  BY ExecutionAssumption
<1>2. account \in Account
  BY DEF ExecInit, Account
<1>3. rules = <<>> /\ rules \in Seq(RuleRow) /\ Len(rules) <= MaxRules /\ execFaults \in 0..MaxExecFaults
  BY ExecutionAssumption DEF ExecInit
<1> DEFINE new == [state |-> "idle", entry |-> "rest", action |-> CHOOSE a \in ExecActions : TRUE, standing |-> {},
                   rule |-> "none", decision |-> "DENY", executed |-> FALSE, answer |-> "none", rows |-> <<>>,
                   unheard |-> FALSE]
<1>4. new \in Run
  BY <1>1 DEF Run, RunStates, Decisions
<1>5. new.state = "idle" /\ ~new.executed /\ new.rows = <<>> /\ ~new.unheard
  OBVIOUS
<1>6. run = [c \in ExecCalls |-> new]
  BY DEF ExecInit
<1> HIDE DEF new
<1>7. run \in [ExecCalls -> Run] /\ \A c \in ExecCalls : run[c] = new
  BY <1>4, <1>6
<1>8. ExecTypeOK
  <2>1. NoDuplicates
    BY <1>3 DEF NoDuplicates, RowsRead, RowsOf
  <2>2. ExecTypes
    BY <1>2, <1>3, <1>7 DEF ExecTypes
  <2>3. QED
    BY <2>1, <2>2, ExecTypeParts
<1>9. RunOK(new) /\ RowsOK(new)
  BY <1>5 DEF RunOK, RowsOK
<1>10. QED
  BY <1>7, <1>8, <1>9 DEF ExecInv

LEMMA ExecNextKeeps ==
  ASSUME ExecInv, [ExecNext]_execVars
  PROVE  ExecInv'
<1>1. ASSUME NEW c \in ExecCalls, ReadFails(c)
      PROVE  ExecInv'
  BY <1>1, FailingKeeps, ExecFaultCounts DEF ReadFails
<1>2. ASSUME NEW c \in ExecCalls, RequestApproval(c)
      PROVE  ExecInv'
  BY <1>2, FailingKeeps, CallOf DEF RequestApproval
<1>3. CASE UNCHANGED execVars
  <2>1. UNCHANGED <<account, rules, run, execFaults>>
    BY <1>3 DEF execVars
  <2>2. QED
    BY <2>1 DEF ExecInv, ExecTypeOK, RowsRead, RowsOf, RunOK, RowsOK, InForce, Forbidden
<1>4. QED
  BY <1>1, <1>2, <1>3, ArriveKeeps, AuthenticateKeeps, ListCatalogKeeps, RecordMissKeeps, ReadRulesKeeps, ReadDevicesKeeps,
     ClaimApprovalKeeps, ExecuteKeeps, ExecutedKeeps, RecordRowKeeps, UserChangesKeep, SetRuleKeeps, GatewayDiesKeeps
     DEF ExecNext

LEMMA ExecInvariant == ExecSpec => []ExecInv
BY ExecInitOK, ExecNextKeeps, PTL DEF ExecSpec

\* Every variable has its type, and of the rows of the policyRules table that the
\* policy reads no two are about the same: setRule is an upsert (service/policy.ts).
THEOREM ExecutionTyped == ExecSpec => []ExecTypeOK
<1>1. ExecInv => ExecTypeOK
  BY DEF ExecInv
<1>2. QED
  BY <1>1, ExecInvariant, PTL

\* A reason to refuse a call that stood since its arrival keeps it from being
\* executed, and its audit row tells what happened, however many calls, rules and
\* actions there are (pipeline/execute.ts, mcp/server.ts).
THEOREM RefusalsAndRowsAreSound == ExecSpec => []ExecutionSound
<1>1. ExecInv => StandingRefusalHolds
  BY DEF ExecInv, RunOK, StandingRefusalHolds
<1>2. ExecInv => AuditTellsTheTruth
  BY DEF ExecInv, RowsOK, AuditTellsTheTruth
<1>3. ExecInv => ExecutionSound
  BY <1>1, <1>2 DEF ExecutionSound
<1>4. QED
  BY <1>3, ExecInvariant, PTL

-----------------------------------------------------------------------------
(* The calls of one upstream MCP server.                                   *)

\* One attempt sends the tool call once, at its end, and only a call that may be
\* retried has a second.
AttemptsOK(c) ==
  /\ c \notin RetrySafe => tool[c].attempt = 1
  /\ tool[c].sent <= tool[c].attempt
  /\ tool[c].state \in {"idle", "initialize", "initialized"} => tool[c].sent < tool[c].attempt

RemoteInv == RemoteTypeOK /\ ProbeIsRunning /\ \A c \in Tools : AttemptsOK(c)

LEMMA RemoteInitOK == RemoteInit => RemoteInv
<1> SUFFICES ASSUME RemoteInit PROVE RemoteInv
  OBVIOUS
<1>1. RemoteTypeOK
  BY RemoteCallsAssumption DEF RemoteInit, RemoteTypeOK, Circuit, Closed, ToolCall
<1>2. ProbeIsRunning /\ \A c \in Tools : AttemptsOK(c)
  BY DEF RemoteInit, ProbeIsRunning, Closed, AttemptsOK
<1>3. QED
  BY <1>1, <1>2 DEF RemoteInv

\* What the bookkeeping of an outcome makes of the breaker.
LEMMA Recorded ==
  ASSUME RemoteTypeOK, RecordSuccess \/ RecordOther \/ RecordTransient
  PROVE  /\ circuit' \in Circuit
         /\ circuit'.state \in {"closed", "open"}
         /\ circuit'.state = "closed" => circuit'.failures < FailThreshold
         /\ circuit'.state # "closed" => circuit'.failures > 0
<1>a. /\ Closed \in Circuit /\ Closed.state = "closed" /\ Closed.failures = 0
      /\ FailThreshold \in Nat /\ FailThreshold > 0
  BY RemoteCallsAssumption DEF Closed, Circuit
<1>1. CASE RecordSuccess \/ RecordOther
  <2>1. circuit' = Closed
    BY <1>1 DEF RecordSuccess, RecordOther
  <2>2. QED
    BY <1>a, <2>1
<1>2. CASE RecordTransient
  <2> DEFINE failures == circuit.failures + 1
  <2>1. failures \in Nat /\ failures > 0
    BY DEF RemoteTypeOK, Circuit
  <2>2. \/ circuit' = [state |-> "open", failures |-> failures, rested |-> FALSE, probe |-> FALSE]
        \/ failures < FailThreshold /\ circuit' = [Closed EXCEPT !.failures = failures]
    BY <1>2, <2>1, RemoteCallsAssumption DEF RecordTransient
  <2> HIDE DEF failures
  <2>3. CASE circuit' = [state |-> "open", failures |-> failures, rested |-> FALSE, probe |-> FALSE]
    BY <2>1, <2>3 DEF Circuit
  <2>4. CASE failures < FailThreshold /\ circuit' = [Closed EXCEPT !.failures = failures]
    <3>1. circuit' = [state |-> "closed", failures |-> failures, rested |-> FALSE, probe |-> FALSE]
      BY <2>4 DEF Closed
    <3>2. circuit' \in Circuit
      BY <2>1, <3>1 DEF Circuit
    <3>3. circuit'.state = "closed" /\ circuit'.failures = failures
      BY <3>1
    <3>4. QED
      BY <2>4, <3>2, <3>3
  <2>5. QED
    BY <2>2, <2>3, <2>4
<1>3. QED
  BY <1>1, <1>2

\* A call that runs and records its outcome leaves no breaker half-open.
LEMMA EndingKeeps ==
  ASSUME RemoteInv, NEW c \in Tools, Running(c), Ends(c), RecordSuccess \/ RecordOther \/ RecordTransient
  PROVE  RemoteInv'
<1>1. RemoteTypeOK /\ \A d \in Tools : AttemptsOK(d)
  BY DEF RemoteInv
<1> DEFINE rec == [tool[c] EXCEPT !.state = "done"]
<1>2. /\ rec \in ToolCall
      /\ rec.state = "done" /\ rec.attempt = tool[c].attempt /\ rec.sent = tool[c].sent
  BY <1>1 DEF RemoteTypeOK, ToolCall
<1>3. tool' = [tool EXCEPT ![c] = rec]
  BY <1>1 DEF Ends, RemoteTypeOK
<1> HIDE DEF rec
<1>4. tool' \in [Tools -> ToolCall] /\ \A d \in Tools : tool'[d] = IF d = c THEN rec ELSE tool[d]
  BY <1>1, <1>2, <1>3 DEF RemoteTypeOK
<1>5. RemoteTypeOK' /\ ProbeIsRunning'
  BY <1>1, <1>4, Recorded DEF RemoteTypeOK, ProbeIsRunning
<1>6. \A d \in Tools : AttemptsOK(d)'
  BY <1>1, <1>2, <1>4 DEF AttemptsOK
<1>7. QED
  BY <1>5, <1>6 DEF RemoteInv

\* A call goes on, or stops without an outcome before it was admitted, while the
\* breaker is left alone.
LEMMA GoingOnKeeps ==
  ASSUME RemoteInv, NEW c \in Tools, NEW rec \in ToolCall, UNCHANGED circuit, tool' = [tool EXCEPT ![c] = rec],
         rec.probing = tool[c].probing, Running(c) => rec.state \in Exchange,
         c \notin RetrySafe => rec.attempt = 1,
         rec.sent <= rec.attempt,
         rec.state \in {"idle", "initialize", "initialized"} => rec.sent < rec.attempt
  PROVE  RemoteInv'
<1>1. RemoteTypeOK /\ ProbeIsRunning /\ \A d \in Tools : AttemptsOK(d)
  BY DEF RemoteInv
<1>2. tool' \in [Tools -> ToolCall] /\ \A d \in Tools : tool'[d] = IF d = c THEN rec ELSE tool[d]
  BY <1>1 DEF RemoteTypeOK
<1>3. RemoteTypeOK'
  BY <1>1, <1>2 DEF RemoteTypeOK
<1>4. ProbeIsRunning'
  <2> SUFFICES ASSUME circuit.state = "half-open"
               PROVE  circuit.probe /\ \E d \in Tools : tool'[d].probing /\ tool'[d].state \in Exchange
    BY DEF ProbeIsRunning, Running
  <2>1. PICK d \in Tools : tool[d].probing /\ Running(d)
    BY <1>1 DEF ProbeIsRunning
  <2>2. tool'[d].probing /\ tool'[d].state \in Exchange
    BY <1>2, <2>1 DEF Running
  <2>3. QED
    BY <1>1, <2>2 DEF ProbeIsRunning
<1>5. \A d \in Tools : AttemptsOK(d)'
  BY <1>1, <1>2 DEF AttemptsOK
<1>6. QED
  BY <1>3, <1>4, <1>5 DEF RemoteInv

LEMMA AdmittedKeeps ==
  ASSUME RemoteInv, NEW c \in Tools, Admitted(c)
  PROVE  RemoteInv'
<1>1. RemoteTypeOK /\ ProbeIsRunning /\ \A d \in Tools : AttemptsOK(d)
  BY DEF RemoteInv
<1> DEFINE probing == circuit.state # "closed"
           rec == [tool[c] EXCEPT !.state = "initialize", !.probing = probing]
<1>2. /\ rec \in ToolCall
      /\ rec.state = "initialize" /\ rec.probing = probing
      /\ rec.attempt = tool[c].attempt /\ rec.sent = tool[c].sent
  BY <1>1 DEF RemoteTypeOK, ToolCall, Exchange
<1>3. tool' = [tool EXCEPT ![c] = rec]
  BY <1>1 DEF Admitted, RemoteTypeOK
<1> HIDE DEF rec
<1>4. tool' \in [Tools -> ToolCall] /\ \A d \in Tools : tool'[d] = IF d = c THEN rec ELSE tool[d]
  BY <1>1, <1>2, <1>3 DEF RemoteTypeOK
<1>5. \A d \in Tools : AttemptsOK(d)'
  BY <1>1, <1>2, <1>4 DEF AttemptsOK, Admitted
<1>6. CASE probing
  <2>1. circuit' = [circuit EXCEPT !.state = "half-open", !.probe = TRUE]
    BY <1>6 DEF Admitted
  <2>2. /\ circuit' \in Circuit /\ circuit'.state = "half-open" /\ circuit'.probe
        /\ circuit'.failures = circuit.failures
    BY <1>1, <2>1 DEF RemoteTypeOK, Circuit
  <2>3. RemoteTypeOK'
    BY <1>1, <1>4, <1>6, <2>2 DEF RemoteTypeOK
  <2>4. tool'[c].probing /\ tool'[c].state \in Exchange
    BY <1>2, <1>4, <1>6 DEF Exchange
  <2>5. ProbeIsRunning'
    BY <2>2, <2>4 DEF ProbeIsRunning, Running
  <2>6. QED
    BY <1>5, <2>3, <2>5 DEF RemoteInv
<1>7. CASE ~probing
  <2>1. UNCHANGED circuit
    BY <1>7 DEF Admitted
  <2>2. RemoteTypeOK' /\ ProbeIsRunning'
    BY <1>1, <1>4, <1>7, <2>1 DEF RemoteTypeOK, ProbeIsRunning
  <2>3. QED
    BY <1>5, <2>2 DEF RemoteInv
<1>8. QED
  BY <1>6, <1>7

LEMMA RemoteNextKeeps ==
  ASSUME RemoteInv, [RemoteNext]_remoteVars
  PROVE  RemoteInv'
<1>1. RemoteTypeOK /\ ProbeIsRunning /\ \A c \in Tools : AttemptsOK(c)
  BY DEF RemoteInv
<1>2. ASSUME NEW c \in Tools, Refused(c)
      PROVE  RemoteInv'
  <2> DEFINE rec == [tool[c] EXCEPT !.state = "done"]
  <2>1. /\ rec \in ToolCall /\ rec.state = "done" /\ rec.probing = tool[c].probing
        /\ rec.attempt = tool[c].attempt /\ rec.sent = tool[c].sent
    BY <1>1 DEF RemoteTypeOK, ToolCall
  <2>2. tool' = [tool EXCEPT ![c] = rec] /\ UNCHANGED circuit /\ tool[c].state = "idle"
    BY <1>1, <1>2 DEF Refused, RemoteTypeOK
  <2> HIDE DEF rec
  <2>3. QED
    BY <1>1, <2>1, <2>2, GoingOnKeeps DEF AttemptsOK, Running, Exchange
<1>3. ASSUME NEW c \in Tools, Initialized(c) \/ Notified(c)
      PROVE  RemoteInv'
  <2> DEFINE told == [tool[c] EXCEPT !.state = "initialized"]
             asked == [tool[c] EXCEPT !.state = "tools/call", !.sent = @ + 1]
  <2>1. /\ tool[c].state \in {"initialize", "initialized"} /\ UNCHANGED circuit
        /\ tool' = [tool EXCEPT ![c] = told] \/ tool' = [tool EXCEPT ![c] = asked]
    BY <1>1, <1>3 DEF Initialized, Notified, RemoteTypeOK
  <2>2. tool[c] \in ToolCall /\ AttemptsOK(c)
    BY <1>1 DEF RemoteTypeOK
  <2>3. /\ told \in ToolCall /\ told.state = "initialized" /\ told.probing = tool[c].probing
        /\ told.attempt = tool[c].attempt /\ told.sent = tool[c].sent
    BY <2>2 DEF ToolCall, Exchange
  <2>4. tool[c].sent < tool[c].attempt /\ tool[c].sent \in 0..2 /\ tool[c].attempt \in 1..2
    BY <2>1, <2>2 DEF AttemptsOK, ToolCall
  <2>5. tool[c].sent + 1 \in 0..2
    BY <2>4
  <2>6. /\ asked \in ToolCall /\ asked.state = "tools/call" /\ asked.probing = tool[c].probing
        /\ asked.attempt = tool[c].attempt /\ asked.sent = tool[c].sent + 1
    BY <2>2, <2>5 DEF ToolCall, Exchange
  <2> HIDE DEF told, asked
  <2>7. CASE tool' = [tool EXCEPT ![c] = told]
    BY <2>1, <2>2, <2>3, <2>4, <2>7, GoingOnKeeps DEF AttemptsOK, Exchange
  <2>8. CASE tool' = [tool EXCEPT ![c] = asked]
    <3>1. asked.sent <= asked.attempt
      BY <2>4, <2>6
    <3>2. c \notin RetrySafe => asked.attempt = 1
      BY <2>2, <2>6 DEF AttemptsOK
    <3>3. asked.state \in Exchange /\ asked.state \notin {"idle", "initialize", "initialized"}
      BY <2>6 DEF Exchange
    <3>4. QED
      BY <2>1, <2>6, <2>8, <3>1, <3>2, <3>3, GoingOnKeeps
  <2>9. QED
    BY <2>1, <2>7, <2>8
<1>4. ASSUME NEW c \in Tools, Succeeds(c)
      PROVE  RemoteInv'
  BY <1>4, EndingKeeps DEF Succeeds, Running, Exchange
<1>5. ASSUME NEW c \in Tools, FailsTransiently(c)
      PROVE  RemoteInv'
  <2>1. CASE MayRetry(c)
    <3> DEFINE again == [tool[c] EXCEPT !.state = "initialize", !.attempt = 2]
    <3>1. tool[c] \in ToolCall /\ AttemptsOK(c) /\ c \in RetrySafe /\ tool[c].attempt = 1
      BY <1>1, <2>1 DEF RemoteTypeOK, MayRetry
    <3>2. /\ again \in ToolCall /\ again.state = "initialize" /\ again.probing = tool[c].probing
          /\ again.attempt = 2 /\ again.sent = tool[c].sent
      <4>1. 2 \in 1..2 /\ "initialize" \in {"idle", "done"} \cup Exchange
        BY DEF Exchange
      <4>2. QED
        BY <3>1, <4>1 DEF ToolCall
    <3>3. tool' = [tool EXCEPT ![c] = again] /\ UNCHANGED circuit
      BY <1>1, <1>5, <2>1 DEF FailsTransiently, RemoteTypeOK
    <3>4. tool[c].sent \in 0..2 /\ tool[c].sent <= 1
      BY <3>1 DEF AttemptsOK, ToolCall
    <3> HIDE DEF again
    <3>5. QED
      <4>1. again.sent <= again.attempt /\ again.sent < again.attempt
        BY <3>2, <3>4
      <4>2. again.state \in Exchange
        BY <3>2 DEF Exchange
      <4>3. QED
        BY <3>1, <3>2, <3>3, <4>1, <4>2, GoingOnKeeps
  <2>2. CASE ~MayRetry(c)
    BY <1>5, <2>2, EndingKeeps DEF FailsTransiently
  <2>3. QED
    BY <2>1, <2>2
<1>6. ASSUME NEW c \in Tools, FailsOtherwise(c)
      PROVE  RemoteInv'
  BY <1>6, EndingKeeps DEF FailsOtherwise
<1>7. ASSUME NEW c \in Tools, DeadlinePasses(c)
      PROVE  RemoteInv'
  <2> DEFINE late == [tool[c] EXCEPT !.aborted = TRUE]
  <2>1. /\ late \in ToolCall /\ late.state = tool[c].state /\ late.probing = tool[c].probing
        /\ late.attempt = tool[c].attempt /\ late.sent = tool[c].sent
    BY <1>1 DEF RemoteTypeOK, ToolCall
  <2>2. tool' = [tool EXCEPT ![c] = late] /\ UNCHANGED circuit
    BY <1>1, <1>7 DEF DeadlinePasses, RemoteTypeOK
  <2> HIDE DEF late
  <2>3. QED
    BY <1>1, <2>1, <2>2, GoingOnKeeps DEF AttemptsOK, Running
<1>8. CASE CircuitRests
  <2>1. circuit' \in Circuit /\ circuit'.state = "open" /\ circuit'.failures = circuit.failures /\ tool' = tool
    BY <1>1, <1>8 DEF CircuitRests, RemoteTypeOK, Circuit
  <2>2. circuit.state = "open"
    BY <1>8 DEF CircuitRests
  <2>3. QED
    BY <1>1, <2>1, <2>2 DEF RemoteInv, RemoteTypeOK, ProbeIsRunning, AttemptsOK
<1>9. CASE UNCHANGED remoteVars
  BY <1>1, <1>9 DEF RemoteInv, remoteVars, RemoteTypeOK, ProbeIsRunning, Running, AttemptsOK
<1>10. QED
  BY <1>2, <1>3, <1>4, <1>5, <1>6, <1>7, <1>8, <1>9, AdmittedKeeps DEF RemoteNext

LEMMA RemoteInvariant == RemoteSpec => []RemoteInv
BY RemoteInitOK, RemoteNextKeeps, PTL DEF RemoteSpec

\* Every variable has its type, and a breaker that is not closed was opened by
\* failures (reliability.ts).
THEOREM RemoteTyped == RemoteSpec => []RemoteTypeOK
<1>1. RemoteInv => RemoteTypeOK
  BY DEF RemoteInv
<1>2. QED
  BY <1>1, RemoteInvariant, PTL

\* A half-open breaker waits for a probe that is still running, so no upstream is
\* quarantined for good, and a tool that is not safe to retry is requested at most
\* once, for any number of calls and any threshold (reliability.ts, adapter.ts).
THEOREM BreakerIsSound == RemoteSpec => []RemoteSound
<1>1. RemoteInv => RemoteSound
  <2> SUFFICES ASSUME RemoteInv PROVE RemoteSound
    OBVIOUS
  <2>1. ProbeIsRunning
    BY DEF RemoteInv
  <2>2. ASSUME NEW c \in Tools \ RetrySafe
        PROVE  tool[c].sent <= 1
    BY DEF RemoteInv, AttemptsOK
  <2>3. QED
    BY <2>1, <2>2 DEF RemoteSound, SentOnce
<1>2. QED
  BY <1>1, RemoteInvariant, PTL

-----------------------------------------------------------------------------
(* The bridge to Blender's main thread.                                    *)

\* A call is in the queue of its socket thread, on the main thread, or has run.
Queued(p) == \E i \in DOMAIN jobs : jobs[i] = p

RunsOnce(p) ==
  /\ post[p].thread = "none" <=> post[p].client \in {"idle", "unreachable"}
  /\ post[p].thread \in {"none", "reading"} => post[p].run = "none" /\ ~Queued(p) /\ onMain # p
  /\ Queued(p) \/ onMain = p => post[p].run = "none"
  /\ ~(Queued(p) /\ onMain = p)
  /\ post[p].runs = IF post[p].run = "none" THEN 0 ELSE 1
  /\ post[p].client = "ok" => post[p].run = "ok"

BridgeInv ==
  /\ BridgeTypeOK
  /\ \A i, j \in DOMAIN jobs : jobs[i] = jobs[j] => i = j
  /\ \A p \in Posts : RunsOnce(p)

LEMMA BridgeInitOK == BridgeInit => BridgeInv
<1> SUFFICES ASSUME BridgeInit PROVE BridgeInv
  OBVIOUS
<1> DEFINE new == [client |-> "idle", thread |-> "none", run |-> "none", runs |-> 0, changed |-> FALSE]
<1>a. new \in Post
  BY DEF Post
<1>b. post = [p \in Posts |-> new]
  BY DEF BridgeInit
<1>c. post \in [Posts -> Post]
  <2> HIDE DEF new
  <2>1. QED
    BY <1>a, <1>b
<1> HIDE DEF new
<1>d. jobs = <<>> /\ jobs \in Seq(Posts)
  BY DEF BridgeInit
<1>1. BridgeTypeOK
  BY <1>c, <1>d DEF BridgeInit, BridgeTypeOK
<1>2. \A p \in Posts : RunsOnce(p)
  <2>1. \A p \in Posts : post[p] = new
    BY <1>b
  <2>2. \A p \in Posts : ~Queued(p) /\ onMain # p
    BY <1>d, BlenderBridgeAssumption DEF BridgeInit, Queued
  <2>3. QED
    BY <2>1, <2>2 DEF RunsOnce, new
<1>3. QED
  BY <1>1, <1>2 DEF BridgeInv, BridgeInit

LEMMA BridgeParts ==
  ASSUME BridgeInv
  PROVE  /\ post \in [Posts -> Post] /\ jobs \in Seq(Posts)
         /\ pumping \in BOOLEAN /\ server \in BOOLEAN /\ timer \in BOOLEAN
         /\ onMain \in Posts \cup {NoPost} /\ (onMain # NoPost => pumping)
         /\ \A i, j \in DOMAIN jobs : jobs[i] = jobs[j] => i = j
         /\ \A p \in Posts : RunsOnce(p)
BY DEF BridgeInv, BridgeTypeOK

\* A step of one call's client or socket thread, which the main thread does not see.
LEMMA CallStepKeeps ==
  ASSUME BridgeInv, NEW p \in Posts, NEW rec \in Post, post' = [post EXCEPT ![p] = rec],
         UNCHANGED <<jobs, pumping, onMain, server, timer>>,
         rec.run = post[p].run, rec.runs = post[p].runs,
         rec.thread = "none" <=> rec.client \in {"idle", "unreachable"},
         rec.thread \in {"none", "reading"} => rec.run = "none" /\ ~Queued(p) /\ onMain # p,
         rec.client = "ok" => rec.run = "ok"
  PROVE  BridgeInv'
<1>1. post' \in [Posts -> Post] /\ \A q \in Posts : post'[q] = IF q = p THEN rec ELSE post[q]
  BY BridgeParts
<1>2. BridgeTypeOK'
  BY <1>1, BridgeParts DEF BridgeTypeOK
<1>3. \A q \in Posts : RunsOnce(q)'
  BY <1>1, BridgeParts DEF RunsOnce, Queued
<1>4. QED
  BY <1>2, <1>3, BridgeParts DEF BridgeInv

LEMMA AnswerKeeps ==
  ASSUME BridgeInv, NEW p \in Posts, NEW status \in {"ok", "refused"}, Answer(p, status),
         UNCHANGED <<jobs, pumping, onMain, server, timer>>,
         post[p].thread \in {"reading", "waiting"}, status = "ok" => post[p].run = "ok"
  PROVE  BridgeInv'
<1> DEFINE rec == [post[p] EXCEPT !.thread = "done", !.client = IF @ = "waiting" THEN status ELSE @]
<1>1. post[p] \in Post /\ RunsOnce(p)
  BY BridgeParts
<1>2. rec \in Post /\ rec.run = post[p].run /\ rec.runs = post[p].runs
  BY <1>1 DEF Post
<1>3. rec.thread = "done" /\ rec.client = IF post[p].client = "waiting" THEN status ELSE post[p].client
  BY <1>1 DEF Post
<1>4. post' = [post EXCEPT ![p] = rec]
  BY BridgeParts DEF Answer
<1> HIDE DEF rec
<1>5. rec.client \notin {"idle", "unreachable"} /\ (rec.client = "ok" => rec.run = "ok")
  BY <1>1, <1>2, <1>3 DEF RunsOnce
<1>6. QED
  BY <1>2, <1>3, <1>4, <1>5, CallStepKeeps

LEMMA CallStepsKeep ==
  ASSUME BridgeInv, NEW p \in Posts, PostCall(p) \/ GivesUp(p) \/ Rejects(p) \/ Answers(p) \/ ThreadTimesOut(p)
  PROVE  BridgeInv'
<1>1. post[p] \in Post /\ RunsOnce(p) /\ post \in [Posts -> Post]
  BY BridgeParts
<1>2. CASE PostCall(p)
  <2> DEFINE calls == [post[p] EXCEPT !.client = "waiting", !.thread = "reading"]
             fails == [post[p] EXCEPT !.client = "unreachable"]
  <2>1. post[p].client = "idle" /\ post[p].thread = "none" /\ post[p].run = "none" /\ ~Queued(p) /\ onMain # p
    BY <1>1, <1>2 DEF PostCall, RunsOnce
  <2>2. post' = [post EXCEPT ![p] = calls] \/ post' = [post EXCEPT ![p] = fails]
    BY <1>1, <1>2 DEF PostCall
  <2>3. /\ calls \in Post /\ calls.client = "waiting" /\ calls.thread = "reading"
        /\ calls.run = post[p].run /\ calls.runs = post[p].runs
    BY <1>1 DEF Post
  <2>4. /\ fails \in Post /\ fails.client = "unreachable" /\ fails.thread = post[p].thread
        /\ fails.run = post[p].run /\ fails.runs = post[p].runs
    BY <1>1 DEF Post
  <2>5. UNCHANGED <<jobs, pumping, onMain, server, timer>>
    BY <1>2 DEF PostCall
  <2> HIDE DEF calls, fails
  <2>6. CASE post' = [post EXCEPT ![p] = calls]
    BY <2>1, <2>3, <2>5, <2>6, CallStepKeeps
  <2>7. CASE post' = [post EXCEPT ![p] = fails]
    BY <2>1, <2>4, <2>5, <2>7, CallStepKeeps
  <2>8. QED
    BY <2>2, <2>6, <2>7
<1>3. CASE GivesUp(p)
  <2> DEFINE gone == [post[p] EXCEPT !.client = "gone"]
  <2>1. /\ gone \in Post /\ gone.client = "gone" /\ gone.thread = post[p].thread
        /\ gone.run = post[p].run /\ gone.runs = post[p].runs
    BY <1>1 DEF Post
  <2>2. /\ post[p].client = "waiting" /\ post' = [post EXCEPT ![p] = gone]
        /\ UNCHANGED <<jobs, pumping, onMain, server, timer>>
    BY <1>1, <1>3 DEF GivesUp
  <2> HIDE DEF gone
  <2>3. post[p].thread # "none" /\ (post[p].thread = "reading" => post[p].run = "none" /\ ~Queued(p) /\ onMain # p)
    BY <1>1, <2>2 DEF RunsOnce
  <2>4. QED
    BY <2>1, <2>2, <2>3, CallStepKeeps
<1>4. CASE Rejects(p)
  BY <1>4, AnswerKeeps DEF Rejects
<1>5. CASE Answers(p)
  <2>1. StatusOf(p) \in {"ok", "refused"} /\ (StatusOf(p) = "ok" => post[p].run = "ok")
    BY DEF StatusOf
  <2>2. QED
    BY <1>5, <2>1, AnswerKeeps DEF Answers
<1>6. CASE ThreadTimesOut(p)
  BY <1>6, AnswerKeeps DEF ThreadTimesOut, Patience
<1>7. QED
  BY <1>2, <1>3, <1>4, <1>5, <1>6

LEMMA EnqueuesKeeps ==
  ASSUME BridgeInv, NEW p \in Posts, Enqueues(p)
  PROVE  BridgeInv'
<1>1. /\ post[p] \in Post /\ post \in [Posts -> Post] /\ jobs \in Seq(Posts)
      /\ \A q \in Posts : RunsOnce(q)
      /\ \A i, j \in DOMAIN jobs : jobs[i] = jobs[j] => i = j
  BY BridgeParts
<1> DEFINE rec == [post[p] EXCEPT !.thread = "waiting"]
           n == Len(jobs)
<1>2. /\ rec \in Post /\ rec.thread = "waiting" /\ rec.client = post[p].client
      /\ rec.run = post[p].run /\ rec.runs = post[p].runs
  BY <1>1 DEF Post
<1>3. /\ post' = [post EXCEPT ![p] = rec] /\ jobs' = Append(jobs, p) /\ post[p].thread = "reading"
      /\ UNCHANGED <<pumping, onMain, server, timer>>
  BY <1>1 DEF Enqueues
<1> HIDE DEF rec
<1>4. post' \in [Posts -> Post] /\ \A q \in Posts : post'[q] = IF q = p THEN rec ELSE post[q]
  BY <1>1, <1>2, <1>3
<1>5. /\ n \in Nat /\ DOMAIN jobs = 1..n /\ jobs' \in Seq(Posts) /\ DOMAIN jobs' = 1..(n + 1) /\ jobs'[n + 1] = p
      /\ \A i \in 1..n : jobs'[i] = jobs[i]
  BY <1>1, <1>3
<1> HIDE DEF n
<1>6. ~Queued(p) /\ onMain # p /\ post[p].run = "none"
  BY <1>1, <1>3 DEF RunsOnce
<1>7. \A i \in 1..n : jobs[i] # p
  BY <1>5, <1>6 DEF Queued
<1>8. \A i, j \in DOMAIN jobs' : jobs'[i] = jobs'[j] => i = j
  <2> SUFFICES ASSUME NEW i \in 1..(n + 1), NEW j \in 1..(n + 1), jobs'[i] = jobs'[j]
               PROVE  i = j
    BY <1>5
  <2>1. CASE i \in 1..n /\ j \in 1..n
    BY <1>1, <1>5, <2>1
  <2>2. CASE i = n + 1 /\ j \in 1..n
    BY <1>5, <1>7, <2>2
  <2>3. CASE j = n + 1 /\ i \in 1..n
    BY <1>5, <1>7, <2>3
  <2>4. QED
    BY <1>5, <2>1, <2>2, <2>3
<1>9. \A q \in Posts : q # p => (Queued(q)' <=> Queued(q))
  BY <1>5 DEF Queued
<1>10. BridgeTypeOK'
  BY <1>3, <1>4, <1>5, BridgeParts DEF BridgeTypeOK
<1>11. ASSUME NEW q \in Posts
       PROVE  RunsOnce(q)'
  <2>1. RunsOnce(q)
    BY <1>1
  <2>2. CASE q = p
    <3>1. post'[q] = rec
      BY <1>4, <2>2
    <3>2. QED
      BY <1>2, <1>3, <1>6, <2>1, <2>2, <3>1 DEF RunsOnce
  <2>3. CASE q # p
    BY <1>3, <1>4, <1>9, <2>1, <2>3 DEF RunsOnce
  <2>4. QED
    BY <2>2, <2>3
<1>12. QED
  BY <1>8, <1>10, <1>11 DEF BridgeInv

LEMMA RunStartsKeeps ==
  ASSUME BridgeInv, RunStarts
  PROVE  BridgeInv'
<1>1. /\ jobs \in Seq(Posts) /\ jobs # <<>> /\ onMain = NoPost /\ pumping
      /\ \A q \in Posts : RunsOnce(q)
      /\ \A i, j \in DOMAIN jobs : jobs[i] = jobs[j] => i = j
      /\ onMain' = Head(jobs) /\ jobs' = Tail(jobs) /\ UNCHANGED <<post, pumping, server, timer>>
  BY BridgeParts DEF RunStarts
<1> DEFINE n == Len(jobs)
<1>a. PICK p \in Posts : p = Head(jobs)
  BY <1>1
<1>2. /\ n \in Nat /\ n >= 1 /\ DOMAIN jobs = 1..n /\ p = jobs[1]
      /\ jobs' \in Seq(Posts) /\ DOMAIN jobs' = 1..(n - 1)
      /\ \A i \in 1..(n - 1) : jobs'[i] = jobs[i + 1]
  BY <1>1, <1>a
<1> HIDE DEF n
<1>3. onMain' = p
  BY <1>1, <1>a
<1>4. \A i, j \in DOMAIN jobs' : jobs'[i] = jobs'[j] => i = j
  <2> SUFFICES ASSUME NEW i \in 1..(n - 1), NEW j \in 1..(n - 1), jobs'[i] = jobs'[j]
               PROVE  i = j
    BY <1>2
  <2>1. i + 1 \in DOMAIN jobs /\ j + 1 \in DOMAIN jobs /\ jobs[i + 1] = jobs[j + 1]
    BY <1>2
  <2>2. i + 1 = j + 1
    BY <1>1, <2>1
  <2>3. QED
    BY <1>2, <2>2
<1>5. Queued(p)
  BY <1>2 DEF Queued
<1>6. ~Queued(p)'
  <2> SUFFICES ASSUME NEW i \in 1..(n - 1), jobs'[i] = p
               PROVE  FALSE
    BY <1>2 DEF Queued
  <2>1. i + 1 \in DOMAIN jobs /\ 1 \in DOMAIN jobs /\ jobs[i + 1] = jobs[1]
    BY <1>2
  <2>2. i + 1 = 1
    BY <1>1, <2>1
  <2>3. QED
    BY <1>2, <2>2
<1>7. \A q \in Posts : Queued(q)' => Queued(q)
  <2> SUFFICES ASSUME NEW q \in Posts, NEW i \in 1..(n - 1), jobs'[i] = q
               PROVE  Queued(q)
    BY <1>2 DEF Queued
  <2>1. i + 1 \in DOMAIN jobs /\ jobs[i + 1] = q
    BY <1>2
  <2>2. QED
    BY <2>1 DEF Queued
<1>8. \A q \in Posts : q \notin {NoPost}
  BY BlenderBridgeAssumption
<1>9. BridgeTypeOK'
  BY <1>1, <1>2, <1>3, BridgeParts DEF BridgeTypeOK
<1>10. \A q \in Posts : RunsOnce(q)'
  BY <1>1, <1>3, <1>5, <1>6, <1>7, <1>8 DEF RunsOnce
<1>11. QED
  BY <1>4, <1>9, <1>10 DEF BridgeInv

LEMMA RunEndsKeeps ==
  ASSUME BridgeInv, RunEnds
  PROVE  BridgeInv'
<1>1. onMain \in Posts /\ pumping
  BY BridgeParts DEF RunEnds
<1>2. PICK p \in Posts : p = onMain
  BY <1>1
<1>3. post[p] \in Post /\ RunsOnce(p) /\ post \in [Posts -> Post] /\ \A q \in Posts : RunsOnce(q)
  BY BridgeParts
<1>4. PICK result \in {"ok", "error"}, changed \in BOOLEAN :
        post' = [post EXCEPT ![onMain].run = result, ![onMain].changed = @ \/ changed,
                             ![onMain].runs = IF @ < 2 THEN @ + 1 ELSE @]
  BY DEF RunEnds
<1>5. post[p].run = "none" /\ post[p].runs = 0 /\ ~Queued(p) /\ post[p].thread \notin {"none", "reading"}
  BY <1>2, <1>3 DEF RunsOnce
<1> DEFINE rec == [post[p] EXCEPT !.run = result, !.changed = @ \/ changed, !.runs = 1]
<1>a. (IF post[p].runs < 2 THEN post[p].runs + 1 ELSE post[p].runs) = 1
  BY <1>5
<1>b. post' = [post EXCEPT ![p] = [post[p] EXCEPT !.run = result, !.changed = @ \/ changed,
                                                 !.runs = IF post[p].runs < 2 THEN post[p].runs + 1 ELSE post[p].runs]]
  BY <1>2, <1>3, <1>4 DEF Post
<1>6. post' = [post EXCEPT ![p] = rec]
  BY <1>a, <1>b, Zenon
<1>7. /\ rec \in Post /\ rec.run = result /\ rec.runs = 1
      /\ rec.client = post[p].client /\ rec.thread = post[p].thread
  <2>1. post[p].changed \/ changed \in BOOLEAN
    BY <1>3 DEF Post
  <2>2. 1 \in 0..2
    OBVIOUS
  <2>3. QED
    BY <1>3, <2>1, <2>2 DEF Post
<1> HIDE DEF rec
<1>8. post' \in [Posts -> Post] /\ \A q \in Posts : post'[q] = IF q = p THEN rec ELSE post[q]
  BY <1>3, <1>6, <1>7
<1>9. onMain' = NoPost /\ UNCHANGED <<jobs, pumping, server, timer>>
  BY DEF RunEnds
<1>10. BridgeTypeOK'
  BY <1>8, <1>9, BridgeParts DEF BridgeTypeOK
<1>11. ASSUME NEW q \in Posts
       PROVE  RunsOnce(q)'
  <2>1. RunsOnce(q) /\ q # NoPost /\ (Queued(q)' <=> Queued(q))
    BY <1>3, <1>9, BlenderBridgeAssumption DEF Queued
  <2>2. CASE q = p
    <3>1. post'[q] = rec /\ rec.run # "none"
      BY <1>7, <1>8, <2>2
    <3>2. post[p].client # "ok"
      BY <1>3, <1>5 DEF RunsOnce
    <3>3. QED
      BY <1>5, <1>7, <1>9, <2>1, <2>2, <3>1, <3>2 DEF RunsOnce
  <2>3. CASE q # p
    BY <1>2, <1>8, <1>9, <2>1, <2>3 DEF RunsOnce
  <2>4. QED
    BY <2>2, <2>3
<1>12. QED
  BY <1>9, <1>10, <1>11, BridgeParts DEF BridgeInv

\* A timer that fires, a pump that is through and the add-on's restarts leave the
\* calls and the queue alone.
LEMMA AroundTheQueueKeeps ==
  ASSUME BridgeInv, UNCHANGED <<post, jobs, onMain>>, pumping' \in BOOLEAN, server' \in BOOLEAN, timer' \in BOOLEAN,
         onMain # NoPost => pumping'
  PROVE  BridgeInv'
<1>1. BridgeTypeOK'
  BY BridgeParts DEF BridgeTypeOK
<1>2. \A q \in Posts : RunsOnce(q)'
  BY BridgeParts DEF RunsOnce, Queued
<1>3. QED
  BY <1>1, <1>2, BridgeParts DEF BridgeInv

LEMMA BridgeNextKeeps ==
  ASSUME BridgeInv, [BridgeNext]_bridgeVars
  PROVE  BridgeInv'
<1>1. CASE \E p \in Posts : PostCall(p) \/ GivesUp(p) \/ ThreadRuns(p)
  BY <1>1, CallStepsKeep, EnqueuesKeeps DEF ThreadRuns
<1>2. CASE PumpStarts \/ PumpEnds
  BY <1>2, BridgeParts, AroundTheQueueKeeps DEF PumpStarts, PumpEnds
<1>3. CASE Unregister \/ Register
  BY <1>3, BridgeParts, AroundTheQueueKeeps DEF Unregister, Register
<1>4. CASE UNCHANGED bridgeVars
  BY <1>4, BridgeParts, AroundTheQueueKeeps DEF bridgeVars
<1>5. QED
  BY <1>1, <1>2, <1>3, <1>4, RunStartsKeeps, RunEndsKeeps DEF BridgeNext

LEMMA BridgeInvariant == BridgeSpec => []BridgeInv
BY BridgeInitOK, BridgeNextKeeps, PTL DEF BridgeSpec

\* Every variable has its type, and the main thread is in a call only while it
\* empties the queue (handlers.py).
THEOREM BridgeTyped == BridgeSpec => []BridgeTypeOK
<1>1. BridgeInv => BridgeTypeOK
  BY DEF BridgeInv
<1>2. QED
  BY <1>1, BridgeInvariant, PTL

\* A call runs on Blender's main thread at most once, and a success the adapter
\* reports is that of this very call, for any number of calls and restarts of the
\* add-on (connectors_bridge.py, bridge-client.ts).
THEOREM AnswersAreReal == BridgeSpec => []AnswerIsReal
<1>1. BridgeInv => AnswerIsReal
  BY DEF BridgeInv, RunsOnce, AnswerIsReal
<1>2. QED
  BY <1>1, BridgeInvariant, PTL

-----------------------------------------------------------------------------
(* The review of the remote endpoints.                                     *)

Says(m, f) == \E p \in heard[m] : p[1] = f

\* How far the run has got with a manifest tells what it has heard of it.
ChainOK(m) ==
  /\ review[m] \in {"todo", "skipped"} => heard[m] = {}
  /\ review[m] = "skipped" => ~manifest[m].endpoint
  /\ review[m] \in Documents \cup {"verified"} \/ heard[m] # {} =>
       manifest[m].verification = "production" /\ manifest[m].fit
  /\ review[m] \in {"resource", "authorization", "verified"} => Says(m, "resource_metadata")
  /\ review[m] \in {"authorization", "verified"} => Says(m, "resource") /\ Says(m, "authorization_servers")
  /\ review[m] = "verified" =>
       Says(m, "issuer") /\ Says(m, "authorization_endpoint") /\ Says(m, "token_endpoint")
  /\ review[m] # "failed" =>
       \A p \in heard[m] : p[2] = "reviewed" \/ (p[1] = "registration_endpoint" /\ ~manifest[m].registration)

ReviewInv ==
  /\ ReviewTypeOK
  /\ \A m \in Shipped : ChainOK(m)
  /\ exitCode = "zero" => \A m \in Shipped : review[m] \in {"skipped", "verified"}

LEMMA FieldsAre ==
  /\ Documents = {"challenge", "resource", "authorization"}
  /\ FieldsOf["challenge"] = {"resource_metadata"}
  /\ FieldsOf["resource"] = {"resource", "authorization_servers"}
  /\ FieldsOf["authorization"] = {"issuer", "authorization_endpoint", "token_endpoint", "registration_endpoint"}
BY DEF Documents, FieldsOf

LEMMA ReviewInitOK == ReviewInit => ReviewInv
<1> SUFFICES ASSUME ReviewInit PROVE ReviewInv
  OBVIOUS
<1>1. \A m \in Shipped : review[m] = "todo" /\ heard[m] = {}
  BY DEF ReviewInit
<1>2. ReviewTypeOK
  BY DEF ReviewInit, ReviewTypeOK
<1>3. \A m \in Shipped : ChainOK(m)
  BY <1>1, FieldsAre DEF ChainOK
<1>4. QED
  BY <1>2, <1>3 DEF ReviewInv, ReviewInit

LEMMA ReviewParts ==
  ASSUME ReviewInv
  PROVE  /\ manifest \in [Shipped -> Manifest]
         /\ review \in [Shipped -> {"todo", "skipped", "verified", "failed"} \cup Documents]
         /\ heard \in [Shipped -> SUBSET ((UNION {FieldsOf[d] : d \in Documents}) \X {"reviewed", "another", "unfit"})]
         /\ exitCode \in {"none", "zero", "one"}
         /\ \A m \in Shipped : ChainOK(m)
BY DEF ReviewInv, ReviewTypeOK

\* A step of one manifest, while the run goes on.
LEMMA ReviewStepKeeps ==
  ASSUME ReviewInv, NEW m \in Shipped, NEW next \in {"skipped", "verified", "failed"} \cup Documents,
         exitCode = "none", exitCode' \in {"none", "one"}, manifest' = manifest,
         review' = [review EXCEPT ![m] = next],
         heard' \in [Shipped -> SUBSET ((UNION {FieldsOf[d] : d \in Documents}) \X {"reviewed", "another", "unfit"})],
         \A q \in Shipped : q # m => heard'[q] = heard[q],
         ChainOK(m)'
  PROVE  ReviewInv'
<1>1. /\ review' \in [Shipped -> {"todo", "skipped", "verified", "failed"} \cup Documents]
      /\ \A q \in Shipped : q # m => review'[q] = review[q]
  BY ReviewParts
<1>2. ReviewTypeOK'
  BY <1>1, ReviewParts DEF ReviewTypeOK
<1>3. \A q \in Shipped : ChainOK(q)'
  <2>1. \A q \in Shipped : q # m => ChainOK(q)'
    BY <1>1, ReviewParts DEF ChainOK, Says
  <2>2. QED
    BY <2>1
<1>4. QED
  BY <1>2, <1>3 DEF ReviewInv

LEMMA StartReviewKeeps ==
  ASSUME ReviewInv, NEW m \in Shipped, StartReview(m)
  PROVE  ReviewInv'
<1>1. /\ exitCode = "none" /\ review[m] = "todo" /\ manifest' = manifest /\ heard' = heard
      /\ ChainOK(m) /\ heard[m] = {}
  BY ReviewParts DEF StartReview, Reaches, ChainOK
<1>2. CASE ~manifest[m].endpoint /\ Proceeds(m, "skipped")
  <2>1. review' = [review EXCEPT ![m] = "skipped"] /\ exitCode' = exitCode /\ review'[m] = "skipped"
    BY <1>2, ReviewParts DEF Proceeds
  <2>2. ChainOK(m)'
    BY <1>1, <1>2, <2>1, FieldsAre DEF ChainOK
  <2>3. QED
    BY <1>1, <2>1, <2>2, ReviewParts, ReviewStepKeeps
<1>3. CASE ReviewFails(m)
  <2>1. review' = [review EXCEPT ![m] = "failed"] /\ exitCode' = "one" /\ review'[m] = "failed"
    BY <1>3, ReviewParts DEF ReviewFails
  <2>2. ChainOK(m)'
    BY <1>1, <2>1, FieldsAre DEF ChainOK
  <2>3. QED
    BY <1>1, <2>1, <2>2, ReviewParts, ReviewStepKeeps
<1>4. CASE manifest[m].verification = "production" /\ manifest[m].fit /\ Proceeds(m, "challenge")
  <2>1. review' = [review EXCEPT ![m] = "challenge"] /\ exitCode' = exitCode /\ review'[m] = "challenge"
    BY <1>4, ReviewParts DEF Proceeds
  <2>2. ChainOK(m)'
    BY <1>1, <1>4, <2>1, FieldsAre DEF ChainOK
  <2>3. QED
    BY <1>1, <2>1, <2>2, FieldsAre, ReviewParts, ReviewStepKeeps
<1>5. QED
  BY <1>2, <1>3, <1>4 DEF StartReview

LEMMA NoAnswerKeeps ==
  ASSUME ReviewInv, NEW m \in Shipped, NoAnswer(m)
  PROVE  ReviewInv'
<1>1. /\ exitCode = "none" /\ review[m] \in Documents /\ manifest' = manifest /\ heard' = heard /\ ChainOK(m)
      /\ review' = [review EXCEPT ![m] = "failed"] /\ exitCode' = "one" /\ review'[m] = "failed"
  BY ReviewParts DEF NoAnswer, Reaches, ReviewFails
<1>2. ChainOK(m)'
  BY <1>1, FieldsAre DEF ChainOK
<1>3. QED
  BY <1>1, <1>2, ReviewParts, ReviewStepKeeps

LEMMA DocumentAnsweredKeeps ==
  ASSUME ReviewInv, NEW m \in Shipped, DocumentAnswered(m)
  PROVE  ReviewInv'
<1> DEFINE doc == review[m]
<1>1. /\ exitCode = "none" /\ doc \in Documents /\ manifest' = manifest /\ ChainOK(m)
  BY ReviewParts DEF DocumentAnswered, Reaches
<1>2. PICK said \in [FieldsOf[doc] -> {"reviewed", "another", "unfit"}] :
        /\ heard' = [heard EXCEPT ![m] = @ \cup {<<f, said[f]>> : f \in FieldsOf[doc]}]
        /\ IF \A f \in Compared(m, doc) : said[f] = "reviewed"
             THEN Proceeds(m, After(doc)) ELSE ReviewFails(m)
  BY DEF DocumentAnswered
<1> DEFINE new == {<<f, said[f]>> : f \in FieldsOf[doc]}
<1>3. new \subseteq (UNION {FieldsOf[d] : d \in Documents}) \X {"reviewed", "another", "unfit"}
  BY <1>1
<1>4. \A f \in FieldsOf[doc] : \E p \in new : p[1] = f
  <2>1. \A f \in FieldsOf[doc] : <<f, said[f]>> \in new /\ <<f, said[f]>>[1] = f
    OBVIOUS
  <2>2. QED
    BY <2>1
<1>5. \A p \in new : p[1] \in FieldsOf[doc] /\ p[2] = said[p[1]]
  OBVIOUS
<1>6. heard' = [heard EXCEPT ![m] = heard[m] \cup new]
  BY <1>2, ReviewParts
<1> HIDE DEF new
<1>7. /\ heard' \in [Shipped -> SUBSET ((UNION {FieldsOf[d] : d \in Documents}) \X {"reviewed", "another", "unfit"})]
      /\ heard'[m] = heard[m] \cup new /\ \A q \in Shipped : q # m => heard'[q] = heard[q]
  BY <1>3, <1>6, ReviewParts
<1>8. (\A f : Says(m, f) => Says(m, f)') /\ \A f \in FieldsOf[doc] : Says(m, f)'
  BY <1>4, <1>7 DEF Says
<1>9. manifest[m].verification = "production" /\ manifest[m].fit
  BY <1>1 DEF ChainOK
<1>10. CASE ReviewFails(m)
  <2>1. review' = [review EXCEPT ![m] = "failed"] /\ exitCode' = "one" /\ review'[m] = "failed"
    BY <1>10, ReviewParts DEF ReviewFails
  <2>2. ChainOK(m)'
    BY <1>1, <1>9, <2>1, FieldsAre DEF ChainOK
  <2>3. QED
    BY <1>1, <1>7, <2>1, <2>2, ReviewStepKeeps
<1>11. CASE Proceeds(m, After(doc)) /\ \A f \in Compared(m, doc) : said[f] = "reviewed"
  <2>1. review' = [review EXCEPT ![m] = After(doc)] /\ exitCode' = exitCode /\ review'[m] = After(doc)
    BY <1>11, ReviewParts DEF Proceeds
  <2>2. \A p \in heard'[m] : p[2] = "reviewed" \/ (p[1] = "registration_endpoint" /\ ~manifest[m].registration)
    <3>1. \A p \in heard[m] : p[2] = "reviewed" \/ (p[1] = "registration_endpoint" /\ ~manifest[m].registration)
      BY <1>1, FieldsAre DEF ChainOK
    <3>2. \A p \in new : p[2] = "reviewed" \/ (p[1] = "registration_endpoint" /\ ~manifest[m].registration)
      BY <1>5, <1>11 DEF Compared
    <3>3. QED
      BY <1>7, <3>1, <3>2
  <2>3. CASE doc = "challenge"
    <3>1. review'[m] = "resource" /\ Says(m, "resource_metadata")'
      BY <1>8, <2>1, <2>3, FieldsAre DEF After
    <3>2. ChainOK(m)'
      BY <1>1, <1>9, <2>2, <3>1 DEF ChainOK
    <3>3. QED
      BY <1>1, <1>7, <2>1, <2>3, <3>2, FieldsAre, ReviewStepKeeps DEF After
  <2>4. CASE doc = "resource"
    <3>1. /\ review'[m] = "authorization"
          /\ Says(m, "resource_metadata")' /\ Says(m, "resource")' /\ Says(m, "authorization_servers")'
      BY <1>1, <1>8, <2>1, <2>4, FieldsAre DEF After, ChainOK
    <3>2. ChainOK(m)'
      BY <1>1, <1>9, <2>2, <3>1 DEF ChainOK
    <3>3. QED
      BY <1>1, <1>7, <2>1, <2>4, <3>2, FieldsAre, ReviewStepKeeps DEF After
  <2>5. CASE doc = "authorization"
    <3>1. /\ review'[m] = "verified"
          /\ Says(m, "resource_metadata")' /\ Says(m, "resource")' /\ Says(m, "authorization_servers")'
          /\ Says(m, "issuer")' /\ Says(m, "authorization_endpoint")' /\ Says(m, "token_endpoint")'
      BY <1>1, <1>8, <2>1, <2>5, FieldsAre DEF After, ChainOK
    <3>2. ChainOK(m)'
      BY <1>1, <1>9, <2>2, <3>1 DEF ChainOK
    <3>3. QED
      BY <1>1, <1>7, <2>1, <2>5, <3>2, FieldsAre, ReviewStepKeeps DEF After
  <2>6. QED
    BY <1>1, <2>3, <2>4, <2>5, FieldsAre
<1>12. QED
  BY <1>2, <1>10, <1>11

LEMMA ReviewNextKeeps ==
  ASSUME ReviewInv, [ReviewNext]_reviewVars
  PROVE  ReviewInv'
<1>1. CASE ReviewEnds
  <2>1. exitCode' = "zero" /\ UNCHANGED <<manifest, review, heard>>
    BY <1>1 DEF ReviewEnds
  <2>2. \A m \in Shipped : review[m] \in {"skipped", "verified"}
    BY <1>1 DEF ReviewEnds
  <2>3. QED
    BY <2>1, <2>2, ReviewParts DEF ReviewInv, ReviewTypeOK, ChainOK, Says
<1>2. CASE UNCHANGED reviewVars
  BY <1>2 DEF ReviewInv, ReviewTypeOK, ChainOK, Says, reviewVars
<1>3. QED
  BY <1>1, <1>2, StartReviewKeeps, DocumentAnsweredKeeps, NoAnswerKeeps DEF ReviewNext

LEMMA ReviewInvariant == ReviewSpec => []ReviewInv
BY ReviewInitOK, ReviewNextKeeps, PTL DEF ReviewSpec

\* A review that passes heard every link of the reviewed chain of every manifest,
\* and asked no server for a manifest whose own review is missing or unfit, however
\* many manifests there are and whatever the servers answer (verify-endpoints.ts).
THEOREM PassedReviewsAreSound == ReviewSpec => []ReviewSound
<1>1. ReviewInv => ReviewSound
  <2> SUFFICES ASSUME ReviewInv PROVE ReviewSound
    OBVIOUS
  <2>1. ASSUME exitCode = "zero", NEW m \in Shipped, manifest[m].endpoint
        PROVE  review[m] = "verified" /\ ChainOK(m)
    BY <2>1, ReviewParts DEF ReviewInv, ChainOK
  <2>2. ASSUME exitCode = "zero", NEW m \in Shipped, manifest[m].endpoint
        PROVE  /\ {"resource_metadata", "resource", "authorization_servers", "issuer", "authorization_endpoint", "token_endpoint"}
                    \subseteq {p[1] : p \in heard[m]}
               /\ \A p \in heard[m] : p[2] = "reviewed" \/ (p[1] = "registration_endpoint" /\ ~manifest[m].registration)
    BY <2>1, <2>2 DEF ChainOK, Says
  <2>3. \A m \in Shipped : heard[m] # {} => manifest[m].verification = "production" /\ manifest[m].fit
    BY ReviewParts DEF ChainOK
  <2>4. QED
    BY <2>2, <2>3 DEF ReviewSound
<1>2. QED
  BY <1>1, ReviewInvariant, PTL

=============================================================================
