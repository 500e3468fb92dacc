----------------------------- MODULE RemoteCalls -----------------------------
(***************************************************************************)
(* Calls of one gateway process to one upstream MCP server: the adapter    *)
(* with its single retry (adapters/remote-mcp adapter.ts), the exchange it *)
(* runs (mcp-client.ts) and the circuit breaker the calls share            *)
(* (reliability.ts).  The deadline is the executor's AbortSignal.timeout.  *)
(***************************************************************************)
EXTENDS Naturals, FiniteSets

CONSTANTS
  Tools,         \* calls of tools
  RetrySafe,     \* those of a read-only or idempotent action
  FailThreshold  \* CIRCUIT_FAILURE_THRESHOLD

ASSUME RemoteCallsAssumption ==
  /\ RetrySafe \subseteq Tools
  /\ FailThreshold \in Nat \ {0}

VARIABLES
  circuit,  \* the breaker of the upstream, closed while it has no entry
  tool      \* per call, where execute has got to

remoteVars == <<circuit, tool>>

Circuit ==
  [state    : {"closed", "open", "half-open"},
   failures : Nat,       \* consecutiveFailures
   rested   : BOOLEAN,   \* thirty seconds have passed since openedAt
   probe    : BOOLEAN]   \* probeInFlight

\* The awaits of one callTool, in order; a legacy server skips the middle one.
Exchange == {"initialize", "initialized", "tools/call"}

ToolCall ==
  [state   : {"idle", "done"} \cup Exchange,
   attempt : 1..2,
   sent    : 0..2,       \* tools/call requests the server was sent
   probing : BOOLEAN,    \* admitted by a half-open breaker
   aborted : BOOLEAN]    \* the deadline has passed

Closed == [state |-> "closed", failures |-> 0, rested |-> FALSE, probe |-> FALSE]

RemoteInit ==
  /\ circuit = Closed
  /\ tool = [c \in Tools |-> [state |-> "idle", attempt |-> 1, sent |-> 0,
                              probing |-> FALSE, aborted |-> FALSE]]

Running(c) == tool[c].state \in Exchange

-----------------------------------------------------------------------------
(* assertCircuitAllows, at the start of execute.                           *)

Refuses ==
  \/ circuit.state = "open" /\ ~circuit.rested
  \/ circuit.state = "half-open" /\ circuit.probe

Refused(c) ==
  /\ tool[c].state = "idle" /\ Refuses
  /\ tool' = [tool EXCEPT ![c].state = "done"]
  /\ UNCHANGED circuit

\* A closed breaker lets every call pass, one that has rested a single probe.
Admitted(c) ==
  LET probing == circuit.state # "closed" IN
  /\ tool[c].state = "idle" /\ ~Refuses
  /\ circuit' = IF probing THEN [circuit EXCEPT !.state = "half-open", !.probe = TRUE] ELSE circuit
  /\ tool' = [tool EXCEPT ![c].state = "initialize", ![c].probing = probing]

-----------------------------------------------------------------------------
(* callTool: each step sends a request unless the deadline has passed, and *)
(* awaits its answer.                                                      *)

\* The server opened a session, or it has no initialize and gets the call alone.
Initialized(c) ==
  /\ tool[c].state = "initialize" /\ ~tool[c].aborted
  /\ \/ tool' = [tool EXCEPT ![c].state = "initialized"]
     \/ tool' = [tool EXCEPT ![c].state = "tools/call", ![c].sent = @ + 1]
  /\ UNCHANGED circuit

Notified(c) ==
  /\ tool[c].state = "initialized" /\ ~tool[c].aborted
  /\ tool' = [tool EXCEPT ![c].state = "tools/call", ![c].sent = @ + 1]
  /\ UNCHANGED circuit

\* recordCircuitSuccess.
RecordSuccess == circuit' = Closed

\* Mutant of RecordTransient: it opens one failure too late.
RecordTransientLate ==
  LET failures == circuit.failures + 1 IN
  circuit' =
    IF circuit.state = "half-open" \/ failures > FailThreshold
      THEN [state |-> "open", failures |-> failures, rested |-> FALSE, probe |-> FALSE]
      ELSE [Closed EXCEPT !.failures = failures]

\* recordCircuitTransientFailure: a failure while half-open, or the last of
\* the threshold, opens the breaker, and one while open restarts its rest.
RecordTransient ==
  LET failures == circuit.failures + 1 IN
  circuit' =
    IF circuit.state = "half-open" \/ failures >= FailThreshold
      THEN [state |-> "open", failures |-> failures, rested |-> FALSE, probe |-> FALSE]
      ELSE [Closed EXCEPT !.failures = failures]

\* Mutant of RecordOther: only a transient outcome is an outcome.
RecordNothing == UNCHANGED circuit

\* recordCircuitNonTransientOutcome.
RecordOther == RecordSuccess

Ends(c) == tool' = [tool EXCEPT ![c].state = "done"]

\* The result is read; one that echoes the credential fails after this.
Succeeds(c) ==
  /\ tool[c].state = "tools/call"
  /\ RecordSuccess
  /\ Ends(c)

MayRetry(c) == tool[c].attempt = 1 /\ c \in RetrySafe /\ ~tool[c].aborted

\* A transient failure (unreachable, cut off while reading, 502 to 504) of any
\* step: once, at once, the whole exchange again; otherwise it is recorded.
FailsTransiently(c) ==
  /\ Running(c)
  /\ IF MayRetry(c)
       THEN /\ tool' = [tool EXCEPT ![c].state = "initialize", ![c].attempt = 2]
            /\ UNCHANGED circuit
       ELSE RecordTransient /\ Ends(c)

\* Any other failure of any step: a refusal, a redirect, an oversized or
\* malformed answer, a tool error, or the deadline.
FailsOtherwise(c) ==
  /\ Running(c)
  /\ RecordOther
  /\ Ends(c)

-----------------------------------------------------------------------------
\* The deadline passes: the await it interrupts will fail.
DeadlinePasses(c) ==
  /\ Running(c) /\ ~tool[c].aborted
  /\ tool' = [tool EXCEPT ![c].aborted = TRUE]
  /\ UNCHANGED circuit

CircuitRests ==
  /\ circuit.state = "open" /\ ~circuit.rested
  /\ circuit' = [circuit EXCEPT !.rested = TRUE]
  /\ UNCHANGED tool

RemoteNext ==
  \/ \E c \in Tools :
       \/ Refused(c) \/ Admitted(c) \/ Initialized(c) \/ Notified(c) \/ Succeeds(c)
       \/ FailsTransiently(c) \/ FailsOtherwise(c) \/ DeadlinePasses(c)
  \/ CircuitRests

RemoteSpec == RemoteInit /\ [][RemoteNext]_remoteVars

-----------------------------------------------------------------------------
\* Every variable has its type, and a breaker that is not closed was opened by
\* failures.
RemoteTypeOK ==
  /\ circuit \in Circuit
  /\ tool \in [Tools -> ToolCall]
  /\ circuit.state = "closed" => circuit.failures < FailThreshold
  /\ circuit.state # "closed" => circuit.failures > 0

\* A half-open breaker refuses everybody else only while a call it admitted is
\* still running: whichever earlier calls succeed, fail or time out late, and
\* however the probe ends, the upstream is never quarantined for good.
ProbeIsRunning ==
  circuit.state = "half-open" => circuit.probe /\ \E c \in Tools : tool[c].probing /\ Running(c)

\* A tool that is neither read-only nor idempotent is requested at most once,
\* at whichever step of the exchange its attempt fails.
SentOnce == \A c \in Tools \ RetrySafe : tool[c].sent <= 1

\* A remote server is neither given up for good nor asked twice.
RemoteSound == ProbeIsRunning /\ SentOnce

=============================================================================
