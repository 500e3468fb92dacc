------------------------------ MODULE MCServices ------------------------------
(***************************************************************************)
(* Small instances for TLC of the components that share no state with the  *)
(* rest: a behaviour is one of the component it starts with, the others    *)
(* stay in their initial states, so that the state spaces add up instead   *)
(* of multiplying.                                                         *)
(***************************************************************************)
EXTENDS Credentials, GatewayLease, RemoteCalls, BlenderBridge, ApiAccess, Pairing, ConnectFlow, Execution, KeyTrust,
  LocalCredential, ReplayFile, EdgeLimits, McpEnvelope, EndpointReview, Deployment, Dashboard, TLC

CONSTANTS
  Checked,         \* the components that are run
  c1, c2, c3,      \* calls that need a credential
  p1, p2           \* gateway processes

VARIABLE component

servicesVars ==
  <<component, credVars, leaseVars, remoteVars, bridgeVars, apiVars, pairVars, flowVars, execVars, keyVars,
    localVars, replayFileVars, edgeVars, mcpVars, reviewVars, deployVars, dashboardVars>>

\* c3 runs in another gateway than the calls before it.
GatewayOf == [c \in CredCalls |-> IF c = c3 THEN p2 ELSE p1]

\* A local action anybody may run and a cloud action that needs an approval.
HomeOf      == [edit |-> "blender", send |-> "mail"]
ExecutorOf  == [blender |-> "local", mail |-> "cloud"]
BaselineOf  == [edit |-> "ALLOW", send |-> "REQUIRE_APPROVAL"]

\* Requests a window admits, and action ids of which two have one tool name.
SmallBudget == [edge |-> 2, oauth |-> 1, pairing_start |-> 1, pairing_claim |-> 1]
NamesOf     == [a1 |-> "n1", a2 |-> "n2", a3 |-> "n1"]

\* A component that starts in several states starts in one while it is idle.
ServicesInit ==
  /\ component \in Checked
  /\ CredInit /\ LeaseInit /\ RemoteInit /\ BridgeInit /\ ApiInit /\ PairInit /\ FlowInit /\ ExecInit /\ KeyInit
  /\ LocalInit /\ EdgeInit /\ McpInit /\ DeployInit
  /\ ReplayFileInit /\ (component = "replay file" \/ path = 0)
  /\ DashboardInit  /\ (component = "dashboard" \/ screen = "devices")
  /\ ReviewInit     /\ (component = "review" \/ manifest = [m \in Shipped |-> CHOOSE x \in Manifest : TRUE])

CredStep       == component = "credentials" /\ CredNext
LeaseStep      == component = "lease" /\ LeaseNext
RemoteStep     == component = "remote" /\ RemoteNext
BridgeStep     == component = "bridge" /\ BridgeNext
ApiStep        == component = "access" /\ ApiNext
PairStep       == component = "pairing" /\ PairNext
FlowStep       == component = "connect" /\ FlowNext
ExecStep       == component = "execution" /\ ExecNext
KeyStep        == component = "keys" /\ KeyNext
LocalStep      == component = "vault" /\ LocalNext
ReplayFileStep == component = "replay file" /\ ReplayFileNext
EdgeStep       == component = "edge" /\ EdgeNext
McpStep        == component = "mcp" /\ McpNext
ReviewStep     == component = "review" /\ ReviewNext
DeployStep     == component = "deployment" /\ DeployNext
DashboardStep  == component = "dashboard" /\ DashboardNext

Others(vars) == UNCHANGED component /\ UNCHANGED vars

ServicesNext ==
  \/ CredStep
     /\ Others(<<leaseVars, remoteVars, bridgeVars, apiVars, pairVars, flowVars, execVars,
                 keyVars, localVars, replayFileVars, edgeVars, mcpVars, reviewVars, deployVars, dashboardVars>>)
  \/ LeaseStep
     /\ Others(<<credVars, remoteVars, bridgeVars, apiVars, pairVars, flowVars, execVars,
                 keyVars, localVars, replayFileVars, edgeVars, mcpVars, reviewVars, deployVars, dashboardVars>>)
  \/ RemoteStep
     /\ Others(<<credVars, leaseVars, bridgeVars, apiVars, pairVars, flowVars, execVars,
                 keyVars, localVars, replayFileVars, edgeVars, mcpVars, reviewVars, deployVars, dashboardVars>>)
  \/ BridgeStep
     /\ Others(<<credVars, leaseVars, remoteVars, apiVars, pairVars, flowVars, execVars,
                 keyVars, localVars, replayFileVars, edgeVars, mcpVars, reviewVars, deployVars, dashboardVars>>)
  \/ ApiStep
     /\ Others(<<credVars, leaseVars, remoteVars, bridgeVars, pairVars, flowVars, execVars,
                 keyVars, localVars, replayFileVars, edgeVars, mcpVars, reviewVars, deployVars, dashboardVars>>)
  \/ PairStep
     /\ Others(<<credVars, leaseVars, remoteVars, bridgeVars, apiVars, flowVars, execVars,
                 keyVars, localVars, replayFileVars, edgeVars, mcpVars, reviewVars, deployVars, dashboardVars>>)
  \/ FlowStep
     /\ Others(<<credVars, leaseVars, remoteVars, bridgeVars, apiVars, pairVars, execVars,
                 keyVars, localVars, replayFileVars, edgeVars, mcpVars, reviewVars, deployVars, dashboardVars>>)
  \/ ExecStep
     /\ Others(<<credVars, leaseVars, remoteVars, bridgeVars, apiVars, pairVars, flowVars,
                 keyVars, localVars, replayFileVars, edgeVars, mcpVars, reviewVars, deployVars, dashboardVars>>)
  \/ KeyStep
     /\ Others(<<credVars, leaseVars, remoteVars, bridgeVars, apiVars, pairVars, flowVars,
                 execVars, localVars, replayFileVars, edgeVars, mcpVars, reviewVars, deployVars, dashboardVars>>)
  \/ LocalStep
     /\ Others(<<credVars, leaseVars, remoteVars, bridgeVars, apiVars, pairVars, flowVars,
                 execVars, keyVars, replayFileVars, edgeVars, mcpVars, reviewVars, deployVars, dashboardVars>>)
  \/ ReplayFileStep
     /\ Others(<<credVars, leaseVars, remoteVars, bridgeVars, apiVars, pairVars, flowVars,
                 execVars, keyVars, localVars, edgeVars, mcpVars, reviewVars, deployVars, dashboardVars>>)
  \/ EdgeStep
     /\ Others(<<credVars, leaseVars, remoteVars, bridgeVars, apiVars, pairVars, flowVars,
                 execVars, keyVars, localVars, replayFileVars, mcpVars, reviewVars, deployVars, dashboardVars>>)
  \/ McpStep
     /\ Others(<<credVars, leaseVars, remoteVars, bridgeVars, apiVars, pairVars, flowVars,
                 execVars, keyVars, localVars, replayFileVars, edgeVars, reviewVars, deployVars, dashboardVars>>)
  \/ ReviewStep
     /\ Others(<<credVars, leaseVars, remoteVars, bridgeVars, apiVars, pairVars, flowVars,
                 execVars, keyVars, localVars, replayFileVars, edgeVars, mcpVars, deployVars, dashboardVars>>)
  \/ DeployStep
     /\ Others(<<credVars, leaseVars, remoteVars, bridgeVars, apiVars, pairVars, flowVars,
                 execVars, keyVars, localVars, replayFileVars, edgeVars, mcpVars, reviewVars, dashboardVars>>)
  \/ DashboardStep
     /\ Others(<<credVars, leaseVars, remoteVars, bridgeVars, apiVars, pairVars, flowVars,
                 execVars, keyVars, localVars, replayFileVars, edgeVars, mcpVars, reviewVars, deployVars>>)

\* The variables of the others tell no two states apart: they never change.
ServicesView ==
  <<component,
    CASE component = "credentials" -> credVars
      [] component = "lease" -> leaseVars
      [] component = "remote" -> remoteVars
      [] component = "bridge" -> bridgeVars
      [] component = "access" -> apiVars
      [] component = "pairing" -> pairVars
      [] component = "connect" -> flowVars
      [] component = "execution" -> execVars
      [] component = "keys" -> keyVars
      [] component = "vault" -> localVars
      [] component = "replay file" -> replayFileVars
      [] component = "edge" -> edgeVars
      [] component = "mcp" -> mcpVars
      [] component = "review" -> reviewVars
      [] component = "deployment" -> deployVars
      [] component = "dashboard" -> dashboardVars>>

ServicesSpec == ServicesInit /\ [][ServicesNext]_servicesVars

\* CredFairness and BridgeFairness, each for the behaviours that are its own.
ServicesFairSpec ==
  /\ ServicesSpec
  /\ \A c \in CredCalls : WF_credVars(component = "credentials" /\ CallRuns(c))
  /\ \A p \in Posts : WF_bridgeVars(component = "bridge" /\ ThreadRuns(p))

\* The component that runs is well typed; the others never leave their initial
\* states.
ServicesTypeOK ==
  /\ component = "credentials" => CredTypeOK
  /\ component = "lease" => LeaseTypeOK
  /\ component = "remote" => RemoteTypeOK
  /\ component = "bridge" => BridgeTypeOK
  /\ component = "access" => ApiTypeOK
  /\ component = "pairing" => PairTypeOK
  /\ component = "connect" => FlowTypeOK
  /\ component = "execution" => ExecTypeOK
  /\ component = "keys" => KeyTypeOK
  /\ component = "vault" => LocalTypeOK
  /\ component = "replay file" => ReplayFileTypeOK
  /\ component = "edge" => EdgeTypeOK
  /\ component = "mcp" => McpTypeOK
  /\ component = "review" => ReviewTypeOK
  /\ component = "deployment" => DeployTypeOK
  /\ component = "dashboard" => DashboardTypeOK

\* A remote server is neither given up for good nor asked twice (reliability.ts,
\* adapter.ts), and what a passing review of the shipped endpoints has compared is all
\* there is to compare (verify-endpoints.ts).
RemoteToolsSound == RemoteSound /\ ReviewSound

\* Nobody outruns or goes round a budget (distributed-rate-limit.ts, rate_limits.ts),
\* an envelope does what it announces (mcp/protocol.ts, server.ts), and what a tab says
\* of a click is what became of it (the dashboard's forms).
FrontDoorSound == EdgeSound /\ McpSound /\ DashboardSound

\* What the machine keeps for its device: the credential in file and vault
\* (commands.ts, config.ts), and the file behind the replay cache (replay-store.ts).
AgentStateSound == LocalSound /\ ReplayFileSound

\* Every call that needs a renewed credential (store/connections.ts) and every call
\* the add-on accepted (connectors_bridge.py) is answered, across crashes, lost
\* answers and restarts of the add-on.
EveryCallAnswered == CallsAnswered /\ BridgeAnswers

=============================================================================
