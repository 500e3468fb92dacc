------------------------------ MODULE McpEnvelope ------------------------------
(***************************************************************************)
(* What the MCP endpoint makes of one POST: the caller first, then the     *)
(* JSON-RPC envelope, then, for the stateless revision, the agreement of   *)
(* the HTTP headers with the body, then the method (gateway mcp/server.ts, *)
(* protocol.ts, jsonrpc.ts, tool-names.ts, tools.ts, skill.ts and          *)
(* http/handlers/mcp.ts).  Requests are handled one after another; what    *)
(* one leaves for the next is the cached skill.                            *)
(*                                                                         *)
(* A proxy in front may route, filter or count by the headers; the         *)
(* dispatcher goes by the body.                                            *)
(***************************************************************************)
EXTENDS Naturals, FiniteSets

CONSTANTS
  ActionIds,   \* ids a catalog may hold
  FlatName,    \* [ActionIds -> tool name], '.' replaced by '_'
  Exposable,   \* the ids toolNameFor accepts: those without '_'
  Absent       \* a header, a field or an answer that is not there

ASSUME McpAssumption ==
  /\ Exposable \subseteq ActionIds /\ DOMAIN FlatName = ActionIds
  /\ \A a, b \in Exposable : FlatName[a] = FlatName[b] => a = b

VARIABLES
  mcp,          \* the request under way
  skillCache    \* cachedSkill

mcpVars == <<mcp, skillCache>>

ToolNames == {FlatName[a] : a \in ActionIds}

Methods == {"server/discover", "initialize", "ping", "tools/list", "tools/call", "skills/get", "resources/read", "unknown"}

Versions == {"modern", "legacy"}

\* The URI of the one skill; any other tool name or URI is a name too.
SkillUri == "skill"
Names    == ToolNames \cup {SkillUri}

\* What the body says: params.name or params.uri, and the _meta object.
Body ==
  [method : Methods, notification : BOOLEAN, name : Names \cup {Absent},
   meta   : BOOLEAN, version : Versions \cup {Absent}, capabilities : BOOLEAN]

\* What the headers say: MCP-Protocol-Version, Mcp-Method, Mcp-Name (decoded; one that
\* cannot be decoded is as good as another name).
Headers == [version : Versions \cup {Absent}, method : {Absent} \cup Methods, name : Names \cup {Absent}]

NoBody    == [method |-> "ping", notification |-> FALSE, name |-> Absent, meta |-> FALSE, version |-> Absent, capabilities |-> FALSE]
NoHeaders == [version |-> Absent, method |-> Absent, name |-> Absent]

\* catalog: what resolveCatalog answered; ran: the action the pipeline was given;
\* status: the HTTP status; code: none, or the JSON-RPC error's.
McpRequest ==
  [at      : {"idle", "received", "parsed", "accepted", "dispatched", "answered"},
   caller  : BOOLEAN, body : Body, headers : Headers, modern : BOOLEAN,
   catalog : SUBSET ActionIds, ran : ActionIds \cup {Absent},
   status  : {0, 200, 202, 400, 401, 404}, code : {"none", "request", "mismatch", "version", "params", "method", "internal"}]

Idle ==
  [at |-> "idle", caller |-> FALSE, body |-> NoBody, headers |-> NoHeaders, modern |-> FALSE,
   catalog |-> {}, ran |-> Absent, status |-> 0, code |-> "none"]

McpInit == mcp = Idle /\ skillCache = "empty"

-----------------------------------------------------------------------------
Respond(status, code) == mcp' = [mcp EXCEPT !.at = "answered", !.status = status, !.code = code] /\ UNCHANGED skillCache

\* handleMcp, readJsonBody: a body that is no JSON object never gets here.
Receive ==
  /\ mcp.at = "idle"
  /\ \E caller \in BOOLEAN : mcp' = [Idle EXCEPT !.at = "received", !.caller = caller]
  /\ UNCHANGED skillCache

\* authenticateCaller, before anything of the body is looked at.
Unauthorized == mcp.at = "received" /\ ~mcp.caller /\ Respond(401, "request")

\* parseJsonRpcRequest.
Malformed == mcp.at = "received" /\ mcp.caller /\ Respond(400, "request")

\* The envelope is valid; its body and headers are what the client sent.
ParseEnvelope ==
  /\ mcp.at = "received" /\ mcp.caller
  /\ \E b \in Body, h \in Headers :
       /\ ~b.meta => b.version = Absent /\ ~b.capabilities
       /\ h.method \in {Absent, b.method, "ping"}
       /\ mcp' = [mcp EXCEPT !.at = "parsed", !.body = b, !.headers = h]
  /\ UNCHANGED skillCache

\* Mutant: the headers that name the method and the tool announce nothing.
ModernByVersion(b, h) == b.method = "server/discover" \/ b.version # Absent \/ h.version = "modern"

\* isModernMcpRequest.
Modern(b, h) ==
  \/ b.method = "server/discover" \/ b.version # Absent
  \/ h.version = "modern" \/ h.method # Absent \/ h.name # Absent

\* expectedName; prompts/get is a method the dispatcher does not know.
Named(b) == b.method \in {"tools/call", "resources/read"} /\ b.name # Absent

\* validateModernMcpRequest: the error of the first check that fails.
HeadersVerdict(b, h) ==
  IF ~b.meta \/ b.version = Absent THEN "params"
  ELSE IF h.version # b.version THEN "mismatch"
  ELSE IF b.version # "modern" THEN "version"
  ELSE IF h.method # b.method THEN "mismatch"
  ELSE IF ~b.capabilities THEN "params"
  ELSE IF Named(b) /\ h.name # b.name THEN "mismatch"
  ELSE "none"

Validate ==
  /\ mcp.at = "parsed"
  /\ LET modern == Modern(mcp.body, mcp.headers)
         verdict == IF modern THEN HeadersVerdict(mcp.body, mcp.headers) ELSE "none"
     IN
     IF verdict # "none" THEN Respond(400, verdict)
     ELSE IF mcp.body.notification THEN Respond(202, "none")
     ELSE mcp' = [mcp EXCEPT !.at = "accepted", !.modern = modern] /\ UNCHANGED skillCache

-----------------------------------------------------------------------------
\* rpcCodeFor an unknown method or tool, and the status that goes with it.
NotFound ==
  IF mcp.modern /\ mcp.body.method = "tools/call" THEN Respond(200, "params")
  ELSE Respond(IF mcp.modern THEN 404 ELSE 200, "method")

\* dispatch: the methods that need no catalog and no skill, and those of the other revision.
DispatchPlain ==
  /\ mcp.at = "accepted"
  /\ \/ /\ mcp.body.method \in {"ping"} \cup (IF mcp.modern THEN {"server/discover"} ELSE {"initialize"})
        /\ Respond(200, "none")
     \/ /\ mcp.body.method \in {"unknown"} \cup (IF mcp.modern THEN {"initialize"} ELSE {"server/discover"})
        /\ NotFound

\* skills/get, resources/read: one load serves every later request, and so does one
\* failure to load.
DispatchSkill ==
  /\ mcp.at = "accepted" /\ mcp.body.method \in {"skills/get", "resources/read"}
  /\ \/ mcp.body.name # SkillUri /\ Respond(200, "params")
     \/ /\ mcp.body.name = SkillUri
        /\ \E loaded \in BOOLEAN :
             LET after == IF skillCache = "empty" THEN (IF loaded THEN "loaded" ELSE "failed") ELSE skillCache IN
             /\ mcp' = [mcp EXCEPT !.at = "answered", !.status = 200, !.code = IF after = "loaded" THEN "none" ELSE "internal"]
             /\ skillCache' = after

\* resolveCatalog; its read may fail.
ResolveCatalog ==
  /\ mcp.at = "accepted" /\ mcp.body.method \in {"tools/list", "tools/call"}
  /\ \/ \E entries \in SUBSET ActionIds : mcp' = [mcp EXCEPT !.at = "dispatched", !.catalog = entries] /\ UNCHANGED skillCache
     \/ Respond(200, "internal")

\* assertNoToolNameCollision, toolNameFor: one bad id takes the whole catalog down.
Usable(entries) ==
  entries \subseteq Exposable /\ \A a, b \in entries : FlatName[a] = FlatName[b] => a = b

ListTools ==
  /\ mcp.at = "dispatched" /\ mcp.body.method = "tools/list"
  /\ Respond(200, IF Usable(mcp.catalog) THEN "none" ELSE "internal")

\* lookupTool: the entries a name stands for.
Found(entries, name) == {a \in entries : FlatName[a] = name}

\* callTool: the pipeline's own failures are results, not errors.
CallTool ==
  /\ mcp.at = "dispatched" /\ mcp.body.method = "tools/call"
  /\ \/ ~Usable(mcp.catalog) /\ Respond(200, "internal")
     \/ Usable(mcp.catalog) /\ Found(mcp.catalog, mcp.body.name) = {} /\ NotFound
     \/ /\ Usable(mcp.catalog)
        /\ \E a \in Found(mcp.catalog, mcp.body.name) :
             mcp' = [mcp EXCEPT !.at = "answered", !.status = 200, !.ran = a]
        /\ UNCHANGED skillCache

\* The answer is out; the next request.
NextRequest == mcp.at = "answered" /\ mcp' = Idle /\ UNCHANGED skillCache

McpNext ==
  \/ Receive \/ Unauthorized \/ Malformed \/ ParseEnvelope \/ Validate
  \/ DispatchPlain \/ DispatchSkill \/ ResolveCatalog \/ ListTools \/ CallTool
  \/ NextRequest

McpSpec == McpInit /\ [][McpNext]_mcpVars

-----------------------------------------------------------------------------
McpTypeOK == mcp \in McpRequest /\ skillCache \in {"empty", "loaded", "failed"}

\* Who only sees the headers sees what is done: a request that announces a method,
\* or speaks the stateless revision, is carried out only if the body says the same,
\* and a tool or resource only under the name it announces.
DoneAsAnnounced ==
  mcp.at \in {"accepted", "dispatched"} \/ (mcp.at = "answered" /\ mcp.code = "none" /\ mcp.status = 200) =>
    /\ mcp.headers.method \in {Absent, mcp.body.method}
    /\ mcp.headers.name # Absent /\ Named(mcp.body) => mcp.headers.name = mcp.body.name
    /\ mcp.headers.version = "modern" => mcp.body.version = "modern"

\* What runs is the one action of the caller's own catalog that has the name, and
\* runs only for an authenticated request that expects an answer.
RunsWhatIsListed ==
  mcp.ran # Absent =>
    /\ Found(mcp.catalog, mcp.body.name) = {mcp.ran} /\ mcp.ran \in Exposable
    /\ mcp.caller /\ ~mcp.body.notification /\ mcp.body.method = "tools/call"

\* The two together: what is announced is done, what is listed is run.
McpSound == DoneAsAnnounced /\ RunsWhatIsListed

=============================================================================
