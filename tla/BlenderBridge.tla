---------------------------- MODULE BlenderBridge ----------------------------
(***************************************************************************)
(* The Blender bridge: the agent's adapter posts over loopback             *)
(* (adapters/blender adapter.ts, bridge-client.ts), a socket thread of the *)
(* add-on queues the call for Blender's main thread and waits for it       *)
(* (bridge/connectors_bridge.py), and a timer of the main thread runs what *)
(* is queued (handlers.py).  The client's patience is thirty seconds or    *)
(* the job's own deadline, the thread's three hundred; either may end at   *)
(* any moment.                                                             *)
(***************************************************************************)
EXTENDS Naturals, Sequences

CONSTANTS
  Posts,  \* calls of the adapter
  NoPost  \* the main thread is not in a call

ASSUME BlenderBridgeAssumption == NoPost \notin Posts

VARIABLES
  post,     \* per call, its client, its socket thread and its run
  jobs,     \* _JOBS
  pumping,  \* the main thread is inside _pump
  onMain,   \* the call the main thread is running
  server,   \* the add-on listens
  timer     \* _pump is registered

bridgeVars == <<post, jobs, pumping, onMain, server, timer>>

Post ==
  [client  : {"idle", "waiting", "ok", "refused", "gone", "unreachable"},
   thread  : {"none", "reading", "waiting", "done"},
   run     : {"none", "ok", "error"},   \* box, once done is set
   runs    : 0..2,
   changed : BOOLEAN]                   \* it changed the scene

BridgeInit ==
  /\ post = [p \in Posts |-> [client |-> "idle", thread |-> "none", run |-> "none",
                              runs |-> 0, changed |-> FALSE]]
  /\ jobs = <<>>
  /\ pumping = FALSE /\ onMain = NoPost
  /\ server = TRUE /\ timer = TRUE

\* The answer reaches the client only if it still waits for it.
Answer(p, status) ==
  post' = [post EXCEPT ![p].thread = "done",
                       ![p].client = IF @ = "waiting" THEN status ELSE @]

-----------------------------------------------------------------------------
(* The client: execute and #send.                                          *)

PostCall(p) ==
  /\ post[p].client = "idle"
  /\ post' = IF server THEN [post EXCEPT ![p].client = "waiting", ![p].thread = "reading"]
                       ELSE [post EXCEPT ![p].client = "unreachable"]
  /\ UNCHANGED <<jobs, pumping, onMain, server, timer>>

\* TIMEOUT or CANCELLED: the connection is dropped, the call is not.
GivesUp(p) ==
  /\ post[p].client = "waiting"
  /\ post' = [post EXCEPT ![p].client = "gone"]
  /\ UNCHANGED <<jobs, pumping, onMain, server, timer>>

-----------------------------------------------------------------------------
(* The socket thread: do_POST and _run_on_main.                            *)

\* Not addressed to loopback, an unknown endpoint or an unusable body.
Rejects(p) ==
  /\ post[p].thread = "reading"
  /\ Answer(p, "refused")
  /\ UNCHANGED <<jobs, pumping, onMain, server, timer>>

Enqueues(p) ==
  /\ post[p].thread = "reading"
  /\ jobs' = Append(jobs, p)
  /\ post' = [post EXCEPT ![p].thread = "waiting"]
  /\ UNCHANGED <<pumping, onMain, server, timer>>

\* Mutant of StatusOf: an error in the box is not raised again.
AlwaysOk(p) == "ok"

\* The value of the box is a 200; its error becomes a 400 or a 500.
StatusOf(p) == IF post[p].run = "ok" THEN "ok" ELSE "refused"

Answers(p) ==
  /\ post[p].thread = "waiting" /\ post[p].run # "none"
  /\ Answer(p, StatusOf(p))
  /\ UNCHANGED <<jobs, pumping, onMain, server, timer>>

\* done is not set within MAIN_THREAD_TIMEOUT_S.
Patience(p) == post[p].thread = "waiting" /\ post[p].run = "none"

\* 504; the job stays in the queue, or goes on running.
ThreadTimesOut(p) ==
  /\ Patience(p)
  /\ Answer(p, "refused")
  /\ UNCHANGED <<jobs, pumping, onMain, server, timer>>

-----------------------------------------------------------------------------
(* Blender's main thread.                                                  *)

\* The timer fires, and _pump goes on until the queue is empty.
PumpStarts ==
  /\ timer /\ ~pumping
  /\ pumping' = TRUE
  /\ UNCHANGED <<post, jobs, onMain, server, timer>>

RunStarts ==
  /\ pumping /\ onMain = NoPost /\ jobs # <<>>
  /\ onMain' = Head(jobs)
  /\ jobs' = Tail(jobs)
  /\ UNCHANGED <<post, pumping, server, timer>>

\* A handler returns or raises.  One that raises may have changed the scene:
\* object_create names the object it added, object_transform checks a field
\* after setting another, material_apply creates what it cannot assign.
RunEnds ==
  /\ onMain # NoPost
  /\ \E result \in {"ok", "error"}, changed \in BOOLEAN :
       post' = [post EXCEPT ![onMain].run = result, ![onMain].changed = @ \/ changed,
                            ![onMain].runs = IF @ < 2 THEN @ + 1 ELSE @]
  /\ onMain' = NoPost
  /\ UNCHANGED <<jobs, pumping, server, timer>>

PumpEnds ==
  /\ pumping /\ onMain = NoPost /\ jobs = <<>>
  /\ pumping' = FALSE
  /\ UNCHANGED <<post, jobs, onMain, server, timer>>

\* unregister: listening and the timer end; threads and queue do not.
Unregister ==
  /\ server /\ ~pumping
  /\ server' = FALSE /\ timer' = FALSE
  /\ UNCHANGED <<post, jobs, pumping, onMain>>

\* register: the timer is started before the port, which may be taken.
Register ==
  /\ ~server /\ ~pumping
  /\ timer' = TRUE
  /\ server' \in BOOLEAN
  /\ UNCHANGED <<post, jobs, pumping, onMain>>

-----------------------------------------------------------------------------
ThreadRuns(p) == Rejects(p) \/ Enqueues(p) \/ Answers(p) \/ ThreadTimesOut(p)

BridgeNext ==
  \/ \E p \in Posts : PostCall(p) \/ GivesUp(p) \/ ThreadRuns(p)
  \/ PumpStarts \/ RunStarts \/ RunEnds \/ PumpEnds
  \/ Unregister \/ Register

BridgeSpec == BridgeInit /\ [][BridgeNext]_bridgeVars

\* A socket thread is scheduled and its wait has an end.
BridgeFairness == \A p \in Posts : WF_bridgeVars(ThreadRuns(p))

-----------------------------------------------------------------------------
\* Every variable has its type; the main thread is in a call only inside _pump.
BridgeTypeOK ==
  /\ post \in [Posts -> Post]
  /\ jobs \in Seq(Posts)
  /\ pumping \in BOOLEAN /\ server \in BOOLEAN /\ timer \in BOOLEAN
  /\ onMain \in Posts \cup {NoPost}
  /\ onMain # NoPost => pumping

\* A call runs on the main thread at most once, whoever has given it up and
\* however often the add-on is restarted around the queue it leaves, and a
\* success the adapter reports is that of a run of this very call.
AnswerIsReal ==
  \A p \in Posts :
    /\ post[p].runs <= 1
    /\ post[p].client = "ok" => post[p].runs = 1 /\ post[p].run = "ok"

\* Every call the add-on accepted is answered, also one whose job was left in
\* the queue by a restart or is stuck behind an endless render.
BridgeAnswers == \A p \in Posts : post[p].thread = "waiting" ~> post[p].thread = "done"

=============================================================================
