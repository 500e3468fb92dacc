------------------------------ MODULE ReplayFile ------------------------------
(***************************************************************************)
(* How agents share the file that remembers accepted jobs: each creates it *)
(* if it is missing, opens it, sets up or verifies its tables, and checks  *)
(* that it still is the file under that name before it starts and before   *)
(* every job (agent replay-store.ts, createPersistentReplayGuard and what  *)
(* it calls).  ReplayWindow and AgentJobs model what a claim does with the *)
(* rows and their expiry; here a row stays.                                *)
(*                                                                         *)
(* SQLite makes every transaction atomic, its processes killed or not.  A  *)
(* file that was removed lives on for those that have it open.             *)
(***************************************************************************)
EXTENDS Naturals, FiniteSets

CONSTANTS
  Agents,      \* agent processes, over their restarts
  SeenJobs,    \* the jobs delivered to them
  MaxFiles,    \* bound: files ever created under the name
  MaxRemovals  \* bound: times the user removes the file

ASSUME ReplayFileAssumption == MaxFiles \in Nat \ {0} /\ MaxRemovals \in Nat

VARIABLES
  cacheFile,  \* the files, in the order they were created
  path,       \* which of them has the name; 0: none
  agent,      \* the processes
  ran,        \* ghost: who accepted what, with which file open
  removed     \* how often the user removed the file

replayFileVars == <<cacheFile, path, agent, ran, removed>>

Files == 1..MaxFiles

\* A file's schema: never set up, this version's, or something else.
CacheFile == [exists : BOOLEAN, schema : {"none", "ours", "other"}, jobs : SUBSET SeenJobs]

Empty(schema) == [exists |-> TRUE, schema |-> schema, jobs |-> {}]

\* identity: what cacheIdentity saw; open: the file the database has open.
AgentState ==
  [at : {"idle", "create", "identify", "open", "init", "recheck", "ready", "claim", "stopped"},
   identity : 0..MaxFiles, open : 0..MaxFiles, job : SUBSET SeenJobs]

Acceptance == [by : Agents, file : Files, job : SeenJobs, nth : 1..2]

\* The machine never ran an agent, or has a file that one or something else made.
ReplayFileInit ==
  /\ \E first \in {"absent", "none", "ours", "other"} :
       /\ path = IF first = "absent" THEN 0 ELSE 1
       /\ cacheFile = [f \in Files |-> IF f = path THEN Empty(first)
                                       ELSE [exists |-> FALSE, schema |-> "none", jobs |-> {}]]
  /\ agent = [a \in Agents |-> [at |-> "idle", identity |-> 0, open |-> 0, job |-> {}]]
  /\ ran = {}
  /\ removed = 0

-----------------------------------------------------------------------------
Becomes(a, next) == agent' = [agent EXCEPT ![a] = next] /\ UNCHANGED removed

\* ensurePrivateDatabaseFile: the first lstat.
LooksForFile(a) ==
  /\ agent[a].at = "idle"
  /\ Becomes(a, [agent[a] EXCEPT !.at = IF path = 0 THEN "create" ELSE "identify"])
  /\ UNCHANGED <<cacheFile, path, ran>>

\* O_CREAT | O_EXCL: another agent's file, made since, is taken as it is.
CreatesFile(a) ==
  /\ agent[a].at = "create"
  /\ \/ path # 0 /\ UNCHANGED <<cacheFile, path>>
     \/ /\ path = 0
        /\ \E f \in Files :
             /\ ~cacheFile[f].exists /\ \A g \in 1..f - 1 : cacheFile[g].exists
             /\ cacheFile' = [cacheFile EXCEPT ![f] = Empty("none")]
             /\ path' = f
  /\ Becomes(a, [agent[a] EXCEPT !.at = "identify"])
  /\ UNCHANGED ran

\* cacheIdentity.
Identifies(a) ==
  /\ agent[a].at = "identify"
  /\ Becomes(a, [agent[a] EXCEPT !.at = IF path = 0 THEN "stopped" ELSE "open", !.identity = path])
  /\ UNCHANGED <<cacheFile, path, ran>>

\* new Database, create: false.
Opens(a) ==
  /\ agent[a].at = "open"
  /\ Becomes(a, [agent[a] EXCEPT !.at = IF path = 0 THEN "stopped" ELSE "init", !.open = path])
  /\ UNCHANGED <<cacheFile, path, ran>>

\* The exclusive transaction of initializeOrVerify.
Migrated(c) == IF c.schema = "none" THEN Empty("ours") ELSE c

\* initializeOrVerify, assertIntegrity.
Initializes(a) ==
  /\ agent[a].at = "init"
  /\ LET c == Migrated(cacheFile[agent[a].open]) IN
     /\ cacheFile' = [cacheFile EXCEPT ![agent[a].open] = c]
     /\ Becomes(a, [agent[a] EXCEPT !.at = IF c.schema = "ours" THEN "recheck" ELSE "stopped"])
  /\ UNCHANGED <<path, ran>>

\* assertCacheIdentity, before the session starts.
Rechecks(a) ==
  /\ agent[a].at = "recheck"
  /\ Becomes(a, [agent[a] EXCEPT !.at = IF path = agent[a].identity THEN "ready" ELSE "stopped"])
  /\ UNCHANGED <<cacheFile, path, ran>>

\* Mutant: a job is taken on the identity checked at the start.
DeliveredUnchecked(a, j) ==
  /\ agent[a].at = "ready"
  /\ Becomes(a, [agent[a] EXCEPT !.at = "claim", !.job = {j}])
  /\ UNCHANGED <<cacheFile, path, ran>>

\* remember: the identity is checked once more; a refused job leaves the agent as it was.
Delivered(a, j) ==
  /\ agent[a].at = "ready"
  /\ path = agent[a].identity
  /\ Becomes(a, [agent[a] EXCEPT !.at = "claim", !.job = {j}])
  /\ UNCHANGED <<cacheFile, path, ran>>

\* remember: the immediate transaction; the job runs only if its row was inserted.
Claims(a) ==
  /\ agent[a].at = "claim"
  /\ \E j \in agent[a].job :
       LET f == agent[a].open
           twice == \E r \in ran : r.file = f /\ r.job = j
       IN
       \/ j \in cacheFile[f].jobs /\ UNCHANGED <<cacheFile, ran>>
       \/ /\ j \notin cacheFile[f].jobs
          /\ cacheFile' = [cacheFile EXCEPT ![f].jobs = @ \cup {j}]
          /\ ran' = ran \cup {[by |-> a, file |-> f, job |-> j, nth |-> IF twice THEN 2 ELSE 1]}
  /\ Becomes(a, [agent[a] EXCEPT !.at = "ready", !.job = {}])
  /\ UNCHANGED path

\* Killed, or a lock that stayed taken past the busy timeout; started again.
StopsAgent(a) == agent[a].at \notin {"idle", "stopped"} /\ Becomes(a, [agent[a] EXCEPT !.at = "stopped"]) /\ UNCHANGED <<cacheFile, path, ran>>

StartsAgain(a) ==
  /\ agent[a].at = "stopped"
  /\ Becomes(a, [at |-> "idle", identity |-> 0, open |-> 0, job |-> {}])
  /\ UNCHANGED <<cacheFile, path, ran>>

\* The user deletes the file.
UserRemoves ==
  /\ removed < MaxRemovals /\ path # 0
  /\ path' = 0
  /\ removed' = removed + 1
  /\ UNCHANGED <<cacheFile, agent, ran>>

ReplayFileNext ==
  \/ \E a \in Agents :
       \/ LooksForFile(a) \/ CreatesFile(a) \/ Identifies(a) \/ Opens(a) \/ Initializes(a) \/ Rechecks(a)
       \/ \E j \in SeenJobs : Delivered(a, j)
       \/ Claims(a)
       \/ StopsAgent(a) \/ StartsAgain(a)
  \/ UserRemoves

ReplayFileSpec == ReplayFileInit /\ [][ReplayFileNext]_replayFileVars

-----------------------------------------------------------------------------
ReplayFileTypeOK ==
  /\ cacheFile \in [Files -> CacheFile] /\ path \in 0..MaxFiles
  /\ agent \in [Agents -> AgentState]
  /\ ran \subseteq Acceptance /\ removed \in 0..MaxRemovals

\* No start forgets a job: a job runs again only after the user removed the file
\* it was recorded in, and never twice from one file, however many agents start,
\* race to create the file, die or are started again.
StartsForgetNothing ==
  /\ \A r \in ran : r.nth = 1
  /\ \A j \in SeenJobs : Cardinality({r \in ran : r.job = j}) <= removed + 1
  /\ \A a \in Agents : agent[a].at \in {"ready", "claim"} => cacheFile[agent[a].open].schema = "ours"

\* A job that no agent was holding when the file was removed is only accepted by
\* agents whose open file has the name.
NamedFileOnly ==
  \A a \in Agents : agent[a].at = "ready" /\ agent'[a].at = "claim" => agent[a].open = path

\* The two together.
ReplayFileSound == []StartsForgetNothing /\ [][NamedFileOnly]_replayFileVars

=============================================================================
