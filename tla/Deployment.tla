------------------------------- MODULE Deployment -------------------------------
(***************************************************************************)
(* A deployment that provisions itself.  A build passes the gate, writes   *)
(* the environment of the Convex deployment (the signing key pair of the   *)
(* dashboard's login, the site's URL, the token the gateway proves itself  *)
(* with: scripts/vercel-build.mjs, scripts/setup-convex-env.mjs) and goes  *)
(* live; a gateway instance then derives the same token from the same root *)
(* secret when its first request arrives (packages/auth derive.ts,         *)
(* apps/gateway config.ts, apps/web lib/gateway/runtime.ts).               *)
(*                                                                         *)
(* Convex and the hosting platform are external.  A command that writes    *)
(* may fail, take effect although it reports a failure, or the build is    *)
(* killed; two builds may overlap.                                         *)
(***************************************************************************)
EXTENDS Naturals, FiniteSets

CONSTANTS
  MaxBuilds,      \* a bound and an order: builds are 1..MaxBuilds
  Roots,          \* root secrets long enough to derive from
  MaxBuildFaults  \* a bound: failing commands, failing steps, kills

ASSUME DeploymentAssumption ==
  /\ MaxBuilds \in Nat /\ MaxBuildFaults \in Nat
  /\ {"none", "short"} \cap Roots = {}

VARIABLES
  build,      \* every build, with the platform's environment as it was when it started
  convexEnv,  \* JWT_PRIVATE_KEY, JWKS (by the build that made them, 0 unset), SITE_URL, the token
  live,       \* the build whose deployment serves, 0 for none
  instance,   \* a gateway instance: the deployment it runs, and its cached app
  torn,       \* ghost: a write of the login's keys was cut in two by the outside
  buildFaults

deployVars == <<build, convexEnv, live, instance, torn, buildFaults>>

Builds == 1..MaxBuilds
Steps == {"gate", "read keys", "set key", "set jwks", "roll back", "site", "token", "deploy"}

Settings == [root : Roots \cup {"none", "short"}, token : {"unset", "own", "padded"}]

\* The token Convex compares with; "padded" is "own" with white space around it.
Derived(root) == <<"derived", root>>
NoToken == <<"none">>
Own == <<"own">>
Padded == <<"padded">>
Tokens == {Derived(r) : r \in Roots} \cup {NoToken, Own, Padded}

\* resolveGatewaySecrets and loadConfig: an explicit value wins and is trimmed.
Boots(s) == s.root \in Roots \/ (s.root = "none" /\ s.token # "unset")
TokenOf(s) == IF s.token = "unset" THEN Derived(s.root) ELSE Own

\* What a build wants Convex to hold.
Wanted(s) ==
  CASE s.root \in Roots -> TokenOf(s)
    [] s.root = "none" /\ s.token = "own" -> Own
    [] s.root = "none" /\ s.token = "padded" -> Padded
    [] OTHER -> NoToken

NoBuild == [at |-> "none", with |-> [root |-> "none", token |-> "unset"], provisions |-> FALSE, failed |-> FALSE, alone |-> FALSE]

DeployInit ==
  /\ build = [b \in Builds |-> NoBuild]
  /\ convexEnv = [key |-> 0, jwks |-> 0, site |-> FALSE, token |-> NoToken]
  /\ live = 0
  /\ instance = [of |-> 0, app |-> "none"]
  /\ torn = FALSE
  /\ buildFaults = 0

-----------------------------------------------------------------------------
Underway == {b \in Builds : build[b].at \in Steps}

To(b, step) == build' = [build EXCEPT ![b].at = step]
ToFailed(b, step) == build' = [build EXCEPT ![b].at = step, ![b].failed = TRUE]
Quiet == UNCHANGED <<live, instance, torn, buildFaults>>
DeployFault == buildFaults < MaxBuildFaults /\ buildFaults' = buildFaults + 1 /\ UNCHANGED <<live, instance>>

\* vercel-build.mjs: a preview build holds no key for the production backend.  The
\* operator may have changed GATEWAY_SECRET and GATEWAY_SERVICE_TOKEN before.
StartBuild(b) ==
  /\ build[b].at = "none" /\ \A c \in 1..b - 1 : build[c].at # "none"
  /\ \E provisions \in BOOLEAN, settings \in Settings :
       build' = [c \in Builds |->
         IF c = b THEN [at |-> "gate", with |-> settings, provisions |-> provisions, failed |-> FALSE, alone |-> Underway = {}]
         ELSE IF c \in Underway THEN [build[c] EXCEPT !.alone = FALSE] ELSE build[c]]
  /\ UNCHANGED convexEnv /\ Quiet

\* Types and tests pass; without the key only the dashboard is built.
PassGate(b) ==
  /\ build[b].at = "gate" /\ To(b, IF build[b].provisions THEN "read keys" ELSE "deploy")
  /\ UNCHANGED convexEnv /\ Quiet

\* Keys that are there are left alone; a read that fails reads as "not there".
ReadKeys(b) ==
  /\ build[b].at = "read keys"
  /\ UNCHANGED <<convexEnv, torn>>
  /\ \/ To(b, IF convexEnv.key = 0 THEN "set key" ELSE "site")
        /\ UNCHANGED <<live, instance, buildFaults>>
     \/ convexEnv.key # 0 /\ To(b, "set key") /\ DeployFault

SetKey(b) ==
  /\ build[b].at = "set key" /\ To(b, "set jwks")
  /\ convexEnv' = [convexEnv EXCEPT !.key = b] /\ Quiet

\* The write fails, or only its answer does.
SetKeyFails(b) ==
  /\ build[b].at = "set key" /\ ToFailed(b, "site") /\ DeployFault
  /\ \/ UNCHANGED <<convexEnv, torn>>
     \/ convexEnv' = [convexEnv EXCEPT !.key = b] /\ torn' = TRUE

SetJwks(b) ==
  /\ build[b].at = "set jwks" /\ To(b, "site")
  /\ convexEnv' = [convexEnv EXCEPT !.jwks = b] /\ Quiet

\* Mutant: half a pair is kept.
SetJwksFailsKept(b) ==
  /\ build[b].at = "set jwks" /\ ToFailed(b, "site") /\ DeployFault
  /\ UNCHANGED <<convexEnv, torn>>

SetJwksFails(b) ==
  /\ build[b].at = "set jwks" /\ ToFailed(b, "roll back") /\ DeployFault
  /\ UNCHANGED torn
  /\ convexEnv' \in {convexEnv, [convexEnv EXCEPT !.jwks = b]}

\* Best effort: the first half is removed, or stays.
RollBack(b) ==
  /\ build[b].at = "roll back" /\ To(b, "site")
  /\ \/ convexEnv' = [convexEnv EXCEPT !.key = 0] /\ Quiet
     \/ UNCHANGED convexEnv /\ torn' = TRUE /\ DeployFault

\* A SITE_URL that is there and the same is left; one that cannot be set is no failure.
SetSite(b) ==
  /\ build[b].at = "site" /\ To(b, "token")
  /\ \/ convexEnv' = [convexEnv EXCEPT !.site = TRUE] /\ Quiet
     \/ ~convexEnv.site /\ UNCHANGED <<convexEnv, torn>> /\ DeployFault

\* Without anything to derive from or to copy, a warning is all; a root secret too
\* short to derive from stops the build.  A build that already failed to set the
\* keys skips the write: failed ||= !envSet(...).
SetToken(b) ==
  LET wanted == Wanted(build[b].with) IN
  /\ build[b].at = "token" /\ build[b].with.root # "short"
  /\ To(b, "deploy")
  /\ convexEnv' = [convexEnv EXCEPT !.token = IF wanted = NoToken \/ build[b].failed THEN @ ELSE wanted]
  /\ Quiet

SetTokenFails(b) ==
  LET wanted == Wanted(build[b].with) IN
  /\ build[b].at = "token" /\ wanted \notin {NoToken, convexEnv.token} /\ ~build[b].failed
  /\ ToFailed(b, "deploy") /\ DeployFault
  /\ UNCHANGED torn
  /\ convexEnv' \in {convexEnv, [convexEnv EXCEPT !.token = wanted]}

SecretTooShort(b) ==
  /\ build[b].at = "token" /\ build[b].with.root = "short" /\ To(b, "stopped")
  /\ UNCHANGED convexEnv /\ Quiet

\* convex deploy with the dashboard's build, or that build alone.
GoesLive(b) ==
  /\ build[b].at = "deploy" /\ To(b, "done") /\ live' = b
  /\ UNCHANGED <<convexEnv, instance, torn, buildFaults>>

\* The gate is red, the deploy fails, or the platform kills the build.
BuildStops(b) ==
  /\ b \in Underway /\ To(b, "stopped") /\ DeployFault
  /\ torn' = (torn \/ build[b].at \in {"set jwks", "roll back"})
  /\ UNCHANGED convexEnv

\* A cold instance of the live deployment; its first request boots the app, and a
\* boot that failed is not kept.
InstanceStarts ==
  /\ live # 0 /\ instance.of # live
  /\ instance' = [of |-> live, app |-> "none"]
  /\ UNCHANGED <<build, convexEnv, live, torn, buildFaults>>

RequestBoots ==
  /\ instance.of # 0 /\ instance.app = "none"
  /\ Boots(build[instance.of].with)
  /\ instance' = [instance EXCEPT !.app = "up"]
  /\ UNCHANGED <<build, convexEnv, live, torn, buildFaults>>

DeployNext ==
  \/ \E b \in Builds :
       \/ StartBuild(b) \/ PassGate(b) \/ ReadKeys(b) \/ SetKey(b) \/ SetKeyFails(b) \/ SetJwks(b) \/ SetJwksFails(b)
       \/ RollBack(b) \/ SetSite(b) \/ SetToken(b) \/ SetTokenFails(b) \/ SecretTooShort(b) \/ GoesLive(b) \/ BuildStops(b)
  \/ InstanceStarts \/ RequestBoots

DeploySpec == DeployInit /\ [][DeployNext]_deployVars

-----------------------------------------------------------------------------
DeployTypeOK ==
  /\ build \in [Builds -> [at : Steps \cup {"none", "done", "stopped"}, with : Settings,
                           provisions : BOOLEAN, failed : BOOLEAN, alone : BOOLEAN]]
  /\ convexEnv \in [key : 0..MaxBuilds, jwks : 0..MaxBuilds, site : BOOLEAN, token : Tokens]
  /\ live \in 0..MaxBuilds
  /\ instance \in [of : 0..MaxBuilds, app : {"none", "up"}]
  /\ torn \in BOOLEAN /\ buildFaults \in 0..MaxBuildFaults

\* Builds that run one after the other leave the login's two keys a pair, whichever
\* commands fail, unless the outside cut a pair in two: a kill between its writes, a
\* write that took effect and reported a failure, a roll back that failed.
KeysArePaired ==
  Underway = {} /\ ~torn /\ (\A b \in Builds : build[b].at # "none" => build[b].alone) /\ convexEnv.key # 0
    => convexEnv.jwks = convexEnv.key

\* What the outside tears does not pass for a success: a key without its public half
\* is of a build that was killed, reported a failure, or overlapped another one.
HalvesAreReported ==
  \A b \in Builds :
    convexEnv.key = b /\ build[b].at = "done" /\ build[b].alone /\ ~build[b].failed => convexEnv.jwks = b

\* When the latest build provisioned, ran alone, reported no failure and went live,
\* an instance of it that answers requests presents exactly the token Convex
\* compares with (a padded token copied without a root secret aside: it is pushed
\* untrimmed).
InstanceIsBelieved ==
  LET b == instance.of IN
  instance.app = "up" /\ b = live /\ build[b].provisions /\ build[b].alone /\ ~build[b].failed
    /\ (\A c \in b + 1..MaxBuilds : build[c].at = "none")
    /\ ~(build[b].with.root = "none" /\ build[b].with.token = "padded")
    => convexEnv.token = TokenOf(build[b].with)

DeploySound == KeysArePaired /\ HalvesAreReported /\ InstanceIsBelieved

=============================================================================
