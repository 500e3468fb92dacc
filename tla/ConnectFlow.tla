----------------------------- MODULE ConnectFlow -----------------------------
(***************************************************************************)
(* Connecting a connector by OAuth from the dashboard: startOAuthConnect   *)
(* (app/(app)/connections/actions.ts) sends the browser to the consent     *)
(* screen of the connector's authorization server, the callback route      *)
(* (app/oauth/callback/route.ts) redeems the code it comes back with, and  *)
(* one sealed cookie (lib/oauth/state.ts) carries the flow in between.     *)
(*                                                                         *)
(* One browser.  A request carries the cookie it was sent with, and its    *)
(* answer sets or deletes the cookie when it arrives: tabs, reloads and    *)
(* slow answers interleave.  The authorization servers are external; every *)
(* connector has one of its own, and it redeems each code once, for the    *)
(* client, verifier and redirect URI it was asked with.                    *)
(***************************************************************************)
EXTENDS Naturals, FiniteSets

CONSTANTS
  Viewers,      \* users who sign in with this browser
  NoViewer,
  FlowTargets,  \* cloud connectors
  MaxFlows,     \* bound: presses of Connect
  MaxVisits     \* bound: requests of the callback route

ASSUME ConnectFlowAssumption ==
  /\ NoViewer \notin Viewers
  /\ FlowTargets # {}
  /\ {MaxFlows, MaxVisits} \subseteq Nat \ {0}

VARIABLES
  viewer,     \* who is signed in
  cookie,     \* the flow in the browser's cookie, 0 without one
  flow,       \* per flow, how far it has got
  visit,      \* per request of the callback, how far it has got
  connected   \* per user and connector, the flow whose token is stored, 0 without

flowVars == <<viewer, cookie, flow, visit, connected>>

Flows  == 1..MaxFlows
Visits == 1..MaxVisits

FlowRow ==
  [state  : {"idle", "starting", "consent", "over"},
   target : FlowTargets,
   user   : Viewers \cup {NoViewer},   \* who was signed in when it started
   code   : {"none", "issued", "redeemed"}]

VisitRow ==
  [state : {"idle", "arrived", "exchanging", "storing", "answering", "done"},
   flow  : 0..MaxFlows,     \* the flow its cookie carries
   url   : 0..MaxFlows,     \* the flow whose state, and code, its URL carries
   code  : BOOLEAN,         \* the URL carries a code, not an error
   user  : Viewers \cup {NoViewer},   \* whose session it carries
   after : SUBSET Visits,   \* the requests answered before it was sent
   spent : BOOLEAN]         \* it has sent the code to the token endpoint

NewVisit(f, withCode, state) ==
  [state |-> state, flow |-> cookie, url |-> f, code |-> withCode, user |-> viewer,
   after |-> {w \in Visits : visit[w].state = "done"}, spent |-> FALSE]

FlowInit ==
  /\ viewer \in Viewers
  /\ cookie = 0
  /\ flow = [f \in Flows |-> [state |-> "idle", target |-> CHOOSE t \in FlowTargets : TRUE,
                              user |-> NoViewer, code |-> "none"]]
  /\ visit = [v \in Visits |-> [state |-> "idle", flow |-> 0, url |-> 0, code |-> FALSE,
                                user |-> NoViewer, after |-> {}, spent |-> FALSE]]
  /\ connected = [u \in Viewers |-> [t \in FlowTargets |-> 0]]

-----------------------------------------------------------------------------
(* startOAuthConnect.                                                      *)

\* A signed-in user presses Connect on a connector with an endpoint.
StartConnect(f, t) ==
  /\ flow[f].state = "idle" /\ \A g \in Flows : g < f => flow[g].state # "idle"
  /\ viewer # NoViewer
  /\ flow' = [flow EXCEPT ![f].state = "starting", ![f].target = t, ![f].user = viewer]
  /\ UNCHANGED <<viewer, cookie, visit, connected>>

\* Discovery or registration fails, or nothing can be registered.
StartFails(f) ==
  /\ flow[f].state = "starting"
  /\ flow' = [flow EXCEPT ![f].state = "over"]
  /\ UNCHANGED <<viewer, cookie, visit, connected>>

\* The short path: the server grants a token for the client's own credentials,
\* and it is stored for the user whose session the request has.
ShortPath(f) ==
  /\ flow[f].state = "starting"
  /\ flow' = [flow EXCEPT ![f].state = "over"]
  /\ connected' = [connected EXCEPT ![flow[f].user][flow[f].target] = f]
  /\ UNCHANGED <<viewer, cookie, visit>>

\* writeFlowState and the redirect arrive together; an earlier flow is lost.
SentToConsent(f) ==
  /\ flow[f].state = "starting"
  /\ flow' = [flow EXCEPT ![f].state = "consent"]
  /\ cookie' = f
  /\ UNCHANGED <<viewer, visit, connected>>

-----------------------------------------------------------------------------
(* The browser, the authorization servers and the passing of time.         *)

\* The consent screen answers with a code, or with an error, and the browser
\* follows the redirect with the cookie it has now.
Visited(f, withCode) ==
  \E v \in Visits :
    /\ visit[v].state = "idle" /\ \A w \in Visits : w < v => visit[w].state # "idle"
    /\ visit' = [visit EXCEPT ![v] = NewVisit(f, withCode, "arrived")]

Consents(f) ==
  /\ flow[f].state = "consent"
  /\ \/ /\ flow' = [flow EXCEPT ![f].state = "over", ![f].code = "issued"]
        /\ Visited(f, TRUE)
     \/ /\ flow' = [flow EXCEPT ![f].state = "over"]
        /\ Visited(f, FALSE)
  /\ UNCHANGED <<viewer, cookie, connected>>

\* The user reloads the callback, or goes back to it.
Revisits(f) ==
  /\ \E v \in Visits : visit[v].state # "idle" /\ visit[v].url = f /\ visit[v].code
  /\ Visited(f, TRUE)
  /\ UNCHANGED <<viewer, cookie, flow, connected>>

\* Ten minutes are over.
CookieLapses ==
  /\ cookie # 0
  /\ cookie' = 0
  /\ UNCHANGED <<viewer, flow, visit, connected>>

SignsInAs(u) ==
  /\ viewer # u
  /\ viewer' = u
  /\ UNCHANGED <<cookie, flow, visit, connected>>

-----------------------------------------------------------------------------
(* GET /oauth/callback.                                                    *)

VisitAt(v, state) == [visit EXCEPT ![v].state = state]

StateMatches(v) == visit[v].url = visit[v].flow

\* A flow in the cookie, its own state in the URL, a code and somebody signed
\* in: anything else is answered with an error.
CallbackReads(v) ==
  LET good == visit[v].flow # 0 /\ visit[v].code /\ StateMatches(v) /\ visit[v].user # NoViewer IN
  /\ visit[v].state = "arrived"
  /\ visit' = [visit EXCEPT ![v].state = IF good THEN "exchanging" ELSE "answering", ![v].spent = good]
  /\ UNCHANGED <<viewer, cookie, flow, connected>>

\* exchangeCode: the server redeems a code of its own, for the flow it was
\* issued to, once.
Exchanged(v) ==
  LET f == visit[v].url IN
  /\ visit[v].state = "exchanging"
  /\ f = visit[v].flow /\ flow[f].code = "issued"
  /\ flow' = [flow EXCEPT ![f].code = "redeemed"]
  /\ visit' = VisitAt(v, "storing")
  /\ UNCHANGED <<viewer, cookie, connected>>

\* It refuses, or the answer is lost or unusable.
ExchangeFails(v) ==
  /\ visit[v].state = "exchanging"
  /\ flow' \in {flow} \cup {[flow EXCEPT ![f].code = "redeemed"] : f \in {visit[v].url} \cap {visit[v].flow}}
  /\ visit' = VisitAt(v, "answering")
  /\ UNCHANGED <<viewer, cookie, connected>>

\* upsert for the user whose session the callback has, under the connector the
\* cookie names; the mutation may also fail.
Stores(v) ==
  /\ visit[v].state = "storing"
  /\ visit' = VisitAt(v, "answering")
  /\ \/ UNCHANGED connected
     \/ connected' = [connected EXCEPT ![visit[v].user][flow[visit[v].flow].target] = visit[v].url]
  /\ UNCHANGED <<viewer, cookie, flow>>

\* Mutant of ClearedCookie: the flow is read and kept.
KeptCookie(c) == c

\* clearFlowState takes effect when the answer reaches the browser, on whatever
\* the cookie is by then.
ClearedCookie(c) == 0

CallbackAnswers(v) ==
  /\ visit[v].state = "answering"
  /\ visit' = VisitAt(v, "done")
  /\ cookie' = ClearedCookie(cookie)
  /\ UNCHANGED <<viewer, flow, connected>>

FlowNext ==
  \/ \E f \in Flows : \/ \E t \in FlowTargets : StartConnect(f, t)
                      \/ StartFails(f) \/ ShortPath(f) \/ SentToConsent(f) \/ Consents(f) \/ Revisits(f)
  \/ \E v \in Visits : CallbackReads(v) \/ Exchanged(v) \/ ExchangeFails(v) \/ Stores(v) \/ CallbackAnswers(v)
  \/ CookieLapses \/ \E u \in Viewers \cup {NoViewer} : SignsInAs(u)

FlowSpec == FlowInit /\ [][FlowNext]_flowVars

-----------------------------------------------------------------------------
\* Every variable has its type, and what is stored for a connector was granted
\* by that connector's server.
FlowTypeOK ==
  /\ viewer \in Viewers \cup {NoViewer}
  /\ cookie \in 0..MaxFlows
  /\ flow \in [Flows -> FlowRow]
  /\ visit \in [Visits -> VisitRow]
  /\ connected \in [Viewers -> [FlowTargets -> 0..MaxFlows]]
  /\ \A u \in Viewers, t \in FlowTargets :
       connected[u][t] # 0 => flow[connected[u][t]].target = t

\* "Read once, then gone: [...] a second visit to this URL must not find a live
\* flow to replay against" (oauth/callback/route.ts).  A code goes only to the
\* server that issued it, and of the requests that send it none was sent after
\* the answer to another: tabs, reloads and late answers never replay it.
CodeGoesHome ==
  \A v \in Visits : visit[v].spent =>
    /\ flow[visit[v].url].target = flow[visit[v].flow].target
    /\ \A w \in visit[v].after : ~(visit[w].spent /\ visit[w].url = visit[v].url)

=============================================================================
