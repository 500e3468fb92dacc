------------------------------ MODULE Dashboard ------------------------------
(***************************************************************************)
(* The forms of the dashboard: what a person clicks in a tab, what the     *)
(* control plane makes of it meanwhile, and what the tab says when the     *)
(* answer arrives (apps/web: the dialogs, tables and forms of app/,        *)
(* components/ and slices/devices/).                                       *)
(*                                                                         *)
(* A behaviour is about one tab on one screen; the other tabs of its user  *)
(* change the same rows.  The Convex client resends a mutation until it is *)
(* answered, so that a mutation never fails for want of the network; a     *)
(* sign-in is sent once and its answer can be lost, and so is the mutation *)
(* a server action makes on its way to store a connection.                 *)
(* A live query delivers at any time after the change.                     *)
(***************************************************************************)
EXTENDS Naturals, Sequences

CONSTANTS
  Things,       \* the rows of the screen: devices, keys, connectors, rules, requests
  Nothing,
  MaxClicks,    \* bound: clicks that send something
  MaxElsewhere, \* bound: changes made in other tabs
  MaxMounts     \* bound: times the tab mounts its page

ASSUME DashboardAssumption ==
  /\ Things # {} /\ Nothing \notin Things
  /\ {MaxClicks, MaxElsewhere} \subseteq Nat /\ MaxMounts \in Nat \ {0}

VARIABLES
  screen,       \* what the tab shows
  stored,       \* the control plane's rows
  seen,         \* the rows the live query has delivered
  tab,          \* the state its components hold
  click,        \* what was sent, in the order it was clicked
  elsewhere     \* how many of the MaxElsewhere have happened

dashboardVars == <<screen, stored, seen, tab, click, elsewhere>>

\* The mutations and actions of each screen and, for each, the rows it accepts
\* and what becomes of them.
Verbs ==
  [devices     |-> {"revoke", "forget"},
   keys        |-> {"issue", "revokeKey"},
   connections |-> {"connect", "save", "remove"},
   permissions |-> {"allow", "deny"},
   approvals   |-> {"approve", "refuse"},
   pair        |-> {"pair"},
   consent     |-> {"grant"},
   entry       |-> {"password", "google"}]

Turns ==
  [revoke    |-> [online |-> "revoked", revoked |-> "revoked"],
   forget    |-> [revoked |-> "gone"],
   issue     |-> [unissued |-> "live"],
   revokeKey |-> [live |-> "ended", ended |-> "ended"],
   connect   |-> [absent |-> "connected", connected |-> "connected"],
   save      |-> [absent |-> "connected", connected |-> "connected"],
   remove    |-> [absent |-> "absent", connected |-> "absent"],
   allow     |-> [allowed |-> "allowed", denied |-> "allowed"],
   deny      |-> [allowed |-> "denied", denied |-> "denied"],
   approve   |-> [pending |-> "approved"],
   refuse    |-> [pending |-> "refused"],
   pair      |-> [pending |-> "approved"],
   grant     |-> [asked |-> "asked"],
   password  |-> [asked |-> "asked"],
   google    |-> [asked |-> "asked"]]

FirstRow ==
  [devices |-> "online", keys |-> "unissued", connections |-> "absent", permissions |-> "allowed",
   approvals |-> "pending", pair |-> "pending", consent |-> "asked", entry |-> "asked"]

\* The row a confirmation is offered for, and those its card is gone with.
Offered  == [revoke |-> "online", forget |-> "revoked", revokeKey |-> "live", remove |-> "connected"]
CardGone == [revoke |-> {"gone"}, forget |-> {"gone"}, revokeKey |-> {"ended"}, remove |-> {"absent"}]

Dialogs   == DOMAIN Offered
SignIns   == {"password", "google"}
Once      == SignIns \cup {"connect", "save"}   \* sent once, by the form or by its server action
Leaving   == {"grant"} \cup SignIns             \* success goes on to another page
FormTells == {"issue", "connect", "save"}       \* success is shown by the form
Rows      == UNION {DOMAIN Turns[v] \cup {Turns[v][r] : r \in DOMAIN Turns[v]} : v \in DOMAIN Turns}

Click ==
  [verb  : DOMAIN Turns, on : Things, mount : 1..MaxMounts,
   phase : {"sent", "committed", "refused", "settled", "left"},
   heard : {"form", "page", "nobody"},        \* what is left of the tab to hear the answer
   took  : BOOLEAN,                           \* it changed the control plane
   told  : {"nothing", "success", "failure"}]

TabState ==
  [dialog : (Dialogs \X Things) \cup {<<>>},  \* the modal dialog that is open
   panel  : Things \cup {Nothing},            \* the connector picked, or the flow of the sign-in form
   mount  : 1..MaxMounts,
   banner : Things \cup {Nothing},            \* the connector announced as connected, the key on show
   handed : SUBSET {"code", "denied"}]        \* what the application that asked was sent

FreshTab(mount) ==
  [dialog |-> <<>>, panel |-> IF screen = "entry" THEN CHOOSE x \in Things : TRUE ELSE Nothing,
   mount |-> mount, banner |-> Nothing, handed |-> {}]

DashboardInit ==
  /\ screen \in DOMAIN Verbs
  /\ stored = [x \in Things |-> FirstRow[screen]]
  /\ seen = stored
  /\ tab = FreshTab(1)
  /\ click = <<>>
  /\ elsewhere = 0

-----------------------------------------------------------------------------
Clicks == DOMAIN click

\* The component that sent it is still mounted, and the answer has not come.
Mounted(n)  == click[n].heard = "form"
Awaited(n) == click[n].phase \in {"sent", "committed", "refused"}

\* `pending` and `busy`: a confirmation and the forms of the panel each have their
\* own, the buttons of a table or a page share one.  A page that is leaving stays
\* pending.
Pending(v, x) ==
  \E n \in Clicks :
    /\ Mounted(n) /\ click[n].phase # "settled"
    /\ IF v \in Dialogs \cup {"connect", "save"} THEN click[n].verb = v /\ click[n].on = x
                                                 ELSE click[n].verb \notin Dialogs

Send(v, x) ==
  /\ Len(click) < MaxClicks
  /\ click' = Append(click, [verb |-> v, on |-> x, mount |-> tab.mount, phase |-> "sent",
                             heard |-> "form", took |-> FALSE, told |-> "nothing"])

\* The components with these forms are gone.
Unmounted(verbs, left) ==
  [n \in Clicks |-> IF click[n].verb \in verbs /\ Mounted(n)
                    THEN [click[n] EXCEPT !.heard = left] ELSE click[n]]

\* A button of the page: dead under a modal dialog and while its form is pending.
Press(v, x) ==
  /\ v \in Verbs[screen]
  /\ tab.dialog = <<>> /\ ~Pending(v, x)
  /\ Send(v, x)
  /\ UNCHANGED <<screen, stored, seen, tab, elsewhere>>

-----------------------------------------------------------------------------
(* Confirmations: open, confirm, and the three ways out the user has: Cancel, *)
(* Esc and a click on the backdrop, none of them while it is pending.         *)

Shows(dialog) ==
  /\ tab' = [tab EXCEPT !.dialog = dialog]
  /\ UNCHANGED <<screen, stored, seen, click, elsewhere>>

OpenDialog(v, x) ==
  v \in Verbs[screen] /\ tab.dialog = <<>> /\ seen[x] = Offered[v] /\ Shows(<<v, x>>)

Confirm(v, x) ==
  /\ tab.dialog = <<v, x>> /\ ~Pending(v, x)
  /\ Send(v, x)
  /\ UNCHANGED <<screen, stored, seen, tab, elsewhere>>

Dismiss(v, x) == tab.dialog = <<v, x>> /\ ~Pending(v, x) /\ Shows(<<>>)

Confirmation(v, x) == OpenDialog(v, x) \/ Confirm(v, x) \/ Dismiss(v, x)

RevokeDeviceDialog(x)     == Confirmation("revoke", x)
ForgetDeviceDialog(x)     == Confirmation("forget", x)
RevokeApiKeyDialog(x)     == Confirmation("revokeKey", x)
RemoveConnectionDialog(x) == Confirmation("remove", x)

-----------------------------------------------------------------------------
(* Tables and pages with buttons of their own. *)

PermissionsTable(x) == \E v \in {"allow", "deny"} : Press(v, x)
ApprovalsTable(x)   == seen[x] = "pending" /\ \E v \in {"approve", "refuse"} : Press(v, x)
PairApproval(x)     == seen[x] = "pending" /\ Press("pair", x)

\* The control plane draws an id no other key has.
CreateApiKeyForm(x) ==
  stored[x] = "unissued" /\ (\A n \in Clicks : click[n].verb = "issue" => click[n].on # x) /\ Press("issue", x)

\* The new key is on show until it is dismissed or another is issued.
DismissKey ==
  /\ screen = "keys" /\ tab.banner # Nothing /\ tab.dialog = <<>>
  /\ tab' = [tab EXCEPT !.banner = Nothing]
  /\ UNCHANGED <<screen, stored, seen, click, elsewhere>>

\* Cancel is not held back by an approval under way.
AuthorizeConsent(x) ==
  \/ Press("grant", x)
  \/ /\ screen = "consent"
     /\ tab' = [tab EXCEPT !.handed = @ \cup {"denied"}]
     /\ UNCHANGED <<screen, stored, seen, click, elsewhere>>

\* Two ways to sign in, and the switch between the two flows of one of them.
SignInForm(x) ==
  \/ x = tab.panel /\ \E v \in SignIns : Press(v, x)
  \/ /\ screen = "entry" /\ x # tab.panel /\ ~Pending("password", x)
     /\ tab' = [tab EXCEPT !.panel = x]
     /\ UNCHANGED <<screen, stored, seen, click, elsewhere>>

-----------------------------------------------------------------------------
(* The connect panel, mounted anew for every connector that is picked. *)

\* Mutant: the panel is not keyed by its connector and lives on.
RemountKept(x) == tab' = [tab EXCEPT !.panel = x] /\ UNCHANGED click

Remount(x) ==
  /\ tab' = [tab EXCEPT !.panel = x, !.banner = Nothing]
  /\ click' = Unmounted({"connect", "save"}, "nobody")

PickConnector(x) ==
  /\ screen = "connections" /\ tab.dialog = <<>> /\ tab.panel # x
  /\ Remount(x)
  /\ UNCHANGED <<screen, stored, seen, elsewhere>>

ConnectPanel(x)   == tab.panel = x /\ Press("connect", x)
ConnectKeyForm(x) == tab.panel = x /\ Press("save", x)

-----------------------------------------------------------------------------
(* The control plane, and what the tab does with its answer. *)

Commit(n) ==
  /\ click[n].phase = "sent" /\ stored[click[n].on] \in DOMAIN Turns[click[n].verb]
  /\ stored' = [stored EXCEPT ![click[n].on] = Turns[click[n].verb][@]]
  /\ click' = [click EXCEPT ![n].phase = "committed", ![n].took = TRUE]
  /\ UNCHANGED <<screen, seen, tab, elsewhere>>

\* The row is not in that state any more, the session has ended, a limit is
\* reached, the input or the upstream is no good.
TurnDown(n) ==
  /\ click[n].phase = "sent"
  /\ click' = [click EXCEPT ![n].phase = "refused"]
  /\ UNCHANGED <<screen, stored, seen, tab, elsewhere>>

\* The same screen in another tab or another browser.
Elsewhere(v, x) ==
  /\ elsewhere < MaxElsewhere
  /\ v \in Verbs[screen] /\ stored[x] \in DOMAIN Turns[v] /\ Turns[v][stored[x]] # stored[x]
  /\ stored' = [stored EXCEPT ![x] = Turns[v][@]]
  /\ elsewhere' = elsewhere + 1
  /\ UNCHANGED <<screen, seen, tab, click>>

\* The panel calls its connector connected while the last answer of either form does.
StillConnected(n) ==
  \E m \in Clicks :
    /\ Mounted(m) /\ click[m].told = "success" /\ click[m].verb \in {"connect", "save"} \ {click[n].verb}
    /\ \A k \in Clicks : k > m /\ Mounted(k) /\ click[k].verb = click[m].verb => click[k].told # "failure"

\* A toast, or the alert of the form, and the dialog closes on success.
Toast(n, tone) ==
  /\ click' = [click EXCEPT ![n].phase = "settled", ![n].told = tone]
  /\ tab' = [tab EXCEPT
       !.dialog = IF tone = "success" /\ Mounted(n) /\ @ = <<click[n].verb, click[n].on>> THEN <<>> ELSE @,
       !.banner = IF click[n].verb \in {"connect", "save"} /\ ~StillConnected(n) THEN Nothing ELSE @]

\* A grant hands its code to the application and a sign-in goes on to the next
\* page: both stay pending while the page unloads.
LeavePage(n) ==
  /\ click' = [click EXCEPT ![n].phase = "left"]
  /\ tab' = [tab EXCEPT !.handed = IF click[n].verb = "grant" THEN @ \cup {"code"} ELSE @]

\* The panel names the connector it shows now, the key form hands on its key.
Announce(n) ==
  /\ click' = [click EXCEPT ![n].phase = "settled", ![n].told = "success"]
  /\ tab' = [tab EXCEPT !.banner = IF screen = "connections" THEN tab.panel ELSE click[n].on]

\* A hook's toast outlives the card of its dialog; the dialog it closes is the one
\* it was sent from.
Heard(n) ==
  /\ click[n].phase \in {"committed", "refused"} /\ click[n].heard # "nobody"
  /\ \/ click[n].phase = "refused" /\ Toast(n, "failure")
     \/ click[n].phase = "committed" /\ click[n].verb \in Leaving /\ LeavePage(n)
     \/ click[n].phase = "committed" /\ click[n].verb \in FormTells /\ Announce(n)
     \/ click[n].phase = "committed" /\ click[n].verb \notin Leaving \cup FormTells /\ Toast(n, "success")
  /\ UNCHANGED <<screen, stored, seen, elsewhere>>

\* A sign-in whose answer is lost fails in the tab whatever the server did, and so
\* does a server action that gets no answer from the control plane.
AnswerLost(n) ==
  /\ Awaited(n) /\ Mounted(n) /\ click[n].verb \in Once
  /\ Toast(n, "failure")
  /\ UNCHANGED <<screen, stored, seen, elsewhere>>

\* usePreloadedQuery: a dialog goes with the card that held it.
LiveQuery ==
  LET gone == {v \in Dialogs : tab.dialog # <<>> /\ tab.dialog[1] = v /\ stored[tab.dialog[2]] \in CardGone[v]} IN
    /\ seen # stored
    /\ seen' = stored
    /\ tab' = [tab EXCEPT !.dialog = IF gone # {} THEN <<>> ELSE @]
    /\ click' = Unmounted(gone, "page")
    /\ UNCHANGED <<screen, stored, elsewhere>>

\* The page is left (by the user, by the redirect to a provider, for the error page
\* of a server action that failed) and opened again; what was sent goes on.
Reload ==
  /\ tab.mount < MaxMounts
  /\ tab' = FreshTab(tab.mount + 1)
  /\ seen' = stored
  /\ click' = [n \in Clicks |-> [click[n] EXCEPT !.heard = "nobody"]]
  /\ UNCHANGED <<screen, stored, elsewhere>>

DashboardNext ==
  \/ \E x \in Things :
       \/ RevokeDeviceDialog(x) \/ ForgetDeviceDialog(x) \/ RevokeApiKeyDialog(x)
       \/ RemoveConnectionDialog(x) \/ PermissionsTable(x) \/ ApprovalsTable(x)
       \/ PairApproval(x) \/ CreateApiKeyForm(x) \/ AuthorizeConsent(x)
       \/ SignInForm(x) \/ PickConnector(x) \/ ConnectPanel(x) \/ ConnectKeyForm(x)
       \/ \E v \in DOMAIN Turns : Elsewhere(v, x)
  \/ \E n \in Clicks : Commit(n) \/ TurnDown(n) \/ Heard(n) \/ AnswerLost(n)
  \/ DismissKey \/ LiveQuery \/ Reload

DashboardSpec == DashboardInit /\ [][DashboardNext]_dashboardVars

-----------------------------------------------------------------------------
DashboardTypeOK ==
  /\ screen \in DOMAIN Verbs
  /\ {stored, seen} \subseteq [Things -> Rows]
  /\ tab \in TabState
  /\ click \in Seq(Click) /\ Len(click) <= MaxClicks
  /\ elsewhere \in 0..MaxElsewhere

\* What the tab holds on screen is true of the control plane: a connector it
\* announces as connected and a key it shows came of a click of this tab that took,
\* and the panel of another connector says nothing of it (connections-view.tsx
\* remounts the panel for every connector).
BannerIsEarned ==
  tab.banner # Nothing => \E n \in Clicks : click[n].on = tab.banner /\ click[n].took

\* A confirmation cannot disappear before the user learns whether it landed, unless
\* its card did: the escape hatches are closed while it is under way
\* (revoke-device-dialog.tsx and the three like it).
StaysForTheOutcome ==
  \A n \in Clicks : Awaited(n) /\ Mounted(n) /\ click[n].verb \in Dialogs =>
    tab.dialog = <<click[n].verb, click[n].on>>

\* One page grants at most once however often it is clicked (consent.tsx), and no
\* account is made under a form that reads otherwise (sign-in-form.tsx).
GrantsOnce ==
  \A m, n \in {k \in Clicks : click[k].verb = "grant" /\ click[k].took} :
    click[m].mount = click[n].mount => m = n

SubmitsWhatItShows ==
  \A n \in Clicks : Awaited(n) /\ Mounted(n) /\ screen = "entry" => click[n].on = tab.panel

\* No mutation is reported otherwise than it went, whatever other tabs did, and what
\* is sent only once is never reported done when it was not.
ToldTheTruth ==
  \A n \in Clicks :
    /\ click[n].told = "success" => click[n].took
    /\ click[n].told = "failure" /\ click[n].verb \notin Once => ~click[n].took

\* The five together: what a tab says of a click is what became of it.
DashboardSound == BannerIsEarned /\ StaysForTheOutcome /\ GrantsOnce /\ SubmitsWhatItShows /\ ToldTheTruth

=============================================================================
