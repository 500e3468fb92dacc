------------------------------ MODULE ApiAccess ------------------------------
(***************************************************************************)
(* What lets an AI client call the gateway: the dynamically registered     *)
(* OAuth clients, their authorization codes and the access tokens minted   *)
(* for them (convex service/oauth.ts, features/oauth/mutations.ts), which  *)
(* share the table of API keys with the keys a user issues by hand         *)
(* (features/api_keys/mutations.ts), and the hourly sweep of what lapsed   *)
(* (maintenance/oauth_sweep.ts).                                           *)
(*                                                                         *)
(* Every mutation is one transaction.  A client is its place in the order  *)
(* of registration, a code its place in the order of consent, a key its    *)
(* place in the table.  Redirect URI, PKCE verifier, resource and issuer   *)
(* are compared with what the code was issued for: a presentation is right *)
(* when all of them match, wrong when one does not, malformed when the     *)
(* verifier cannot be one.                                                 *)
(***************************************************************************)
EXTENDS Naturals, Sequences, FiniteSets

CONSTANTS
  ApiUsers,        \* users of the dashboard
  MaxApiClients,   \* bound: registrations
  MaxCodes,        \* bound: consents
  MaxKeys,         \* bound: rows of the apiKeys table
  MaxScanned,      \* MAX_OAUTH_TOKENS_SCANNED
  MaxActiveKeys,   \* MAX_ACTIVE_API_KEYS_PER_USER
  SweepBatch       \* OAUTH_SWEEP_BATCH

ASSUME ApiAccessAssumption ==
  /\ ApiUsers # {}
  /\ {MaxApiClients, MaxCodes, MaxKeys, MaxScanned, MaxActiveKeys, SweepBatch} \subseteq Nat \ {0}

VARIABLES
  client,    \* the oauthClients table
  code,      \* the oauthCodes table, and what became of the codes that left it
  keys       \* the apiKeys table, oldest row first

apiVars == <<client, code, keys>>

ApiClients == 1..MaxApiClients
Codes      == 1..MaxCodes
Manual     == 0        \* the clientId a hand-issued key does not have

ClientRow ==
  [row  : {"unregistered", "registered", "swept"},
   used : BOOLEAN,     \* lastUsedAt is set
   idle : BOOLEAN]     \* created before the sweep's cut-off

CodeRow ==
  [row    : {"unissued", "live", "deleted"},
   client : ApiClients,
   user   : ApiUsers,
   lapsed : BOOLEAN,   \* expiresAt is past
   first  : {"none", "right", "wrong"}]  \* its first well-formed presentation

KeyRow ==
  [user   : ApiUsers,
   client : ApiClients \cup {Manual},
   active : BOOLEAN,   \* status; an expired token keeps it
   code   : Codes \cup {0}]

ApiInit ==
  /\ client = [c \in ApiClients |-> [row |-> "unregistered", used |-> FALSE, idle |-> FALSE]]
  /\ code = [k \in Codes |-> [row |-> "unissued", client |-> 1, user |-> CHOOSE u \in ApiUsers : TRUE,
                              lapsed |-> FALSE, first |-> "none"]]
  /\ keys = <<>>

-----------------------------------------------------------------------------
Registered(c) == client[c].row = "registered"

KeysOf(u) == {i \in DOMAIN keys : keys[i].user = u}

\* The first n members of a set of numbers, and the last n.
Earliest(S, n) == {i \in S : Cardinality({j \in S : j < i}) < n}
Latest(S, n)   == {i \in S : Cardinality({j \in S : j > i}) < n}

\* registerClient: anyone may; rows are ordered by createdAt.
RegisterClient(c) ==
  /\ client[c].row = "unregistered"
  /\ \A d \in ApiClients : d < c => client[d].row # "unregistered"
  /\ client' = [client EXCEPT ![c].row = "registered"]
  /\ UNCHANGED <<code, keys>>

\* approve: the signed-in user consents to a client that is still registered.
Approve(u, c) ==
  /\ Registered(c)
  /\ \E k \in Codes :
       /\ code[k].row = "unissued" /\ \A j \in Codes : j < k => code[j].row # "unissued"
       /\ code' = [code EXCEPT ![k].row = "live", ![k].client = c, ![k].user = u]
  /\ UNCHANGED <<client, keys>>

\* revokePriorGrants: of the user's newest rows, the active ones of the client.
PriorGrants(u, c) ==
  {i \in Latest(KeysOf(u), MaxScanned) : keys[i].client = c /\ keys[i].active}

\* issueAccessToken: prior grants are revoked, then the row is inserted.
WithToken(k) ==
  LET prior == PriorGrants(code[k].user, code[k].client) IN
  Append([i \in DOMAIN keys |-> IF i \in prior THEN [keys[i] EXCEPT !.active = FALSE] ELSE keys[i]],
         [user |-> code[k].user, client |-> code[k].client, active |-> TRUE, code |-> k])

\* Mutant of Presented: a refusal is thrown, and rolls the delete back.
PresentedRollback(k, how, accepted) ==
  [code EXCEPT ![k].row = IF accepted THEN "deleted" ELSE @,
               ![k].first = IF @ = "none" THEN how ELSE @]

\* redeemCode deletes the row first, and a refusal is returned, not thrown, so
\* that the delete is committed with it.
Presented(k, how, accepted) ==
  [code EXCEPT ![k].row = "deleted", ![k].first = IF @ = "none" THEN how ELSE @]

\* redeemCode of a code somebody holds: its client, or whoever intercepted it.
\* A malformed verifier and a code that is not in the table change nothing.
Redeem(k, how) ==
  LET c == code[k].client
      accepted == how = "right" /\ ~code[k].lapsed /\ Registered(c) IN
  /\ code[k].row = "live"
  /\ code' = Presented(k, how, accepted)
  /\ IF accepted
       THEN /\ Len(keys) < MaxKeys
            /\ client' = [client EXCEPT ![c].used = TRUE]
            /\ keys' = WithToken(k)
       ELSE UNCHANGED <<client, keys>>

\* issue, under the cap on active rows; an access token counts as one.
IssueKey(u) ==
  /\ Cardinality({i \in KeysOf(u) : keys[i].active}) < MaxActiveKeys
  /\ Len(keys) < MaxKeys
  /\ keys' = Append(keys, [user |-> u, client |-> Manual, active |-> TRUE, code |-> 0])
  /\ UNCHANGED <<client, code>>

\* revoke: terminal and idempotent; only the owner's own row is found.
RevokeKey(u, i) ==
  /\ i \in KeysOf(u) /\ keys[i].active
  /\ keys' = [keys EXCEPT ![i].active = FALSE]
  /\ UNCHANGED <<client, code>>

\* The two minutes of a code are over; codes lapse in the order of consent.
CodeLapses(k) ==
  /\ code[k].row = "live" /\ ~code[k].lapsed
  /\ \A j \in Codes : j < k /\ code[j].row = "live" => code[j].lapsed
  /\ code' = [code EXCEPT ![k].lapsed = TRUE]
  /\ UNCHANGED <<client, keys>>

\* A client crosses the cut-off of thirty days, oldest first.
ClientIdles(c) ==
  /\ Registered(c) /\ ~client[c].idle
  /\ \A d \in ApiClients : d < c /\ Registered(d) => client[d].idle
  /\ client' = [client EXCEPT ![c].idle = TRUE]
  /\ UNCHANGED <<code, keys>>

Unused(c) == ~client[c].used

\* sweep: a batch of lapsed codes, and of the oldest clients past the cut-off
\* those that never completed an exchange; used ones take their place in it.
Sweep ==
  LET codes == Earliest({k \in Codes : code[k].row = "live" /\ code[k].lapsed}, SweepBatch)
      stale == {c \in Earliest({c \in ApiClients : Registered(c) /\ client[c].idle}, SweepBatch) : Unused(c)} IN
  /\ codes # {} \/ stale # {}
  /\ code' = [k \in Codes |-> IF k \in codes THEN [code[k] EXCEPT !.row = "deleted"] ELSE code[k]]
  /\ client' = [c \in ApiClients |-> IF c \in stale THEN [client[c] EXCEPT !.row = "swept"] ELSE client[c]]
  /\ UNCHANGED keys

ApiNext ==
  \/ \E c \in ApiClients : RegisterClient(c) \/ ClientIdles(c) \/ \E u \in ApiUsers : Approve(u, c)
  \/ \E k \in Codes : CodeLapses(k) \/ \E how \in {"right", "wrong"} : Redeem(k, how)
  \/ \E u \in ApiUsers : IssueKey(u) \/ \E i \in DOMAIN keys : RevokeKey(u, i)
  \/ Sweep

ApiSpec == ApiInit /\ [][ApiNext]_apiVars

-----------------------------------------------------------------------------
\* Every variable has its type.
ApiTypeOK ==
  /\ client \in [ApiClients -> ClientRow]
  /\ code \in [Codes -> CodeRow]
  /\ keys \in Seq(KeyRow) /\ Len(keys) <= MaxKeys

Token(i) == keys[i].client # Manual

\* "One live token per (user, client)" (service/oauth.ts), and exactly how far
\* that goes: an earlier token is still active only if the user has had so many
\* newer rows that the scan for it ended before it.
OneLiveGrant ==
  \A i, j \in DOMAIN keys :
    i < j /\ Token(i) /\ keys[i].active /\ keys[i].client = keys[j].client /\ keys[i].user = keys[j].user
      => Cardinality({m \in KeysOf(keys[i].user) : i < m /\ m < j}) >= MaxScanned

\* A code is redeemed once, by its first well-formed presentation, and only if
\* that was right: a wrong guess at what belongs to an intercepted code spends
\* it, and a replay finds nothing.
FirstTryOnly ==
  \A i \in DOMAIN keys : Token(i) =>
    /\ code[keys[i].code].first = "right"
    /\ \A j \in DOMAIN keys : keys[j].code = keys[i].code => j = i

\* A client somebody connected through stays registered, so that reconnecting
\* keeps working for as long as they have a token to replace.
UsedClientsStay ==
  \A i \in DOMAIN keys : Token(i) => Registered(keys[i].client)

\* What a grant is worth: one live token, of one right presentation, for as
\* long as its client is registered.
GrantsSound == OneLiveGrant /\ FirstTryOnly /\ UsedClientsStay

=============================================================================
