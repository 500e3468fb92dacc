----------------------------- MODULE EndpointReview -----------------------------
(***************************************************************************)
(* The check that the remote connectors still are who was reviewed: for    *)
(* every manifest with a fixed endpoint it follows the chain from the      *)
(* endpoint's challenge over the metadata of the resource to those of the  *)
(* authorization server, asking only the URLs of the manifest's review and *)
(* comparing what each answer names with them (adapters/remote-mcp         *)
(* verify-endpoints.ts).  The first disagreement ends the whole run.       *)
(*                                                                         *)
(* The servers may answer anything, a different thing each time.           *)
(***************************************************************************)
EXTENDS Naturals, FiniteSets

CONSTANTS Manifests   \* a bound and an order: the manifests are 1..Manifests

ASSUME ReviewAssumption == Manifests \in Nat \ {0}

VARIABLES
  manifest,  \* the shipped manifests
  review,    \* where the run is with each
  heard,     \* ghost: what the servers of each said, as <<field, value>>
  exitCode   \* the run's: "none" while it runs

reviewVars == <<manifest, review, heard, exitCode>>

Shipped == 1..Manifests

\* The documents in the order they are fetched, and the fields read from each.
FieldsOf ==
  [challenge     |-> {"resource_metadata"},
   resource      |-> {"resource", "authorization_servers"},
   authorization |-> {"issuer", "authorization_endpoint", "token_endpoint", "registration_endpoint"}]

Documents == DOMAIN FieldsOf

\* endpoint, verification: the manifest has one; registration: its review names a
\* registration endpoint; fit: every reviewed URL passes parseProductionUrl.
Manifest == [endpoint : BOOLEAN, verification : {"none", "production", "other"}, registration : BOOLEAN, fit : BOOLEAN]

ReviewInit ==
  /\ manifest \in [Shipped -> Manifest]
  /\ review = [m \in Shipped |-> "todo"]
  /\ heard = [m \in Shipped |-> {}]
  /\ exitCode = "none"

-----------------------------------------------------------------------------
\* The loop reaches m: every manifest before it is through.
Reaches(m) == exitCode = "none" /\ \A q \in 1..m - 1 : review[q] \in {"skipped", "verified"}

Proceeds(m, next) == review' = [review EXCEPT ![m] = next] /\ UNCHANGED exitCode
ReviewFails(m) == review' = [review EXCEPT ![m] = "failed"] /\ exitCode' = "one"

\* verifyRemoteEndpoints, requireExpected, and the URLs of the review.
StartReview(m) ==
  /\ Reaches(m) /\ review[m] = "todo"
  /\ \/ ~manifest[m].endpoint /\ Proceeds(m, "skipped")
     \/ /\ manifest[m].endpoint
        /\ manifest[m].verification # "production" \/ ~manifest[m].fit
        /\ ReviewFails(m)
     \/ /\ manifest[m].endpoint /\ manifest[m].verification = "production" /\ manifest[m].fit
        /\ Proceeds(m, "challenge")
  /\ UNCHANGED <<manifest, heard>>

\* Mutant: the registration endpoint is taken as it comes.
ComparedUnregistered(m, document) == FieldsOf[document] \ {"registration_endpoint"}

\* The fields of a document that must name what was reviewed.
Compared(m, document) ==
  FieldsOf[document] \ (IF manifest[m].registration THEN {} ELSE {"registration_endpoint"})

After(document) == CASE document = "challenge" -> "resource" [] document = "resource" -> "authorization" [] OTHER -> "verified"

\* A field names the reviewed URL, another one, or none parseProductionUrl accepts.
DocumentAnswered(m) ==
  /\ Reaches(m) /\ review[m] \in Documents
  /\ \E said \in [FieldsOf[review[m]] -> {"reviewed", "another", "unfit"}] :
       /\ heard' = [heard EXCEPT ![m] = @ \cup {<<f, said[f]>> : f \in FieldsOf[review[m]]}]
       /\ IF \A f \in Compared(m, review[m]) : said[f] = "reviewed"
            THEN Proceeds(m, After(review[m])) ELSE ReviewFails(m)
  /\ UNCHANGED manifest

\* Unreachable, a redirect, the wrong status or type, too long, not an object.
NoAnswer(m) ==
  /\ Reaches(m) /\ review[m] \in Documents
  /\ ReviewFails(m)
  /\ UNCHANGED <<manifest, heard>>

\* main, when the loop is through.
ReviewEnds ==
  /\ exitCode = "none" /\ \A m \in Shipped : review[m] \in {"skipped", "verified"}
  /\ exitCode' = "zero"
  /\ UNCHANGED <<manifest, review, heard>>

ReviewNext == (\E m \in Shipped : StartReview(m) \/ DocumentAnswered(m) \/ NoAnswer(m)) \/ ReviewEnds

ReviewSpec == ReviewInit /\ [][ReviewNext]_reviewVars

-----------------------------------------------------------------------------
ReviewTypeOK ==
  /\ manifest \in [Shipped -> Manifest]
  /\ review \in [Shipped -> {"todo", "skipped", "verified", "failed"} \cup Documents]
  /\ heard \in [Shipped -> SUBSET ((UNION {FieldsOf[d] : d \in Documents}) \X {"reviewed", "another", "unfit"})]
  /\ exitCode \in {"none", "zero", "one"}

\* A run that reports success has heard, for every manifest with an endpoint, each
\* link of the reviewed chain and nothing else about it; and no server is asked for
\* a manifest whose own review is missing or unfit.
ReviewSound ==
  /\ exitCode = "zero" => \A m \in Shipped : manifest[m].endpoint =>
       /\ {"resource_metadata", "resource", "authorization_servers", "issuer", "authorization_endpoint", "token_endpoint"}
            \subseteq {p[1] : p \in heard[m]}
       /\ \A p \in heard[m] : p[2] = "reviewed" \/ (p[1] = "registration_endpoint" /\ ~manifest[m].registration)
  /\ \A m \in Shipped : heard[m] # {} => manifest[m].verification = "production" /\ manifest[m].fit

=============================================================================
