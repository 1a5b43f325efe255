---------------------------- MODULE GrantBinding ----------------------------
(***************************************************************************)
(* What a token says and what a service lets it authorise.  A client asks  *)
(* the issuer of a trust direction for a grant of one operation, naming it *)
(* field by field; the issuer copies the fields into the token's claims;   *)
(* the service that receives a token with a request verifies the token and *)
(* compares the claims with its route and with the operation it decoded.   *)
(* The issuer judges the fields it was asked for, the service executes     *)
(* what it decoded: nothing but these comparisons makes the two the same.  *)
(* Token IDs, times and the replay store are DurableVerifier's.            *)
(***************************************************************************)
EXTENDS GrantFields, FiniteSets, Naturals

CONSTANTS Direction,   \* trust directions: one issuer and one verifier each
          Key,         \* signing keys
          Operation,   \* operations a service may decode from a request
          Transport,   \* content type, raw body, method and resource of requests
          Value, none, \* contents of a field, and the zero value of an absent one
          Ask,         \* grants that clients ask for
          MaxAsks      \* bound: grants asked for

VARIABLES asked,     \* history: who was asked for what
          tokens,    \* signed tokens in circulation
          executed   \* history: operations that services let pass

vars == <<asked, tokens, executed>>

Kind == {"plan", "retain", "publish", "disclose", "launch",
         "started", "completed", "failed", "cancelled"}

\* The fields of the operation that Validate...GrantForRequest and
\* ValidateEventGrantForEvent compare with the claims.
Compared(kind) ==
  Identity \cup
  CASE kind = "plan"     -> Participant \cup Repository \cup Manifest
    [] kind = "retain"   -> Participant \cup Repository \cup Closure \cup Candidate
    [] kind = "publish"  -> Participant \cup Artifact \cup Disclosure
    [] kind = "disclose" -> Participant \cup Repository \cup Closure \cup Public \cup Artifact
    [] kind = "launch"   -> Execution
    [] OTHER             -> Execution \cup Instance

\* The one purpose each of those validators accepts; eventGrantPurpose for events.
PurposeOf(kind) ==
  CASE kind = "plan"     -> "manifest-closure-plan"
    [] kind = "retain"   -> "candidate-closure-validate-retain"
    [] kind = "publish"  -> "artifact-publish"
    [] kind = "disclose" -> "artifact-disclosure-verify"
    [] kind = "launch"   -> "contest-launch"
    [] kind = "started"  -> "contest-started-event"
    [] OTHER             -> "contest-result-event"

-----------------------------------------------------------------------------
Content == Value \cup {none}
Request == [purpose : Purpose, fields : [Field -> Content]]
Token == [issuer : Value, subject : Value, audience : Value, key : Key, request : Request]

\* A field an operation's type does not have is absent; all it has are set.
ASSUME BindingAssumption ==
  /\ none \notin Value
  /\ MaxAsks \in Nat
  /\ Direction \subseteq [issuer : Value, subject : Value, audience : Value, key : Key,
                          trusted : SUBSET Key, purposes : SUBSET Purpose]
  /\ Transport \subseteq [Route -> Value]
  /\ Ask \subseteq Request
  /\ \A o \in Operation : /\ o.kind \in Kind
                          /\ o.fields \in [Field -> Content]
                          /\ \A f \in Field : o.fields[f] \in Value <=> f \in Compared(o.kind)

\* Two directions that agree on issuer, subject and audience are one.
ASSUME DirectionsApart ==
  \A d, e \in Direction :
    d.issuer = e.issuer /\ d.subject = e.subject /\ d.audience = e.audience => d = e

\* NewExecutionEventGrantRequest, and its like for the other operations.
NewGrantRequest(o, t) ==
  [purpose |-> PurposeOf(o.kind),
   fields  |-> [f \in Field |-> IF f \in Route THEN t[f] ELSE o.fields[f]]]

\* ValidateOperationGrant, of a request and of the claims made of it.
WellFormed(request) ==
  \A f \in Field : request.fields[f] # none <=> f \in Required(request.purpose)

Init == asked = {} /\ tokens = {} /\ executed = {}

\* Faulty: the recipient is left to the caller to fill in.
IssueWithoutSubject(d, request) ==
  /\ Cardinality(asked) < MaxAsks
  /\ asked' = asked \cup {[direction |-> d, request |-> request]}
  /\ tokens' = tokens \cup
       {[issuer |-> d.issuer, subject |-> none, audience |-> d.audience,
         key |-> d.key, request |-> q] :
           q \in {r \in {request} : r.purpose \in d.purposes /\ WellFormed(r)}}
  /\ UNCHANGED executed

\* IssueOperationGrant: a refused request leaves no token.
IssueOperationGrant(d, request) ==
  /\ Cardinality(asked) < MaxAsks
  /\ asked' = asked \cup {[direction |-> d, request |-> request]}
  /\ tokens' = tokens \cup
       {[issuer |-> d.issuer, subject |-> d.subject, audience |-> d.audience,
         key |-> d.key, request |-> q] :
           q \in {r \in {request} : r.purpose \in d.purposes /\ WellFormed(r)}}
  /\ UNCHANGED executed

\* VerifyOperationGrant: key, issuer, audience, claims, purpose.
VerifyOperationGrant(d, token) ==
  /\ token.key \in d.trusted \cup {d.key}
  /\ token.issuer = d.issuer /\ token.audience = d.audience
  /\ WellFormed(token.request)
  /\ token.request.purpose \in d.purposes

\* Faulty: the verifier is trusted to have checked who the token is for.
RouteMatchesAnySubject(d, token, o, t) ==
  /\ PurposeOf(o.kind) \in d.purposes
  /\ token.issuer = d.issuer /\ token.audience = d.audience
  /\ token.request.purpose = PurposeOf(o.kind)
  /\ \A f \in Route : token.request.fields[f] = t[f]

\* RouteBinding of the direction and the request received, then validateRoute.
RouteMatches(d, token, o, t) ==
  /\ PurposeOf(o.kind) \in d.purposes
  /\ token.issuer = d.issuer /\ token.subject = d.subject /\ token.audience = d.audience
  /\ token.request.purpose = PurposeOf(o.kind)
  /\ \A f \in Route : token.request.fields[f] = t[f]

\* Validate...GrantForRequest: claims against route and operation.
Authorizes(d, token, o, t) ==
  /\ WellFormed(token.request)
  /\ RouteMatches(d, token, o, t)
  /\ \A f \in Compared(o.kind) : token.request.fields[f] = o.fields[f]

\* A service receives a token with a request and passes the operation on.
Serve(d, token, o, t) ==
  /\ VerifyOperationGrant(d, token)
  /\ Authorizes(d, token, o, t)
  /\ executed' = executed \cup {[direction |-> d, operation |-> o, transport |-> t]}
  /\ UNCHANGED <<asked, tokens>>

Next == \E d \in Direction :
          \/ \E request \in Ask : IssueOperationGrant(d, request)
          \/ \E token \in tokens, o \in Operation, t \in Transport : Serve(d, token, o, t)

Spec == Init /\ [][Next]_vars

-----------------------------------------------------------------------------
TypeOK ==
  /\ asked \subseteq [direction : Direction, request : Request]
  /\ tokens \subseteq Token
  /\ executed \subseteq [direction : Direction, operation : Operation, transport : Transport]

\* What a service lets pass is what the issuer of its own direction was asked
\* for, in every field, though the client may have named other fields to the
\* issuer than its body holds, or brought the token to another service.
ExecutedAsAsked ==
  \A x \in executed :
    [direction |-> x.direction, request |-> NewGrantRequest(x.operation, x.transport)] \in asked

\* The gates do not lock out what they are for: who asks a direction for exactly
\* an operation it serves gets a token, and the service accepts it.
HonestAsksServed ==
  \A d \in Direction, o \in Operation, t \in Transport :
    /\ [direction |-> d, request |-> NewGrantRequest(o, t)] \in asked
    /\ PurposeOf(o.kind) \in d.purposes
    => \E token \in tokens : VerifyOperationGrant(d, token) /\ Authorizes(d, token, o, t)
=============================================================================
