--------------------------- MODULE SourceArtifacts ---------------------------
(***************************************************************************)
(* The provider's side of source onboarding: plan a manifest's closure,    *)
(* retain the candidate files it names, verify that the public copy of the *)
(* files is the retained one, publish.  The four stages share one command  *)
(* ledger.  A request stands for its whole payload, so equal requests are  *)
(* equal digests; a plan is its own ID and digest, being derived from the  *)
(* request that asked for it.  A receipt of retention is named for the     *)
(* participant version, and a later retention of that version takes over   *)
(* the name.                                                               *)
(***************************************************************************)
CONSTANTS Request,           \* requests of the four stages
          Granted,           \* those the provider's issuer gives tokens for
          PlanID(_),         \* ClosurePlanID the provider gives a plan
          ArtifactDigest(_)  \* canonical digest the provider gives retained bytes

VARIABLES plans,      \* plansByID
          commands,   \* command ledger: the request that claimed each command
          receipts,   \* receipts by command: what each stage stored for its request
          retained,   \* retained artifacts by receipt ID
          released    \* history: what bytes each publication made public

vars == <<plans, commands, receipts, retained, released>>

Op == {"plan", "retain", "disclose", "publish"}
Stage(op) == {r \in Request : r.op = op}

ManifestClosurePlanRequest == Stage("plan")
CandidateClosureRetentionRequest == Stage("retain")
ArtifactDisclosureVerificationRequest == Stage("disclose")
ArtifactPublicationRequest == Stage("publish")

\* Publications and disclosures name the records they rest on by ID and digest.
ASSUME RequestAssumption ==
  /\ Granted \subseteq Request
  /\ \A r \in Request : r.op \in Op
  /\ \A r \in CandidateClosureRetentionRequest \cup ArtifactDisclosureVerificationRequest :
       r.plan.op = "plan"
  /\ \A r \in ArtifactPublicationRequest : r.disclosure.op = "disclose"

Init == /\ plans = {}
        /\ commands = {}
        /\ receipts = {}
        /\ retained = {}
        /\ released = {}

-----------------------------------------------------------------------------
\* The grant is for this operation and no other; the input is the one the
\* request digests.
Bound(grant, r) == grant = r /\ r.intact

\* ValidateCandidateClosureInput and ValidateArtifactDisclosureInput against a plan.
FollowsPlan(r, plan) == r.plan = plan /\ r.version = plan.version

Artifact(version) == {a \in retained : a.version = version}

(***************************************************************************)
(* What a stage requires before it looks into the command ledger: beside   *)
(* the grant, the plan or the retained artifact the request names.         *)
(***************************************************************************)
Admissible(grant, r) ==
  /\ Bound(grant, r)
  /\ r.op = "retain" => \E plan \in plans : PlanID(plan) = PlanID(r.plan) /\ FollowsPlan(r, plan)
  /\ r.op = "disclose" =>
       \E a \in Artifact(r.version) : FollowsPlan(r, a.plan) /\ a.digest = r.artifact

\* Faulty: any disclosure of the artifact will do, a mismatched one too.
PrerequisitesAnyVerdict(r) ==
  \E a \in Artifact(r.version), d \in receipts :
    /\ d.request = r.disclosure
    /\ d.request.version = r.version
    /\ d.request.artifact = r.artifact
    /\ a.digest = r.artifact
    /\ d.request.plan = a.plan

\* Faulty: the disclosure may be one of another version, under another plan.
PrerequisitesAnyVersion(r) ==
  \E a \in Artifact(r.version), d \in receipts :
    /\ d.request = r.disclosure
    /\ d.result = "matched"
    /\ d.request.artifact = r.artifact
    /\ a.digest = r.artifact

\* ValidateArtifactPublicationPrerequisites over the records the request names.
Prerequisites(r) ==
  \E a \in Artifact(r.version), d \in receipts :
    /\ d.request = r.disclosure
    /\ d.result = "matched"
    /\ d.request.version = r.version
    /\ d.request.artifact = r.artifact
    /\ a.digest = r.artifact
    /\ d.request.plan = a.plan

\* Faulty: each stage sees the commands of its own requests only.
ConflictingInStage(r) ==
  \E prior \in commands : prior.command = r.command /\ prior # r /\ prior.op = r.op

\* claimCommand: the command is held by another request, or by this one.
Conflicting(r) == \E prior \in commands : prior.command = r.command /\ prior # r
Known(r) == r \in commands

\* Faulty: the prerequisites of a publication come before the ledger.
AnswerPrerequisitesFirst(grant, r) ==
  CASE ~Admissible(grant, r) \/ (r.op = "publish" /\ ~Prerequisites(r)) -> "invalidGrant"
    [] Admissible(grant, r) /\ (r.op = "publish" => Prerequisites(r)) /\ Conflicting(r) -> "commandConflict"
    [] Admissible(grant, r) /\ (r.op = "publish" => Prerequisites(r)) /\ Known(r) -> "replayed"
    [] OTHER -> "accepted"

\* What the four handlers answer.
Answer(grant, r) ==
  CASE ~Admissible(grant, r) -> "invalidGrant"
    [] Admissible(grant, r) /\ Conflicting(r) -> "commandConflict"
    [] Admissible(grant, r) /\ ~Conflicting(r) /\ Known(r) -> "replayed"
    [] Admissible(grant, r) /\ ~Conflicting(r) /\ ~Known(r)
         /\ r.op = "publish" /\ ~Prerequisites(r) -> "invalidGrant"
    [] OTHER -> "accepted"

\* Each stage has a receipt of its own.  It names its request, digest and all:
\* as Validate...ReceiptForRequest has it, it is the receipt of no other.
ClosurePlanReceipt(r) == [request |-> r, result |-> "planned"]
ArtifactRetentionReceipt(r) == [request |-> r, result |-> "retained"]
ArtifactDisclosureReceipt(r, verdict) == [request |-> r, result |-> verdict]
ArtifactPublicationReceipt(r) == [request |-> r, result |-> "published"]

\* claimCommand of a fresh command, and the receipt stored for it.
Record(receipt) ==
  /\ commands' = commands \cup {receipt.request}
  /\ receipts' = receipts \cup {receipt}

PlanManifestClosure(grant, r) ==
  /\ Answer(grant, r) = "accepted"
  /\ Record(ClosurePlanReceipt(r))
  /\ plans' = {p \in plans : PlanID(p) # PlanID(r)} \cup {r}
  /\ UNCHANGED <<retained, released>>

ValidateAndRetainCandidate(grant, r) ==
  /\ Answer(grant, r) = "accepted"
  /\ Record(ArtifactRetentionReceipt(r))
  /\ retained' = (retained \ Artifact(r.version)) \cup
       {[version |-> r.version, plan |-> r.plan, bytes |-> r.bytes,
         digest |-> ArtifactDigest(r.bytes)]}
  /\ UNCHANGED <<plans, released>>

\* Faulty: files that differ get no verdict.
VerdictBlank(r) == IF \E a \in Artifact(r.version) : a.bytes = r.bytes
                   THEN "matched" ELSE ""

Verdict(r) == IF \E a \in Artifact(r.version) : a.bytes = r.bytes
              THEN "matched" ELSE "mismatched"

VerifyArtifactDisclosure(grant, r) ==
  /\ Answer(grant, r) = "accepted"
  /\ Record(ArtifactDisclosureReceipt(r, Verdict(r)))
  /\ UNCHANGED <<plans, retained, released>>

PublishArtifact(grant, r) ==
  /\ Answer(grant, r) = "accepted"
  /\ Record(ArtifactPublicationReceipt(r))
  /\ released' = released \cup {[request |-> r, bytes |-> a.bytes] : a \in Artifact(r.version)}
  /\ UNCHANGED <<plans, retained>>

\* A conflict, a replay or a refusal leaves every record as it was.
Decline(grant, r) == Answer(grant, r) # "accepted" /\ UNCHANGED vars

Next == \E grant \in Granted :
          \/ \E r \in ManifestClosurePlanRequest : PlanManifestClosure(grant, r)
          \/ \E r \in CandidateClosureRetentionRequest : ValidateAndRetainCandidate(grant, r)
          \/ \E r \in ArtifactDisclosureVerificationRequest : VerifyArtifactDisclosure(grant, r)
          \/ \E r \in ArtifactPublicationRequest : PublishArtifact(grant, r)
          \/ \E r \in Request : Decline(grant, r)

Spec == Init /\ [][Next]_vars

-----------------------------------------------------------------------------
Receipt == [request : Request, result : {"planned", "retained", "matched", "mismatched", "published"}]

TypeOK == /\ plans \subseteq ManifestClosurePlanRequest
          /\ commands \subseteq Request
          /\ receipts \subseteq Receipt
          /\ \A a \in retained : a.plan \in ManifestClosurePlanRequest /\ a.digest = ArtifactDigest(a.bytes)
          /\ \A p \in released : p.request \in ArtifactPublicationRequest

\* A command ID belongs to one granted request of one stage, whichever stages
\* later reuse it, and a claimed command always has its receipt: no refusal and
\* no conflict leaves a claim behind (source_conformance.go:181-184).
LedgerConsistent ==
  /\ \A a, b \in commands : a.command = b.command => a = b
  /\ \A r \in commands :
       /\ r \in Granted
       /\ \E x \in receipts : x.request = r
       /\ \A x, y \in receipts : x.request = r /\ y.request = r => x = y

\* What was published had been planned and retained, under the plan its
\* disclosure names, and that disclosure was verified for the same version.
ChainOfCustody ==
  \A p \in released :
    LET d == p.request.disclosure
    IN  /\ d \in commands /\ d.version = p.request.version
        /\ d.plan \in commands
        /\ \E c \in commands : /\ c.op = "retain"
                               /\ c.version = d.version
                               /\ c.plan = d.plan
                               /\ c.bytes = p.bytes

\* "publication follows a provider-authoritative matched disclosure for the exact
\* retained artifact" (disclosure_operations.go:136-139): the bytes made public
\* are the bytes some disclosure found equal to the retained ones, even when
\* another candidate of that version was retained in between.
PublishedWasDisclosed ==
  \A p \in released :
    /\ [request |-> p.request.disclosure, result |-> "matched"] \in receipts
    /\ p.request.disclosure.bytes = p.bytes

\* A plan or a publication that was recorded is replayed whenever it is sent
\* again, whatever was planned, retained or disclosed since.
PlansAndPublicationsReplay ==
  \A r \in commands : r.op \in {"plan", "publish"} => Answer(r, r) = "replayed"

\* "a new token can retry the same command/body after an unknown outcome", of
\* every stage (automated-execution-contract/README.md:97-103).
EveryRetryReplays == \A r \in commands : Answer(r, r) = "replayed"
=============================================================================
