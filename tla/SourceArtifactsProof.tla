------------------------ MODULE SourceArtifactsProof ------------------------
(***************************************************************************)
(* Theorems about SourceArtifacts, for every set of requests and grants,   *)
(* every way a provider may name its plans and every artifact digest.      *)
(***************************************************************************)
EXTENDS SourceArtifacts, TLAPS

\* A command has one owner, which held a grant for intact input.
OneOwner ==
  /\ \A a, b \in commands : a.command = b.command => a = b
  /\ \A r \in commands : r \in Granted /\ r.intact

\* Claims and receipts go together, one by one.
Backed == /\ \A r \in commands : \E x \in receipts : x.request = r
          /\ \A x \in receipts : x.request \in commands
          /\ \A x, y \in receipts : x.request = y.request => x = y

\* Plans and artifacts come from recorded requests.
Rooted == /\ plans \subseteq commands
          /\ \A a \in retained :
               /\ a.plan \in commands
               /\ \E c \in commands : /\ c.op = "retain" /\ c.version = a.version
                                      /\ c.plan = a.plan /\ c.bytes = a.bytes

\* A version has one artifact at a time.
OneArtifact == \A a, b \in retained : a.version = b.version => a = b

\* A matched disclosure carries bytes of the very artifact it names.
MatchedDigest ==
  \A x \in receipts : x.result = "matched" => ArtifactDigest(x.request.bytes) = x.request.artifact

\* What was published was disclosed, as far as digests tell.
ReleasedDigest ==
  \A p \in released :
    /\ [request |-> p.request.disclosure, result |-> "matched"] \in receipts
    /\ ArtifactDigest(p.bytes) = ArtifactDigest(p.request.disclosure.bytes)

\* The inductive invariant: a retained artifact may be taken over at any time, so
\* what a publication rests on has to be kept by commands and receipts alone.
IInv == /\ TypeOK /\ OneOwner /\ Backed /\ Rooted
        /\ OneArtifact /\ MatchedDigest
        /\ ChainOfCustody /\ ReleasedDigest

\* Nothing is recorded at first.
LEMMA InitIInv == Init => IInv
BY DEF Init, IInv, TypeOK, OneOwner, Backed, Rooted, OneArtifact, MatchedDigest,
       ChainOfCustody, ReleasedDigest

\* What an accepted request has passed.
LEMMA AcceptedPassed ==
  ASSUME NEW grant \in Granted, NEW r \in Request, Answer(grant, r) = "accepted"
  PROVE  /\ Admissible(grant, r) /\ ~Conflicting(r) /\ ~Known(r)
         /\ r.op = "publish" => Prerequisites(r)
         /\ r \in Granted /\ r.intact
<1>1. /\ Admissible(grant, r) /\ ~Conflicting(r) /\ ~Known(r)
      /\ r.op = "publish" => Prerequisites(r)
  BY DEF Answer
<1> QED
  BY <1>1 DEF Admissible, Bound

\* Recording a fresh command adds to the ledger and takes nothing from it.
LEMMA Recorded ==
  ASSUME IInv, NEW grant \in Granted, NEW r \in Request, Answer(grant, r) = "accepted",
         NEW result \in {"planned", "retained", "matched", "mismatched", "published"},
         Record([request |-> r, result |-> result])
  PROVE  /\ commands' = commands \cup {r} /\ commands' \subseteq Request
         /\ receipts' = receipts \cup {[request |-> r, result |-> result]}
         /\ receipts' \subseteq Receipt
         /\ OneOwner' /\ Backed'
<1> DEFINE new == [request |-> r, result |-> result]
<1>1. commands' = commands \cup {r} /\ receipts' = receipts \cup {new}
  BY DEF Record
<1>2. new \in Receipt /\ commands' \subseteq Request /\ receipts' \subseteq Receipt
  BY <1>1 DEF IInv, TypeOK, Receipt
<1>3. ~Conflicting(r) /\ ~Known(r) /\ r \in Granted /\ r.intact
  BY AcceptedPassed
<1>4. OneOwner'
  BY <1>1, <1>3 DEF IInv, OneOwner, Conflicting
<1>5. Backed'
  <2>1. \A x \in receipts : x.request # r
    BY <1>3 DEF IInv, Backed, Known
  <2> QED
    BY <1>1, <2>1 DEF IInv, Backed
<1> QED
  BY <1>1, <1>2, <1>4, <1>5

\* A step that records a receipt without a match, and publishes nothing, leaves
\* disclosures and publications as they were.
LEMMA PublicationsKept ==
  ASSUME IInv, UNCHANGED released, commands \subseteq commands', receipts \subseteq receipts'
  PROVE  ChainOfCustody' /\ ReleasedDigest'
BY DEF IInv, ChainOfCustody, ReleasedDigest

\* A plan replaces the one of its ID and touches no artifact.
LEMMA PlanStep ==
  ASSUME IInv, NEW grant \in Granted, NEW r \in ManifestClosurePlanRequest,
         PlanManifestClosure(grant, r)
  PROVE  IInv'
<1>1. r \in Request
  BY DEF ManifestClosurePlanRequest, Stage
<1>2. /\ commands' = commands \cup {r} /\ commands' \subseteq Request
      /\ receipts' = receipts \cup {[request |-> r, result |-> "planned"]}
      /\ receipts' \subseteq Receipt /\ OneOwner' /\ Backed'
  BY <1>1, Recorded DEF PlanManifestClosure, ClosurePlanReceipt
<1>3. plans' \subseteq plans \cup {r} /\ UNCHANGED <<retained, released>>
  BY DEF PlanManifestClosure
<1>4. TypeOK'
  BY <1>2, <1>3 DEF IInv, TypeOK
<1>5. Rooted' /\ OneArtifact' /\ MatchedDigest'
  BY <1>2, <1>3 DEF IInv, Rooted, OneArtifact, MatchedDigest
<1> QED
  BY <1>2, <1>3, <1>4, <1>5, PublicationsKept DEF IInv

\* A candidate takes its version over, under a plan that is on record.
LEMMA RetainStep ==
  ASSUME IInv, NEW grant \in Granted, NEW r \in CandidateClosureRetentionRequest,
         ValidateAndRetainCandidate(grant, r)
  PROVE  IInv'
<1> DEFINE new == [version |-> r.version, plan |-> r.plan, bytes |-> r.bytes,
                   digest |-> ArtifactDigest(r.bytes)]
<1>1. r \in Request /\ r.op = "retain"
  BY DEF CandidateClosureRetentionRequest, Stage
<1>2. /\ commands' = commands \cup {r} /\ commands' \subseteq Request
      /\ receipts' = receipts \cup {[request |-> r, result |-> "retained"]}
      /\ receipts' \subseteq Receipt /\ OneOwner' /\ Backed'
  BY <1>1, Recorded DEF ValidateAndRetainCandidate, ArtifactRetentionReceipt
<1>3. retained' = (retained \ Artifact(r.version)) \cup {new} /\ UNCHANGED <<plans, released>>
  BY DEF ValidateAndRetainCandidate
<1>4. r.plan \in plans
  BY <1>1, AcceptedPassed DEF ValidateAndRetainCandidate, Admissible, FollowsPlan
<1>5. TypeOK'
  BY <1>2, <1>3, <1>4 DEF IInv, TypeOK
<1>6. Rooted'
  BY <1>1, <1>2, <1>3, <1>4 DEF IInv, Rooted
<1>7. OneArtifact'
  BY <1>3 DEF IInv, OneArtifact, Artifact
<1>8. MatchedDigest'
  BY <1>2 DEF IInv, MatchedDigest
<1> QED
  BY <1>2, <1>3, <1>5, <1>6, <1>7, <1>8, PublicationsKept DEF IInv

\* A match is found on the version's one artifact, whose digest the request names.
LEMMA DiscloseStep ==
  ASSUME IInv, NEW grant \in Granted, NEW r \in ArtifactDisclosureVerificationRequest,
         VerifyArtifactDisclosure(grant, r)
  PROVE  IInv'
<1>1. r \in Request /\ r.op = "disclose"
  BY DEF ArtifactDisclosureVerificationRequest, Stage
<1>2. Verdict(r) \in {"matched", "mismatched"}
  BY DEF Verdict
<1>3. /\ commands' = commands \cup {r} /\ commands' \subseteq Request
      /\ receipts' = receipts \cup {[request |-> r, result |-> Verdict(r)]}
      /\ receipts' \subseteq Receipt /\ OneOwner' /\ Backed'
  BY <1>1, <1>2, Recorded DEF VerifyArtifactDisclosure, ArtifactDisclosureReceipt
<1>4. UNCHANGED <<plans, retained, released>>
  BY DEF VerifyArtifactDisclosure
<1>5. PICK a \in Artifact(r.version) : a.digest = r.artifact
  BY <1>1, AcceptedPassed DEF VerifyArtifactDisclosure, Admissible
<1>6. Verdict(r) = "matched" => ArtifactDigest(r.bytes) = r.artifact
  BY <1>5 DEF Verdict, Artifact, IInv, OneArtifact, TypeOK
<1>7. MatchedDigest'
  BY <1>3, <1>6 DEF IInv, MatchedDigest
<1>8. TypeOK' /\ Rooted' /\ OneArtifact'
  BY <1>3, <1>4 DEF IInv, TypeOK, Rooted, OneArtifact
<1> QED
  BY <1>3, <1>4, <1>7, <1>8, PublicationsKept DEF IInv

\* What is published is the version's one artifact, under its plan and with the
\* digest that a matched disclosure of that version has.
LEMMA PublishStep ==
  ASSUME IInv, NEW grant \in Granted, NEW r \in ArtifactPublicationRequest,
         PublishArtifact(grant, r)
  PROVE  IInv'
<1>1. r \in Request /\ r.op = "publish"
  BY DEF ArtifactPublicationRequest, Stage
<1>2. /\ commands' = commands \cup {r} /\ commands' \subseteq Request
      /\ receipts' = receipts \cup {[request |-> r, result |-> "published"]}
      /\ receipts' \subseteq Receipt /\ OneOwner' /\ Backed'
  BY <1>1, Recorded DEF PublishArtifact, ArtifactPublicationReceipt
<1>3. /\ UNCHANGED <<plans, retained>>
      /\ released' = released \cup {[request |-> r, bytes |-> a.bytes] : a \in Artifact(r.version)}
  BY DEF PublishArtifact
<1>4. TypeOK' /\ Rooted' /\ OneArtifact' /\ MatchedDigest'
  BY <1>2, <1>3 DEF IInv, TypeOK, Rooted, OneArtifact, MatchedDigest
<1>5. PICK a \in Artifact(r.version), d \in receipts :
        /\ d.request = r.disclosure /\ d.result = "matched"
        /\ d.request.version = r.version /\ d.request.artifact = r.artifact
        /\ a.digest = r.artifact /\ d.request.plan = a.plan
  BY <1>1, AcceptedPassed DEF PublishArtifact, Prerequisites
<1>6. a \in retained /\ a.version = r.version /\ Artifact(r.version) = {a}
  BY <1>5 DEF IInv, OneArtifact, Artifact
<1>7. released' = released \cup {[request |-> r, bytes |-> a.bytes]}
  BY <1>3, <1>6
<1>8. d = [request |-> r.disclosure, result |-> "matched"]
  BY <1>5 DEF IInv, TypeOK, Receipt
<1>9. ReleasedDigest'
  <2>1. ArtifactDigest(a.bytes) = ArtifactDigest(r.disclosure.bytes)
    BY <1>5, <1>6 DEF IInv, TypeOK, MatchedDigest
  <2>2. /\ [request |-> r.disclosure, result |-> "matched"] \in receipts'
        /\ receipts \subseteq receipts'
    BY <1>2, <1>5, <1>8
  <2> SUFFICES ASSUME NEW p \in released'
               PROVE  /\ [request |-> p.request.disclosure, result |-> "matched"] \in receipts'
                      /\ ArtifactDigest(p.bytes) = ArtifactDigest(p.request.disclosure.bytes)
    BY DEF ReleasedDigest
  <2>3. CASE p \in released
    BY <2>2, <2>3 DEF IInv, ReleasedDigest
  <2>4. CASE p = [request |-> r, bytes |-> a.bytes]
    BY <2>1, <2>2, <2>4
  <2> QED
    BY <1>7, <2>3, <2>4
<1>10. ChainOfCustody'
  <2>1. r.disclosure \in commands /\ r.disclosure.version = r.version
        /\ r.disclosure.plan = a.plan /\ a.plan \in commands
    BY <1>5, <1>6 DEF IInv, Backed, Rooted
  <2>2. \E c \in commands : /\ c.op = "retain" /\ c.version = a.version
                            /\ c.plan = a.plan /\ c.bytes = a.bytes
    BY <1>6 DEF IInv, Rooted
  <2> QED
    BY <1>2, <1>6, <1>7, <2>1, <2>2 DEF IInv, ChainOfCustody
<1> QED
  BY <1>2, <1>4, <1>9, <1>10 DEF IInv

\* A declined call, or none, leaves all of it.
LEMMA StutterStep == ASSUME IInv, UNCHANGED vars PROVE IInv'
BY DEF vars, IInv, TypeOK, OneOwner, Backed, Rooted, OneArtifact, MatchedDigest,
       ChainOfCustody, ReleasedDigest, Artifact

\* Whatever is planned, retained, disclosed and published, in any order, the
\* records of a provider hang together.
THEOREM Invariance == Spec => []IInv
<1>1. IInv /\ [Next]_vars => IInv'
  <2> SUFFICES ASSUME IInv, [Next]_vars PROVE IInv'
    OBVIOUS
  <2>1. CASE UNCHANGED vars
    BY <2>1, StutterStep
  <2>2. ASSUME NEW grant \in Granted, NEW r \in ManifestClosurePlanRequest,
               PlanManifestClosure(grant, r)
        PROVE  IInv'
    BY <2>2, PlanStep
  <2>3. ASSUME NEW grant \in Granted, NEW r \in CandidateClosureRetentionRequest,
               ValidateAndRetainCandidate(grant, r)
        PROVE  IInv'
    BY <2>3, RetainStep
  <2>4. ASSUME NEW grant \in Granted, NEW r \in ArtifactDisclosureVerificationRequest,
               VerifyArtifactDisclosure(grant, r)
        PROVE  IInv'
    BY <2>4, DiscloseStep
  <2>5. ASSUME NEW grant \in Granted, NEW r \in ArtifactPublicationRequest,
               PublishArtifact(grant, r)
        PROVE  IInv'
    BY <2>5, PublishStep
  <2>6. ASSUME NEW grant \in Granted, NEW r \in Request, Decline(grant, r) PROVE IInv'
    BY <2>6, StutterStep DEF Decline
  <2> QED
    BY <2>1, <2>2, <2>3, <2>4, <2>5, <2>6 DEF Next
<1> QED
  BY <1>1, InitIInv, PTL DEF Spec

\* Type correctness: the records are of their stages (source_conformance_test.go:29-37).
THEOREM TypeCorrect == Spec => []TypeOK
<1>1. IInv => TypeOK
  BY DEF IInv
<1> QED
  BY <1>1, Invariance, PTL

\* One command, one owner, one receipt, across the four stages (LedgerConsistent).
THEOREM LedgerIsOne == Spec => []LedgerConsistent
<1>1. IInv => LedgerConsistent
  BY DEF IInv, OneOwner, Backed, LedgerConsistent
<1> QED
  BY <1>1, Invariance, PTL

\* Publications rest on recorded plans, candidates and disclosures (ChainOfCustody).
THEOREM CustodyHolds == Spec => []ChainOfCustody
<1>1. IInv => ChainOfCustody
  BY DEF IInv
<1> QED
  BY <1>1, Invariance, PTL

\* Recorded plans and publications replay for good (PlansAndPublicationsReplay).
THEOREM PlansAndPublicationsRetry == Spec => []PlansAndPublicationsReplay
<1>1. IInv => PlansAndPublicationsReplay
  <2> SUFFICES ASSUME IInv, NEW r \in commands, r.op \in {"plan", "publish"}
               PROVE  Answer(r, r) = "replayed"
    BY DEF PlansAndPublicationsReplay
  <2>1. Admissible(r, r)
    BY DEF IInv, OneOwner, Admissible, Bound
  <2>2. ~Conflicting(r) /\ Known(r)
    BY DEF IInv, OneOwner, Conflicting, Known
  <2> QED
    BY <2>1, <2>2 DEF Answer
<1> QED
  BY <1>1, Invariance, PTL

\* Digests tell the bytes of a candidate and of a public copy apart.
DigestsApart ==
  \A q \in CandidateClosureRetentionRequest, r \in ArtifactDisclosureVerificationRequest :
    ArtifactDigest(q.bytes) = ArtifactDigest(r.bytes) => q.bytes = r.bytes

\* If they do, only bytes that a disclosure found equal to the retained ones are
\* ever made public, whatever else was retained meanwhile (PublishedWasDisclosed).
THEOREM OnlyDisclosedIsPublished ==
  ASSUME DigestsApart PROVE Spec => []PublishedWasDisclosed
<1>1. IInv => PublishedWasDisclosed
  <2> SUFFICES ASSUME IInv, NEW p \in released
               PROVE  /\ [request |-> p.request.disclosure, result |-> "matched"] \in receipts
                      /\ p.request.disclosure.bytes = p.bytes
    BY DEF PublishedWasDisclosed
  <2>1. PICK c \in commands : c.op = "retain" /\ c.bytes = p.bytes
    BY DEF IInv, ChainOfCustody
  <2>2. c \in CandidateClosureRetentionRequest
    BY <2>1 DEF IInv, TypeOK, CandidateClosureRetentionRequest, Stage
  <2>3. p.request.disclosure \in ArtifactDisclosureVerificationRequest
    BY RequestAssumption
       DEF IInv, TypeOK, ChainOfCustody, ArtifactDisclosureVerificationRequest, Stage
  <2> QED
    BY <2>1, <2>2, <2>3 DEF IInv, ReleasedDigest, DigestsApart
<1> QED
  BY <1>1, Invariance, PTL
=============================================================================
