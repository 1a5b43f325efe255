---------------------------- MODULE SourceSuite ----------------------------
(***************************************************************************)
(* The suite for source providers: plan, retain, disclose, publish, what   *)
(* each of them must refuse on the way, and commands that one operation    *)
(* takes from another.                                                     *)
(***************************************************************************)
EXTENDS ConformanceCalls

sourceReplayGrantMutations(purpose) ==
  Envelope \cup {"providerID", "adapterID", "commandID", "typedPayloadDigest",
                 "transportContentType", "rawTransportDigest", "method", "resource",
                 "participantID", "participantVersionID"} \cup
  CASE purpose = "manifest-closure-plan" ->
         {"repositoryNodeID", "commitOID", "manifestPath", "manifestEntryKind",
          "rawManifestBytesDigest", "manifestByteLimit"}
    [] purpose = "candidate-closure-validate-retain" ->
         {"repositoryNodeID", "commitOID", "closurePlanID", "closurePlanDigest",
          "candidateTransferredBytesDigest", "aggregateByteLimit"}
    [] purpose = "artifact-disclosure-verify" ->
         {"repositoryNodeID", "commitOID", "closurePlanID", "closurePlanDigest",
          "publicCandidateTransferredBytesDigest", "aggregateByteLimit",
          "retentionReceiptID", "artifactDigest"}
    [] purpose = "artifact-publish" ->
         {"retentionReceiptID", "artifactDigest", "disclosureReceiptID", "disclosureRequestDigest"}

\* An accepted command is the fact that later operations refer to.
SourceItem(purpose, command, changed, needs) ==
  [op |-> purpose, command |-> command, body |-> changed, outside |-> "nothing",
   needs |-> needs, bars |-> {}, gives |-> {command}, success |-> "accepted"]

Plan(command, changed) == SourceItem("manifest-closure-plan", command, changed, {})
Retain(command, changed, plan) ==
  SourceItem("candidate-closure-validate-retain", command, changed, {plan})
Disclose(command, changed, plan, candidate) ==
  [SourceItem("artifact-disclosure-verify", command, changed, {plan, candidate})
     EXCEPT !.success = IF "files" \in changed THEN "mismatched" ELSE "accepted"]
Publish(command, changed, disclosure) ==
  SourceItem("artifact-publish", command, changed, {disclosure})

\* Entries of another kind, paths off the plan, bytes that are not those digested.
Outside(item) == [item EXCEPT !.outside = "body"]

Manifest0    == Plan("manifest", {})
Candidate0   == Retain("candidate", {}, "manifest")
Disclosure0  == Disclose("disclosure", {}, "manifest", "candidate")
Publication0 == Publish("publication", {}, "disclosure")

\* A disclosure receipt has a verdict and no status.
Matched == {"accepted", "replayed", "renewed"}
SameMatch == {"accepted", "replayed"}

PlanCalls(order) ==
  Each(order, [kind \in {"symlink", "submodule"} |->
                 <<Call("main", Outside(Plan("manifest", {kind})), Refusal)>>])
  \o <<First(Manifest0), Call("main", Manifest0, {"replayed"})>>
  \o Populated(order, Manifest0, sourceReplayGrantMutations(Manifest0.op), Candidate0.op, {"replayed"})
  \o <<Call("main", Outside(Manifest0), Refusal),
       Call("main", Plan("manifest", {"version"}), {"commandConflict"})>>

RetentionCalls(order) ==
  <<Call("main", Retain("manifest", {}, "manifest"), {"commandConflict"}),
    First(Candidate0), Call("main", Candidate0, {"replayed"})>>
  \o Populated(order, Candidate0, sourceReplayGrantMutations(Candidate0.op), Manifest0.op, {"replayed"})
  \o <<Call("main", Outside(Candidate0), Refusal),
       Call("main", Retain("candidate", {"files"}, "manifest"), {"commandConflict"}),
       Call("main", Outside(Retain("wrong-path", {"path"}, "manifest")), Refusal),
       Call("main", Outside(Retain("symlink", {"kind"}, "manifest")), Refusal),
       Call("main", Retain("wrong-plan", {"plan"}, "other-plan"), Refusal)>>

DisclosureCalls(order) ==
  <<Call("main", Disclose("candidate", {}, "manifest", "candidate"), {"commandConflict"})>>
  \o Each(order, [part \in {"id", "digest"} |->
                    <<Call("main", Disclose(part, {part}, "other-plan", "candidate"), Refusal),
                      Call("main", Disclose(part, {}, "manifest", "candidate"), Matched)>>])
  \o <<Call("main", Publish("publication", {"disclosure"}, "missing-disclosure"), Refusal),
       [Call("main", Disclose("mismatch", {"files"}, "manifest", "candidate"), {"mismatched"})
          EXCEPT !.ends = Answer \ {"mismatched"}],
       Call("main", Publish("mismatch-publication", {}, "mismatch"), Refusal),
       Call("main", Disclosure0, Matched), Call("main", Disclosure0, SameMatch)>>
  \o Populated(order, Disclosure0, sourceReplayGrantMutations(Disclosure0.op), Candidate0.op, SameMatch)

PublicationCalls(order) ==
  <<Call("main", Publish("disclosure", {}, "disclosure"), {"commandConflict"}),
    Call("main", Disclose("disclosure", {"files"}, "manifest", "candidate"), {"commandConflict"}),
    Call("main", Publication0, {"accepted"}), Call("main", Publication0, {"replayed"})>>
  \o Populated(order, Publication0, sourceReplayGrantMutations(Publication0.op), Disclosure0.op, {"replayed"})
  \o <<Call("main", Publish("publication", {"version"}, "other-version"), {"commandConflict"}),
       Call("main", Plan("publication", {}), {"commandConflict"})>>

\* One command for two operations, on a service that is ready for any of them.
LedgerPair(first, second) ==
  LET plan == IF first = "manifest-closure-plan" THEN "collision" ELSE "plan"
      item == [p \in {first, second} |->
                 CASE p = "manifest-closure-plan" -> Plan("collision", {})
                   [] p = "candidate-closure-validate-retain" -> Retain("collision", {}, plan)
                   [] p = "artifact-disclosure-verify" -> Disclose("collision", {}, "plan", "kept")
                   [] p = "artifact-publish" -> Publish("collision", {}, "shown")]
      Ready(on, i) == [Call(on, i, Answer \ Refusal) EXCEPT !.skips = Refusal]
  IN  <<Ready("fresh", Plan("plan", {})), Ready("same", Retain("kept", {}, "plan")),
        Setup("same", Disclose("shown", {}, "plan", "kept")),
        Ready("same", item[first]), Call("same", item[second], {"commandConflict"})>>

SourcePurpose == {"manifest-closure-plan", "candidate-closure-validate-retain",
                  "artifact-disclosure-verify", "artifact-publish"}

CheckSourceArtifactProvider(order) ==
  PlanCalls(order) \o RetentionCalls(order) \o DisclosureCalls(order) \o PublicationCalls(order)
  \o Each(order, [pair \in {p \in SourcePurpose \X SourcePurpose : p[1] # p[2]} |->
                    LedgerPair(pair[1], pair[2])])
=============================================================================
