---------------------------- MODULE GrantFields ----------------------------
(***************************************************************************)
(* The purposes of an operation grant and the fields each of them carries. *)
(* A scope is a function of its purpose and is left out with it.           *)
(***************************************************************************)
Purpose == {"manifest-closure-plan", "candidate-closure-validate-retain", "artifact-publish",
            "artifact-disclosure-verify", "contest-launch",
            "contest-started-event", "contest-result-event"}

\* Fields of OperationGrantRequest.
Identity    == {"providerID", "adapterID", "commandID", "typedPayloadDigest"}
Route       == {"transportContentType", "rawTransportDigest", "method", "resource"}
Execution   == {"competitionID", "contestID", "requestID"}
Instance    == {"providerInstanceID"}
Participant == {"participantID", "participantVersionID"}
Repository  == {"repositoryNodeID", "commitOID"}
Manifest    == {"manifestPath", "manifestEntryKind", "rawManifestBytesDigest", "manifestByteLimit"}
Closure     == {"closurePlanID", "closurePlanDigest", "aggregateByteLimit"}
Candidate   == {"candidateTransferredBytesDigest"}
Public      == {"publicCandidateTransferredBytesDigest"}
Artifact    == {"retentionReceiptID", "artifactDigest"}
Disclosure  == {"disclosureReceiptID", "disclosureRequestDigest"}

Field == Identity \cup Route \cup Execution \cup Instance \cup Participant \cup Repository
         \cup Manifest \cup Closure \cup Candidate \cup Public \cup Artifact \cup Disclosure

\* Faulty: the plan's byte limit is left to the plan.
RequiredWithoutLimit(purpose) ==
  Identity \cup Route \cup
  CASE purpose = "manifest-closure-plan" -> Participant \cup Repository \cup Manifest
    [] purpose = "candidate-closure-validate-retain" ->
         Participant \cup Repository \cup Candidate \cup (Closure \ {"aggregateByteLimit"})
    [] purpose = "artifact-publish" -> Participant \cup Artifact \cup Disclosure
    [] purpose = "artifact-disclosure-verify" ->
         Participant \cup Repository \cup Closure \cup Public \cup Artifact
    [] purpose = "contest-launch" -> Execution
    [] OTHER -> Execution \cup Instance

\* The fields ValidateOperationGrant wants present; it wants every other one absent.
Required(purpose) ==
  Identity \cup Route \cup
  CASE purpose = "manifest-closure-plan" -> Participant \cup Repository \cup Manifest
    [] purpose = "candidate-closure-validate-retain" ->
         Participant \cup Repository \cup Closure \cup Candidate
    [] purpose = "artifact-publish" -> Participant \cup Artifact \cup Disclosure
    [] purpose = "artifact-disclosure-verify" ->
         Participant \cup Repository \cup Closure \cup Public \cup Artifact
    [] purpose = "contest-launch" -> Execution
    [] OTHER -> Execution \cup Instance
=============================================================================
