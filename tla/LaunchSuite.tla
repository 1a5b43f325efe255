---------------------------- MODULE LaunchSuite ----------------------------
(***************************************************************************)
(* The suites for execution providers: launches in general, and what an    *)
(* adapter of a participant-scheduled game takes.                          *)
(***************************************************************************)
EXTENDS ConformanceCalls

\* The parts of an execution request that its digest covers.
RequestParts(profile) ==
  {"id", "providerID", "adapterID", "competitionID", "contestID", "gameID", "rulesetVersion",
   "requestedPublicArtifacts", "callback", "profile", "slots", "slotEntry", "slotParticipant", "slotCount"}
  \cup IF profile = "provider-executed"
       THEN {"participantVersion", "artifactDigest", "configurationVersion", "configurationData",
             "notBefore", "deadline"}
       ELSE {"startsAt", "displayName"}

\* Other providers and adapters are refused whatever a digest covers.
LaunchDigested(profile) == RequestParts(profile) \ {"providerID", "adapterID"}

\* The changed requests of the suite.
requestPayloadMutations(profile) == RequestParts(profile) \ {"displayName"}

invalidLaunchGrantMutations ==
  Envelope \cup {"providerID", "adapterID", "competitionID", "contestID", "requestID",
                 "providerInstanceID", "commandID", "typedPayloadDigest", "transportContentType",
                 "rawTransportDigest", "method", "resource", "participantID"}

\* Another provider or adapter is not this one's; an adapter has its game and slots.
LaunchOutside(changed) ==
  CASE changed \cap {"providerID", "adapterID"} # {} -> "body"
    [] changed \cap {"providerID", "adapterID"} = {} /\ changed \cap {"gameID", "slotCount"} # {} ->
         "policy"
    [] OTHER -> "nothing"

LaunchItem(command, changed) ==
  [op |-> "contest-launch", command |-> command, body |-> changed, outside |-> LaunchOutside(changed),
   needs |-> {}, bars |-> {}, gives |-> {}, success |-> "accepted"]

Launch == LaunchItem("launch", {})

ChangedLaunch(part) ==
  <<Setup("fresh", Launch),
    Call("same", LaunchItem("launch", {part}),
         IF part \in {"providerID", "adapterID"} THEN {"invalidGrant", "leaked"}
         ELSE {"commandConflict"}),
    Call("same", Launch, {"replayed"})>>

CheckExecutionProvider(profile, order) ==
  <<First(Launch),
    [Call("main", Launch, {"replayed"}) EXCEPT !.token = "first"],
    Call("main", Launch, {"replayed"})>>
  \o Populated(order, Launch, invalidLaunchGrantMutations, "contest-started-event", {"replayed"})
  \o Each(order, [part \in requestPayloadMutations(profile) |-> ChangedLaunch(part)])
  \o <<Call("main", LaunchItem("independent", {"id"}), {"accepted"})>>
  \o Rejections(order, Launch, invalidLaunchGrantMutations)

CheckParticipantScheduledProviderPolicy(order) ==
  Each(order, [part \in {"gameID", "adapterID", "slotCount"} |->
                 <<Call("fresh", LaunchItem(part, {"id", part}), Refusal \ {"leaked"}),
                   Call("same", Launch, {"accepted"})>>])
  \o <<Bad("fresh", Launch, {"purpose", "scope"}, Refusal \ {"leaked"}),
       Call("same", Launch, {"accepted"})>>
=============================================================================
