----------------------------- MODULE EventSuite -----------------------------
(***************************************************************************)
(* The suite for event sinks: a start, the result and what must not come   *)
(* before, between and after them.                                         *)
(***************************************************************************)
EXTENDS ConformanceCalls

\* The identities of an event: those of its execution.
eventIdentity == {"competitionID", "contestID", "requestID", "providerID", "adapterID",
                  "providerInstanceID"}

\* The parts of an event's payload; "kind" stands for the kind with its failure.
StartParts == eventIdentity \cup {"id", "occurredAt", "kind"}
Provenance == {"configurationDigest", "runtimeDigest", "rulesDigest", "limitDigest",
               "seedDigest", "eventLogDigest", "executionDigest"}
ResultParts(profile) ==
  StartParts \cup {"placementSlot", "placementEntry", "rank", "status", "replay"}
  \cup IF profile = "provider-executed" THEN Provenance \cup {"artifacts"}
       ELSE {"profileEvidence", "terminalState", "eventLog"}

\* The optional evidence of a participant-scheduled result is left alone.
resultEventPayloadMutations(profile) == ResultParts(profile) \ {"terminalState", "eventLog"}

\* What a result must share with the request it answers.
resultRequestBinding == {"placementSlot", "placementEntry", "artifacts", "configurationDigest",
                         "profileEvidence"}

\* The parts that a digest alone can guard: another identity, and a result of
\* another request, are refused whatever the digest covers.
EventDigested(profile) == ResultParts(profile) \ (eventIdentity \cup resultRequestBinding)

invalidEventGrantMutations ==
  (Envelope \ {"tokenID", "issuedAt", "expiresAt"})
  \cup {"providerID", "adapterID", "competitionID", "contestID", "requestID", "providerInstanceID",
        "commandID", "typedPayloadDigest", "transportContentType", "rawTransportDigest", "method",
        "resource", "participantID"}

EventItem(kind, command, changed) ==
  [op |-> IF kind = "started" THEN "contest-started-event" ELSE "contest-result-event",
   command |-> command, body |-> changed,
   outside |-> IF changed \cap (eventIdentity \cup resultRequestBinding) # {} THEN "body" ELSE "nothing",
   needs |-> {k \in {"started"} : kind = "completed"},
   bars |-> {"ended"} \cup {k \in {"started"} : kind = "started"},
   gives |-> IF kind = "started" THEN {"started"} ELSE {"ended"},
   success |-> "accepted"]

Start  == EventItem("started", "start", {})
Result == EventItem("completed", "result", {})
Aborted(kind, command) == EventItem(kind, command, {"kind"})

\* An event under a used command, changed in one part.
Changed(kind, command, part) ==
  Call("same", EventItem(IF part = "kind" THEN "failed" ELSE kind, command, {part}),
       IF part \in eventIdentity \cup resultRequestBinding THEN {"invalidGrant", "leaked"}
       ELSE {"commandConflict"})

ChangedStart(part) ==
  <<Setup("fresh", Start), Changed("started", "start", part),
    Call("same", Start, {"replayed"}), Call("same", Result, {"accepted"})>>
ChangedResult(part) ==
  <<Setup("fresh", Start), Setup("same", Result), Changed("completed", "result", part),
    Call("same", Result, {"replayed"})>>

\* A result of its own command that does not fit the request.
Misfit(part) ==
  <<[Setup("fresh", Start) EXCEPT !.want = Answer \ Refusal, !.skips = Refusal],
    Call("same", EventItem("completed", "bound", {"id", part}), Refusal),
    Call("same", Result, {"accepted"})>>

CheckExecutionEventSink(profile, order) ==
  <<Call("fresh", Result, {"invalidTransition"}), Call("same", Start, {"accepted"}),
    Call("same", Result, {"accepted"}),
    [First(Start) EXCEPT !.ends = Answer \ {"accepted"}],
    [Call("main", Start, {"replayed"}) EXCEPT !.token = "first"],
    Call("main", Start, {"replayed"})>>
  \o Populated(order, Start, invalidEventGrantMutations, "contest-result-event", {"replayed"})
  \o Each(order, [part \in StartParts |-> ChangedStart(part)])
  \o Rejections(order, Start, invalidEventGrantMutations)
  \o <<Call("main", Result, {"accepted"})>>
  \o Populated(order, Result, invalidEventGrantMutations, "contest-started-event", {"replayed"})
  \o <<Call("main", Result, {"replayed"})>>
  \o Each(order, [part \in resultEventPayloadMutations(profile) |-> ChangedResult(part)])
  \o Each(order, [part \in {"placementEntry", IF profile = "provider-executed"
                                              THEN "artifacts" ELSE "profileEvidence"} |-> Misfit(part)])
  \o <<Call("main", Aborted("failed", "late-failure"), {"invalidTransition"}),
       Call("main", Aborted("cancelled", "late-cancellation"), {"invalidTransition"}),
       Call("main", EventItem("started", "late-start", {"id"}), {"invalidTransition"}),
       Call("fresh", Aborted("cancelled", "cancel"), {"accepted"}),
       Call("same", Start, {"invalidTransition"}),
       Call("fresh", Aborted("failed", "failure"), {"accepted"})>>
=============================================================================
