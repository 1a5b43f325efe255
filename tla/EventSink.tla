----------------------------- MODULE EventSink -----------------------------
(***************************************************************************)
(* The consumer of one execution's lifecycle events: SubmitExecutionEvent  *)
(* over a state and a ledger of commands.  An event stands for its whole   *)
(* payload, so equal events are equal typed payload digests.               *)
(***************************************************************************)
CONSTANTS Event,       \* lifecycle events a game may report
          Execution    \* identity and frozen slots of the request and receipt of the sink

VARIABLES state,    \* ExecutionState of the execution
          ledger    \* the event recorded for each command ID seen

sinkVars == <<state, ledger>>

Kind == {"started", "completed", "failed", "cancelled"}
State == {"accepted"} \cup Kind
Terminal == {"completed", "failed", "cancelled"}

ASSUME EventAssumption == \A e \in Event : e.kind \in Kind

SinkTypeOK == state \in State /\ ledger \subseteq Event

SinkInit == state = "accepted" /\ ledger = {}

EventPurpose(kind) == IF kind = "started" THEN "contest-started-event" ELSE "contest-result-event"

\* Faulty: a grant for the event's command serves any content.
GrantBindsCommand(grant, e) ==
  grant.event.command = e.command /\ grant.purpose = EventPurpose(e.kind)

\* Faulty: a grant serves its event whatever its purpose.
GrantBindsAnyPurpose(grant, e) == grant.event = e

\* The claims of a grant name the event's purpose, command, identities and digest.
GrantBinds(grant, e) == grant.event = e /\ grant.purpose = EventPurpose(e.kind)

\* The event belongs to the execution, and a result fits its frozen slots.
EventForExecution(e) == /\ e.execution = Execution.identity
                        /\ e.kind = "completed" => e.slots = Execution.slots

Follows == [s \in State |->
              CASE s = "accepted" -> {"started", "failed", "cancelled"}
                [] s = "started"  -> {"completed", "failed", "cancelled"}
                [] OTHER          -> {}]

\* Faulty: the lifecycle is left to the game.
ValidTransitionAlways(e) == e.kind \in Kind

\* Faulty: a cancellation overrides a result.
ValidTransitionOverride(e) == e.kind \in Follows[state] \/ e.kind = "cancelled"

ValidTransition(e) == e.kind \in Follows[state]

\* Faulty: what the grant binds is for this sink.
AuthorizedAnywhere(grant, e) == GrantBinds(grant, e)

Authorized(grant, e) == GrantBinds(grant, e) /\ EventForExecution(e)
KnownCommand(e) == \E prior \in ledger : prior.command = e.command

\* Faulty: the ledger compares commands and not digests.
AcknowledgementByCommand(grant, e) ==
  CASE ~Authorized(grant, e) -> "invalidGrant"
    [] Authorized(grant, e) /\ KnownCommand(e) -> "replayed"
    [] Authorized(grant, e) /\ ~KnownCommand(e) /\ ~ValidTransition(e) -> "invalidTransition"
    [] OTHER -> "accepted"

\* Faulty: the lifecycle is checked before the ledger.
AcknowledgementLifecycleFirst(grant, e) ==
  CASE ~Authorized(grant, e) -> "invalidGrant"
    [] Authorized(grant, e) /\ ~ValidTransition(e) -> "invalidTransition"
    [] Authorized(grant, e) /\ ValidTransition(e) /\ KnownCommand(e) -> "commandConflict"
    [] OTHER -> "accepted"

\* What SubmitExecutionEvent answers.
Acknowledgement(grant, e) ==
  CASE ~Authorized(grant, e) -> "invalidGrant"
    [] Authorized(grant, e) /\ KnownCommand(e) /\ e \notin ledger -> "commandConflict"
    [] Authorized(grant, e) /\ e \in ledger -> "replayed"
    [] Authorized(grant, e) /\ ~KnownCommand(e) /\ ~ValidTransition(e) -> "invalidTransition"
    [] OTHER -> "accepted"

\* Faulty: a kind without a state of its own.
SubmitToBlank(grant, e) ==
  IF Acknowledgement(grant, e) = "accepted"
  THEN ledger' = ledger \cup {e} /\ state' = IF e.kind = "cancelled" THEN "" ELSE e.kind
  ELSE UNCHANGED sinkVars

\* Faulty: the command is recorded before the lifecycle allows the event.
SubmitRecordsFirst(grant, e) ==
  IF Authorized(grant, e)
  THEN /\ ledger' = ledger \cup {e}
       /\ state' = IF Acknowledgement(grant, e) = "accepted" THEN e.kind ELSE state
  ELSE UNCHANGED sinkVars

SubmitExecutionEvent(grant, e) ==
  IF Acknowledgement(grant, e) = "accepted"
  THEN ledger' = ledger \cup {e} /\ state' = e.kind
  ELSE UNCHANGED sinkVars
=============================================================================
