--------------------------- MODULE EventDelivery ---------------------------
(***************************************************************************)
(* Lifecycle events on their way from a game to the sink.  The game keeps  *)
(* a durable event and sends it again, with a fresh token, while its       *)
(* outcome is unknown.  Envelopes are overtaken, lost, and delivered more  *)
(* than once: the sink must not lean on the replay store.  The receiving   *)
(* service can die before the sink runs or before the game hears of it.    *)
(***************************************************************************)
EXTENDS EventSink, FiniteSets, Naturals

CONSTANTS Mixed,     \* envelopes whose token was issued for something else
          MaxCalls   \* bound: requests for one event being handled or answered

VARIABLES network,    \* envelopes in transit
          calls,      \* requests past the verifier, until their answer arrives
          known,      \* the game's knowledge of each event
          exercised   \* history: the events whose own grant was verified

vars == <<state, ledger, network, calls, known, exercised>>

Purpose == {"contest-started-event", "contest-result-event"}
Grant == [purpose : Purpose, event : Event]
Envelope == [grant : Grant, event : Event]
Status == {"accepted", "replayed", "commandConflict", "invalidTransition", "invalidGrant"}
Call == [grant : Grant, event : Event, status : Status \cup {"pending"}]

ASSUME DeliveryAssumption == Mixed \subseteq Envelope /\ MaxCalls \in Nat

\* What an answer tells the game: to stop sending, or nothing final.
Learns(status) == CASE status \in {"accepted", "replayed"} -> "recorded"
                    [] status = "commandConflict" -> "conflict"
                    [] OTHER -> "open"

TypeOK == /\ SinkTypeOK
          /\ network \subseteq Envelope
          /\ calls \subseteq Call
          /\ known \in [Event -> {"open", "recorded", "conflict"}]
          /\ exercised \subseteq Event

Init == /\ SinkInit
        /\ network = {}
        /\ calls = {}
        /\ known = [e \in Event |-> "open"]
        /\ exercised = {}

\* The grant NewExecutionEventGrantRequest asks for.
EventGrant(e) == [purpose |-> EventPurpose(e.kind), event |-> e]
Own(e) == [grant |-> EventGrant(e), event |-> e]

\* The game has a token issued and sends the event with it.
Send(m) ==
  /\ known[m.event] = "open"
  /\ network' = network \cup {m}
  /\ UNCHANGED <<state, ledger, calls, known, exercised>>

\* The envelope is lost, or its token's window closes.
Expire(m) == /\ network' = network \ {m}
             /\ UNCHANGED <<state, ledger, calls, known, exercised>>

\* The ingress verifies the token.  The envelope may still be on its way again:
\* a duplicate, or the next attempt under another token of the same grant.
Verify(m) ==
  /\ Cardinality({c \in calls : c.event = m.event}) < MaxCalls
  /\ calls' = calls \cup {[grant |-> m.grant, event |-> m.event, status |-> "pending"]}
  /\ exercised' = exercised \cup {e \in {m.event} : m = Own(e)}
  /\ network' \in {network, network \ {m}}
  /\ UNCHANGED <<state, ledger, known>>

\* The sink handles the event.
Submit(c) ==
  /\ c.status = "pending"
  /\ SubmitExecutionEvent(c.grant, c.event)
  /\ calls' = (calls \ {c}) \cup {[c EXCEPT !.status = Acknowledgement(c.grant, c.event)]}
  /\ UNCHANGED <<network, known, exercised>>

\* The acknowledgement reaches the game.
Receive(c) ==
  /\ c.status # "pending"
  /\ calls' = calls \ {c}
  /\ known' = [known EXCEPT ![c.event] = IF @ = "open" THEN Learns(c.status) ELSE @]
  /\ UNCHANGED <<state, ledger, network, exercised>>

\* The ingress dies with the request, before or after the sink ran.
Drop(c) == /\ calls' = calls \ {c}
           /\ UNCHANGED <<state, ledger, network, known, exercised>>

Next == \/ \E m \in {Own(e) : e \in Event} \cup Mixed : Send(m)
        \/ \E m \in network : Verify(m) \/ Expire(m)
        \/ \E c \in calls : Submit(c) \/ Receive(c) \/ Drop(c)

Spec == Init /\ [][Next]_vars

-----------------------------------------------------------------------------
OwnCall(e) == {c \in calls : c.grant = EventGrant(e) /\ c.event = e}

(***************************************************************************)
(* The game keeps sending an event while it is open, requests end, and of  *)
(* the attempts at one event neither all envelopes, nor all requests, nor  *)
(* all answers are lost.                                                   *)
(***************************************************************************)
Fairness ==
  \A e \in Event :
    /\ WF_vars(\E m \in {Own(e)} \ network : Send(m))
    /\ SF_vars(\E m \in {Own(e)} \cap network : Verify(m))
    /\ SF_vars(\E c \in OwnCall(e) : Submit(c))
    /\ SF_vars(\E c \in OwnCall(e) : Receive(c) /\ known' # known)
    /\ WF_vars(\E c \in OwnCall(e) : Receive(c) \/ Drop(c))

FairSpec == Spec /\ Fairness

-----------------------------------------------------------------------------
\* What the game is told is true, however late it hears it: an acknowledged
\* event is the one in the ledger, and a conflict names a command that another
\* payload holds for good (event_conformance.go:41-50, 69-72).
AnswersTrue ==
  \A e \in Event :
    LET told == {known[e]} \cup {Learns(c.status) : c \in {d \in calls : d.event = e}}
    IN  /\ "recorded" \in told => e \in ledger
        /\ "conflict" \in told => KnownCommand(e) /\ e \notin ledger

\* Every fact the sink holds was reported under a grant for exactly that event
\* and for the purpose of its kind.
OnlyAuthorizedFacts == \A e \in ledger : e \in exercised /\ EventForExecution(e)

\* However often a recorded event is sent again, with whatever token, even after
\* the execution ended: a correctly bound retry is answered "replayed" and
\* changes nothing (event_conformance.go:45-50, 110-114).
ExactRetryReplays ==
  [][\A c \in calls :
       c.event \in ledger /\ GrantBinds(c.grant, c.event) /\ Submit(c) =>
         /\ [c EXCEPT !.status = "replayed"] \in calls'
         /\ UNCHANGED sinkVars]_vars

\* The state is the one the recorded facts add up to, and every command is
\* recorded with one payload.
LedgerExplainsState ==
  /\ \A a, b \in ledger : a.command = b.command => a = b
  /\ state = "accepted" <=> ledger = {}
  /\ state = "started" <=> ledger # {} /\ \A e \in ledger : e.kind = "started"
  /\ state \in Terminal => \E e \in ledger : e.kind = state

\* The competition sees one verdict, final once given, and a result only for an
\* execution that started.
Verdict == INSTANCE ContestVerdict WITH
             Result <- {e \in Event : e.kind = "completed"},
             Abortion <- {e \in Event : e.kind \in {"failed", "cancelled"}},
             started <- \E e \in ledger : e.kind = "started",
             verdict <- {e \in ledger : e.kind \in Terminal}
KeepsVerdict == Verdict!Spec

\* The execution reaches a verdict although any single envelope, request or
\* acknowledgement may be lost.
EventuallyConcluded == <>(state \in Terminal)

\* The game that reported a recorded event learns of it.
EventuallyAcknowledged ==
  \A e \in Event : e \in ledger ~> known[e] = "recorded"
=============================================================================
