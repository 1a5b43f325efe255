--------------------------- MODULE ContestLaunch ---------------------------
(***************************************************************************)
(* From the launch of contests to their verdicts.  Competios asks a        *)
(* provider to execute contests and opens an event sink for a request once *)
(* it holds a receipt; the provider gives every launched request a game    *)
(* instance, whose events go to the sinks.  Messages stay in their sets:   *)
(* any may be handled late, again or never, a request may be sent at any   *)
(* time, and an event may be handed to any sink there is.                  *)
(***************************************************************************)
CONSTANTS Request,     \* execution requests Competios may send
          Provider,    \* the provider and adapter this provider is
          none         \* the slots of an event that is no result

VARIABLES launches,    \* the provider's ledger: request and instance by command
          answers,     \* receipts and conflicts the provider answered with
          sinks,       \* open sinks: request, receipt, state and ledger
          reports      \* events the game instances sent

vars == <<launches, answers, sinks, reports>>

\* A request ID is used under one command only.
ASSUME LaunchAssumption ==
  /\ \A r \in Request : r.sound \in BOOLEAN /\ r.slots # none
  /\ \A q, r \in Request : q.id = r.id => q.command = r.command

Receipt(r, instance, status) ==
  [request |-> r.id, command |-> r.command, provider |-> r.provider,
   instance |-> instance, status |-> status]

Init == launches = {} /\ answers = {} /\ sinks = {} /\ reports = {}

-----------------------------------------------------------------------------
\* The provider.

\* "instance-" and the ID of the request.
ProviderInstanceID(r) == <<"instance", r.id>>

\* ValidateExecutionRequest: the request is well-formed and digests its payload
\* (sound); the grant names it; this is its provider.
Launchable(grant, r) == r.sound /\ grant = r /\ r.provider = Provider

Prior(r) == {l \in launches : l.request.command = r.command}

\* Faulty: the ledger compares commands and not digests.
LaunchAnswerByCommand(grant, r) ==
  CASE ~Launchable(grant, r) -> "invalidGrant"
    [] Launchable(grant, r) /\ Prior(r) # {} -> "replayed"
    [] OTHER -> "accepted"

\* Faulty: the ledger is kept by digest.
LaunchAnswerByDigest(grant, r) ==
  CASE ~Launchable(grant, r) -> "invalidGrant"
    [] Launchable(grant, r) /\ \E l \in launches : l.request = r -> "replayed"
    [] OTHER -> "accepted"

\* Faulty: every command is taken once.
LaunchAnswerOnce(grant, r) ==
  CASE ~Launchable(grant, r) -> "invalidGrant"
    [] Launchable(grant, r) /\ Prior(r) # {} -> "commandConflict"
    [] OTHER -> "accepted"

LaunchAnswer(grant, r) ==
  CASE ~Launchable(grant, r) -> "invalidGrant"
    [] Launchable(grant, r) /\ \E l \in Prior(r) : l.request # r -> "commandConflict"
    [] Launchable(grant, r) /\ \E l \in Prior(r) : l.request = r -> "replayed"
    [] OTHER -> "accepted"

\* The receipt that goes with an answer; a refusal has none.
ReceiptsFor(r, status) ==
  CASE status = "accepted" -> {Receipt(r, ProviderInstanceID(r), status)}
    [] status = "replayed" -> {Receipt(l.request, l.instance, status) : l \in Prior(r)}
    [] OTHER -> {}

\* A refusal without a receipt is not final: Competios may send again.
LaunchExecution(grant, r) ==
  LET status == LaunchAnswer(grant, r)
  IN  /\ status # "invalidGrant"
      /\ launches' = launches \cup
           {[request |-> r, instance |-> x.instance] :
              x \in {y \in ReceiptsFor(r, status) : y.status = "accepted"}}
      /\ answers' = answers \cup
           {[request |-> r, status |-> status, receipts |-> ReceiptsFor(r, status)]}
      /\ UNCHANGED <<sinks, reports>>

-----------------------------------------------------------------------------
\* Events: what the instance of a launch reports of its request.
Identity(r, instance) ==
  [competition |-> r.competition, contest |-> r.contest, request |-> r.id,
   provider |-> r.provider, instance |-> instance]

Report(l, kind) ==
  [command |-> kind, kind |-> kind, execution |-> Identity(l.request, l.instance),
   slots |-> IF kind = "completed" THEN l.request.slots ELSE none]

Reported(l) == {Report(l, kind) : kind \in {"started", "completed", "cancelled"}}
Possible == UNION {Reported([request |-> r, instance |-> ProviderInstanceID(r)]) : r \in Request}

\* The sink of a request and its receipt, as EventSink has it.
Sink(s) == INSTANCE EventSink WITH
             Event <- Possible,
             Execution <- [identity |-> Identity(s.request, s.receipt.instance),
                           slots    |-> s.request.slots],
             state <- s.state,
             ledger <- s.ledger

-----------------------------------------------------------------------------
\* Competios.

ValidateExecutionReceiptForRequest(receipt, r) ==
  /\ r.sound
  /\ receipt.request = r.id /\ receipt.command = r.command /\ receipt.provider = r.provider
  /\ receipt.status \in {"accepted", "replayed"}

\* Faulty: the execution's state is the status of its receipt.
OpenSinkAsReceived(r, receipt) ==
  /\ ValidateExecutionReceiptForRequest(receipt, r)
  /\ \A s \in sinks : s.request # r
  /\ sinks' = sinks \cup {[request |-> r, receipt |-> receipt,
                           state |-> receipt.status, ledger |-> {}]}
  /\ UNCHANGED <<launches, answers, reports>>

\* The first receipt that answers a request opens its sink.
OpenSink(r, receipt) ==
  /\ ValidateExecutionReceiptForRequest(receipt, r)
  /\ \A s \in sinks : s.request # r
  /\ sinks' = sinks \cup {[request |-> r, receipt |-> receipt,
                           state |-> "accepted", ledger |-> {}]}
  /\ UNCHANGED <<launches, answers, reports>>

\* A game instance reports, whether or not Competios holds its receipt.
Play(e) == /\ reports' = reports \cup {e}
           /\ UNCHANGED <<launches, answers, sinks>>

\* The event reaches a sink, with its own grant.
SubmitExecutionEvent(s, e) ==
  LET grant == [purpose |-> Sink(s)!EventPurpose(e.kind), event |-> e]
  IN  /\ Sink(s)!Acknowledgement(grant, e) = "accepted"
      /\ sinks' = (sinks \ {s}) \cup {[s EXCEPT !.state = e.kind, !.ledger = @ \cup {e}]}
      /\ UNCHANGED <<launches, answers, reports>>

Next == \/ \E r, grant \in Request : LaunchExecution(grant, r)
        \/ \E a \in answers : \E receipt \in a.receipts : OpenSink(a.request, receipt)
        \/ \E l \in launches : \E e \in Reported(l) : Play(e)
        \/ \E s \in sinks, e \in reports : SubmitExecutionEvent(s, e)

Spec == Init /\ [][Next]_vars

-----------------------------------------------------------------------------
TypeOK ==
  /\ \A l \in launches : l.request \in Request
  /\ \A a \in answers : a.request \in Request
  /\ \A s \in sinks : s.request \in Request /\ s.ledger \subseteq reports
                      /\ s.state \in Sink(s)!State
  /\ \A a, b \in sinks : a.request = b.request => a = b

\* One instance to a command, and one command to an instance: whatever was sent
\* again or restated, all receipts Competios may ever act on for a command name
\* one instance, launched for just the request they answer
\* (provider_conformance.go:33-40, 54-83).
LaunchedOnce ==
  /\ \A k, l \in launches :
       k.request.command = l.request.command \/ k.instance = l.instance => k = l
  /\ \A a \in answers : \A x \in a.receipts :
       [request |-> a.request, instance |-> x.instance] \in launches

\* A fact recorded for a request was reported by the instance that was launched
\* for it, of the very slots that were frozen in it, though all executions of a
\* contest use the same commands and any sink may be handed any event
\* (contract.go:577-580).
FactsFromLaunch ==
  \A s \in sinks : \A e \in s.ledger :
    \E l \in launches : /\ l.request = s.request
                        /\ l.instance = s.receipt.instance
                        /\ e \in Reported(l)

\* Answers are final: who was refused for a conflict never held, and will never
\* hold, a receipt for that request, so Competios may act on either
\* (provider_conformance.go:54-91).
ConflictsFinal ==
  \A a, b \in answers :
    a.request = b.request /\ a.status = "commandConflict" => b.receipts = {}

\* For every request the competition sees one verdict, final once given.
LedgerOf(r) == UNION {s.ledger : s \in {t \in sinks : t.request = r}}
Verdict(r) == INSTANCE ContestVerdict WITH
  Result   <- {Report([request |-> r, instance |-> ProviderInstanceID(r)], "completed")},
  Abortion <- {Report([request |-> r, instance |-> ProviderInstanceID(r)], "cancelled")},
  started  <- \E e \in LedgerOf(r) : e.kind = "started",
  verdict  <- {e \in LedgerOf(r) : e.kind \in {"completed", "failed", "cancelled"}}
KeepsVerdicts ==
  /\ \A r \in Request : Verdict(r)!Init
  /\ [][\A r \in Request : Verdict(r)!Next \/ UNCHANGED Verdict(r)!vars]_vars
=============================================================================
