------------------------- MODULE ConformanceService -------------------------
(***************************************************************************)
(* Services as a conformance suite meets them: execution providers, event  *)
(* sinks, source providers, verifiers and issuers that somebody wrote      *)
(* against the ports of the contract.  A call passes the gates of the      *)
(* service one after another, and an accepted one is remembered.  Services *)
(* differ in the order of their gates, the gates they lack, the claims     *)
(* their binder forgets, the parts of a payload their digest overlooks,    *)
(* and one habit.                                                          *)
(***************************************************************************)
EXTENDS FiniteSetsExt, Naturals, Sequences

\* What a service does with the commands it knows and the answers it gives:
\* properly; remembers none; compares no payload; knows a command by its token, or
\* by its operation, only; remembers the last command; remembers refused commands;
\* forgets a command it refused; answers a refusal with the receipt of the command;
\* replays another receipt; calls any public source a match.
Habit == {"proper", "forgetful", "anyPayload", "byToken", "byOperation", "lastOnly",
          "recordsRefusals", "dropsOnRefusal", "leaks", "renews", "matchesAnything"}

Refusal == {"invalidGrant", "commandConflict", "invalidTransition", "refused", "leaked"}
Answer == Refusal \cup {"accepted", "mismatched", "replayed", "renewed"}

Empty == [ledger |-> {}, facts |-> {}]

\* The calls the ledger takes for earlier ones under the same command.
Prior(s, memory, call) ==
  {x \in memory.ledger :
     /\ x.command = call.command
     /\ s.habit # "forgetful"
     /\ s.habit = "byToken" => x.token = call.token
     /\ s.habit = "byOperation" => x.op = call.op}

\* Same operation and digest.  A payload is the set of parts that differ from
\* the fixture's.
SamePayload(s, x, call) ==
  \/ s.habit = "anyPayload"
  \/ x.op = call.op /\ x.body \ s.overlooks = call.body \ s.overlooks

\* The gate that asks for what a call needs. A source provider looks up the plan or
\* the artifact its bodies are judged by; publications and events come too early instead.
Asking(op) ==
  IF op \in {"candidate-closure-validate-retain", "artifact-disclosure-verify"}
  THEN "references" ELSE "order"

\* A call has claims that are off the operation, is outside of what the body or
\* the policy gate admits, and needs or bars facts.
Passes(s, memory, call, gate) ==
  /\ gate = "authority" => \A c \in call.off : <<call.op, c>> \in s.forgets
  /\ gate \in {"body", "policy"} => call.outside # gate
  /\ gate = Asking(call.op) => call.needs \subseteq memory.facts /\ call.bars \cap memory.facts = {}
  /\ gate = "ledger" => Prior(s, memory, call) = {}

\* What a gate answers a call it does not pass on.
GateAnswer(s, memory, call, gate) ==
  CASE gate \in {"authority", "body"} -> "invalidGrant"
    [] gate = "policy" -> "refused"
    [] gate \in {"order", "references"} -> "invalidTransition"
    [] gate = "ledger" -> IF \E x \in Prior(s, memory, call) : SamePayload(s, x, call)
                          THEN "replayed" ELSE "commandConflict"

\* The first gate that stops the call answers it; a call nothing stops succeeds.
GatesAnswer(s, memory, call) ==
  LET stops == {i \in DOMAIN s.gates : ~Passes(s, memory, call, s.gates[i])}
  IN  CASE stops # {} -> GateAnswer(s, memory, call, s.gates[Min(stops)])
        [] stops = {} /\ s.habit = "matchesAnything" -> "accepted"
        [] OTHER -> call.success

Reply(s, memory, call) ==
  LET answer == GatesAnswer(s, memory, call)
  IN  CASE s.habit = "leaks" /\ answer = "invalidGrant" /\ Prior(s, memory, call) # {} -> "leaked"
        [] s.habit = "renews" /\ answer = "replayed" -> "renewed"
        [] OTHER -> answer

Record(call) == [op |-> call.op, command |-> call.command, body |-> call.body, token |-> call.token]

\* What the service remembers after a call it answered so.
Remembered(s, memory, call, answer) ==
  CASE answer \in {"accepted", "mismatched"} ->
         [ledger |-> (IF s.habit = "lastOnly" THEN {} ELSE memory.ledger) \cup {Record(call)},
          facts  |-> IF answer = "accepted" THEN memory.facts \cup call.gives ELSE memory.facts]
    [] answer \in Refusal /\ s.habit = "recordsRefusals" /\ Prior(s, memory, call) = {} ->
         [memory EXCEPT !.ledger = @ \cup {Record(call)}]
    [] answer \in Refusal /\ s.habit = "dropsOnRefusal" ->
         [memory EXCEPT !.ledger = {x \in @ : x.command # call.command}]
    [] OTHER -> memory
=============================================================================
