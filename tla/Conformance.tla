---------------------------- MODULE Conformance ----------------------------
(***************************************************************************)
(* A suite examines a service, call after call, and counts violations.     *)
(* The calls are not independent: the main service remembers what earlier  *)
(* probes made of it, and a failed setup skips the probes that lean on it. *)
(***************************************************************************)
EXTENDS LaunchSuite, EventSuite, SourceSuite, GrantSuite

CONSTANTS Order,            \* the orders maps are visited in
          Suite,            \* the suites, by name
          Specimen(_)       \* bound: the services a suite is tried on

VARIABLES suite, service, mapOrder,
          next,        \* the suite's next call
          main,        \* what the main service remembers
          fresh,       \* what the latest fresh one does
          violations   \* the calls that were answered wrongly

vars == <<suite, service, mapOrder, next, main, fresh, violations>>

\* An adapter of a participant-scheduled game is put to its policy suite as well.
Calls(name, o) ==
  CASE name = "launch"           -> CheckExecutionProvider("provider-executed", o)
    [] name = "scheduled launch" -> CheckExecutionProvider("participant-scheduled", o)
                                    \o CheckParticipantScheduledProviderPolicy(o)
    [] name = "events"           -> CheckExecutionEventSink("provider-executed", o)
    [] name = "scheduled events" -> CheckExecutionEventSink("participant-scheduled", o)
    [] name = "source"           -> CheckSourceArtifactProvider(o)
    [] name = "verifier"         -> CheckOperationGrantVerifier(o)
    [] name = "authority"        -> CheckOperationGrantAuthority(o)

Script == {[suite |-> name, order |-> o, calls |-> Calls(name, o)] : name \in Suite, o \in Order}
script == (CHOOSE s \in Script : s.suite = suite /\ s.order = mapOrder).calls

Init == /\ suite \in Suite /\ service \in Specimen(suite) /\ mapOrder \in Order
        /\ next = 1 /\ main = Empty /\ fresh = Empty /\ violations = {}

\* Where the suite goes on after an answer.
Continue(call, answer) ==
  CASE answer \in call.ends -> Len(script) + 1
    [] answer \in call.skips \ call.ends ->
         Min({i \in next + 1 .. Len(script) : script[i].on # "same"} \cup {Len(script) + 1})
    [] OTHER -> next + 1

Judge(call, answer) ==
  /\ violations' = IF answer \in call.want THEN violations ELSE violations \cup {next}
  /\ next' = Continue(call, answer)
  /\ UNCHANGED <<suite, service, mapOrder>>

CallMain ==
  /\ next <= Len(script) /\ script[next].on = "main"
  /\ LET call == script[next]
         answer == Reply(service, main, call)
     IN  Judge(call, answer) /\ main' = Remembered(service, main, call, answer)
  /\ UNCHANGED fresh

CallFresh ==
  /\ next <= Len(script) /\ script[next].on # "main"
  /\ LET call == script[next]
         memory == IF call.on = "fresh" THEN Empty ELSE fresh
         answer == Reply(service, memory, call)
     IN  Judge(call, answer) /\ fresh' = Remembered(service, memory, call, answer)
  /\ UNCHANGED main

Next == CallMain \/ CallFresh
Spec == Init /\ [][Next]_vars

-----------------------------------------------------------------------------
LaunchSuites == {"launch", "scheduled launch"}
EventSuites  == {"events", "scheduled events"}

\* The gates a service under a suite has, and which of two must come first.
Gates(name) ==
  CASE name \in LaunchSuites -> {"authority", "body", "ledger", "policy"}
    [] name \in EventSuites  -> {"authority", "body", "ledger", "order"}
    [] name = "source"    -> {"authority", "body", "ledger", "references", "order"}
    [] name = "verifier"  -> {"authority", "ledger"}
    [] name = "authority" -> {"authority"}

Precedence(name) ==
  CASE name \in LaunchSuites -> {<<"authority", "ledger">>, <<"body", "ledger">>, <<"ledger", "policy">>}
    [] name \in EventSuites  -> {<<"authority", "ledger">>, <<"body", "ledger">>, <<"ledger", "order">>}
    [] name = "source"    -> {<<"authority", "ledger">>, <<"body", "ledger">>, <<"ledger", "order">>}
    [] name = "verifier"  -> {<<"ledger", "authority">>}
    [] name = "authority" -> {}

\* The claims a binder must check: those its operation has, and one it must not have.
Binding(purpose) ==
  Envelope \cup Required(purpose) \cup
  CASE purpose = "contest-launch" -> {"providerInstanceID", "participantID"}
    [] purpose \in {"contest-started-event", "contest-result-event"} -> {"participantID"}
    [] purpose \in SourcePurpose -> {"competitionID"}

EventClaims(claims) == {"contest-started-event", "contest-result-event"} \X claims

Claims(name) ==
  CASE name \in LaunchSuites -> {"contest-launch"} \X Binding("contest-launch")
    [] name \in EventSuites  -> EventClaims(Binding("contest-started-event"))
    [] name = "source"    -> UNION {{p} \X Binding(p) : p \in SourcePurpose}
    [] name = "verifier"  -> {"verify"} \X (untrusted \cup {"signature"})
    [] name = "authority" -> Purpose \X ({"purpose"} \cup Field)

\* What a digest must cover.
Parts(name) ==
  CASE name = "launch"           -> LaunchDigested("provider-executed")
    [] name = "scheduled launch" -> LaunchDigested("participant-scheduled")
    [] name = "events"           -> EventDigested("provider-executed")
    [] name = "scheduled events" -> EventDigested("participant-scheduled")
    [] name = "source"           -> {"version", "files"}
    [] name = "verifier"         -> (Envelope \ {"tokenID"}) \cup Field
    [] name = "authority"        -> {}

\* The bad habits a service under a suite can have.
Habits(name) ==
  LET ledger == {"forgetful", "anyPayload", "byToken", "lastOnly", "recordsRefusals",
                 "dropsOnRefusal", "leaks", "renews"}
  IN  CASE name \in LaunchSuites -> ledger
        [] name \in EventSuites  -> ledger \cup {"byOperation"}
        [] name = "source"    -> ledger \cup {"byOperation", "matchesAnything"}
        [] name = "verifier"  -> {"forgetful", "anyPayload"}
        [] name = "authority" -> {}

\* Whatever a service lacks, its gates are some of those its suite is about.
ASSUME SpecimenAssumption ==
  /\ Suite \subseteq LaunchSuites \cup EventSuites \cup {"source", "verifier", "authority"}
  /\ \A name \in Suite : \A s \in Specimen(name) : s.gates \in Seq(Gates(name))

\* It runs each gate once, and what it forgets, overlooks and is used to is of the
\* kind the suite is about.
ASSUME ServiceAssumption ==
  \A name \in Suite : \A s \in Specimen(name) :
    /\ IsInjective(s.gates)
    /\ s.forgets \subseteq Claims(name) /\ s.overlooks \subseteq Parts(name)
    /\ s.habit \in {"proper"} \cup Habits(name)

\* What is wrong with a service.
Flaws(name, s) ==
  LET Before(a, b) == \E i, j \in DOMAIN s.gates : i < j /\ s.gates[i] = a /\ s.gates[j] = b
  IN  {<<"lacks", g>> : g \in Gates(name) \ Range(s.gates)}
      \cup {<<"inverts", p[1], p[2]>> : p \in {q \in Precedence(name) : Before(q[2], q[1])}}
      \cup {<<"forgets", c[1], c[2]>> : c \in s.forgets}
      \cup {<<"overlooks", part>> : part \in s.overlooks}
      \cup {<<"habit", h>> : h \in {s.habit} \ {"proper"}}

\* The flaws a suite has no call for: no suite comes back to an earlier command
\* after a later one; only the policy suite tries an adapter's own games; events
\* keep their token's ID and times; nobody puts a competition into a source grant;
\* display names and the optional evidence of a played game stay as they are.
Untested(name) ==
  {<<"habit", "lastOnly">>} \cup
  CASE name = "launch"           -> {<<"lacks", "policy">>}
    [] name = "scheduled launch" -> {<<"overlooks", "displayName">>}
    [] name \in EventSuites ->
         {<<"forgets", c[1], c[2]>> : c \in EventClaims({"tokenID", "issuedAt", "expiresAt"})}
         \cup {<<"overlooks", part>> : part \in {"terminalState", "eventLog"}}
    [] name = "source"           -> {<<"forgets", p, "competitionID">> : p \in SourcePurpose}
    [] OTHER                     -> {}

finished == next > Len(script)

\* A service whose flaws no call is meant for passes: the suites ask for nothing
\* the contract leaves open, whatever order Go visits the mutations in.
AlarmsOnlyForFlaws == Flaws(suite, service) \subseteq Untested(suite) => violations = {}

\* Every other service fails: what earlier probes left in its ledger, a probe that
\* was skipped and a second flaw hide none of the flaws.
CatchesEveryFlaw == finished /\ violations = {} => Flaws(suite, service) \subseteq Untested(suite)
=============================================================================
