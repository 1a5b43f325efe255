------------------------- MODULE EventDeliveryProof -------------------------
(***************************************************************************)
(* Theorems about EventDelivery, for every set of events, every misissued  *)
(* envelope and every number of concurrent requests.                       *)
(***************************************************************************)
EXTENDS EventDelivery, TLAPS

\* A request carrying an event under its own grant was verified with it.
CallsExercised == \A c \in calls : GrantBinds(c.grant, c.event) => c.event \in exercised

\* The inductive invariant: the safety properties of the runs, and where grants come from.
IInv == /\ TypeOK
        /\ CallsExercised
        /\ LedgerExplainsState
        /\ OnlyAuthorizedFacts
        /\ AnswersTrue

\* What an answered request tells the game, apart from what the game holds.
CallsTrue ==
  \A c \in calls : /\ Learns(c.status) = "recorded" => c.event \in ledger
                   /\ Learns(c.status) = "conflict" => KnownCommand(c.event) /\ c.event \notin ledger
\* What the game holds to be the outcome of its events.
KnownTrue ==
  \A e \in Event : /\ known[e] = "recorded" => e \in ledger
                   /\ known[e] = "conflict" => KnownCommand(e) /\ e \notin ledger

\* AnswersTrue is about the answers on their way and those that arrived.
LEMMA AnswersSplit == ASSUME TypeOK PROVE AnswersTrue <=> CallsTrue /\ KnownTrue
<1>1. \A c \in calls : c.event \in Event
  BY DEF TypeOK, Call
<1> QED
  BY <1>1 DEF AnswersTrue, CallsTrue, KnownTrue

\* The five answers exclude one another.
LEMMA AcknowledgementCases ==
  ASSUME NEW grant, NEW e
  PROVE  LET ack == Acknowledgement(grant, e)
         IN  /\ ack \in Status
             /\ ack = "accepted" <=> /\ Authorized(grant, e)
                                     /\ ~KnownCommand(e) /\ e \notin ledger /\ ValidTransition(e)
             /\ ack = "replayed" => e \in ledger
             /\ ack = "commandConflict" => KnownCommand(e) /\ e \notin ledger
BY DEF Acknowledgement, Status, KnownCommand

\* The invariant holds before anything is sent.
LEMMA InitIInv == Init => IInv
BY DEF Init, SinkInit, IInv, TypeOK, SinkTypeOK, State, Kind, Terminal, CallsExercised,
       LedgerExplainsState, OnlyAuthorizedFacts, AnswersTrue, Learns

-----------------------------------------------------------------------------
\* Steps that leave the sink and the history alone, add no request and teach the
\* game nothing preserve everything but the types.
LEMMA SinkUntouched ==
  ASSUME IInv, UNCHANGED <<state, ledger, known, exercised>>, calls' \subseteq calls
  PROVE  /\ SinkTypeOK' /\ calls' \subseteq Call
         /\ known' \in [Event -> {"open", "recorded", "conflict"}] /\ exercised' \subseteq Event
         /\ CallsExercised' /\ LedgerExplainsState' /\ OnlyAuthorizedFacts' /\ AnswersTrue'
<1>1. SinkTypeOK' /\ LedgerExplainsState' /\ OnlyAuthorizedFacts'
  BY DEF IInv, TypeOK, SinkTypeOK, LedgerExplainsState, OnlyAuthorizedFacts
<1>2. /\ calls' \subseteq Call /\ CallsExercised' /\ exercised' \subseteq Event
      /\ known' \in [Event -> {"open", "recorded", "conflict"}]
  BY DEF IInv, TypeOK, CallsExercised
<1>3. AnswersTrue'
  <2> SUFFICES ASSUME NEW e \in Event
               PROVE  LET told == {known'[e]} \cup {Learns(c.status) : c \in {d \in calls' : d.event = e}}
                      IN  /\ "recorded" \in told => e \in ledger'
                          /\ "conflict" \in told => KnownCommand(e)' /\ e \notin ledger'
    BY DEF AnswersTrue
  <2> QED
    BY DEF IInv, AnswersTrue, KnownCommand
<1> QED
  BY <1>1, <1>2, <1>3

\* Sending touches the network only.
LEMMA SendStep ==
  ASSUME IInv, NEW m \in {Own(e) : e \in Event} \cup Mixed, Send(m)
  PROVE  IInv'
<1>1. m \in Envelope
  BY DeliveryAssumption DEF Own, EventGrant, EventPurpose, Envelope, Grant, Purpose
<1>2. network' \subseteq Envelope
  BY <1>1 DEF Send, IInv, TypeOK
<1> QED
  BY <1>2, SinkUntouched DEF Send, IInv, TypeOK

\* Losing an envelope touches the network only.
LEMMA ExpireStep == ASSUME IInv, NEW m \in network, Expire(m) PROVE IInv'
<1>1. network' \subseteq Envelope
  BY DEF Expire, IInv, TypeOK
<1> QED
  BY <1>1, SinkUntouched DEF Expire, IInv, TypeOK

\* A request that dies leaves what its sink recorded.
LEMMA DropStep == ASSUME IInv, NEW c \in calls, Drop(c) PROVE IInv'
<1>1. network' \subseteq Envelope
  BY DEF Drop, IInv, TypeOK
<1> QED
  BY <1>1, SinkUntouched DEF Drop, IInv, TypeOK

\* A verified request has told the game nothing yet, and exercises the grant it came with.
LEMMA VerifyStep == ASSUME IInv, NEW m \in network, Verify(m) PROVE IInv'
<1> DEFINE new == [grant |-> m.grant, event |-> m.event, status |-> "pending"]
<1>1. m \in Envelope /\ m.event \in Event /\ m.grant \in Grant
  BY DEF IInv, TypeOK, Envelope
<1>2. /\ UNCHANGED <<state, ledger, known>> /\ calls' = calls \cup {new}
      /\ exercised' = exercised \cup {e \in {m.event} : m = Own(e)}
      /\ network' \subseteq network
  BY DEF Verify
<1>3. new \in Call
  BY <1>1 DEF Call, Status
<1>4. TypeOK'
  BY <1>1, <1>2, <1>3 DEF IInv, TypeOK, SinkTypeOK
<1>5. GrantBinds(new.grant, new.event) => m = Own(m.event)
  BY <1>1 DEF GrantBinds, Own, EventGrant, Envelope, Grant
<1>6. CallsExercised'
  BY <1>2, <1>5 DEF IInv, CallsExercised
<1>7. LedgerExplainsState' /\ OnlyAuthorizedFacts'
  BY <1>2 DEF IInv, LedgerExplainsState, OnlyAuthorizedFacts
<1>8. Learns(new.status) = "open"
  BY DEF Learns
<1>9. CallsTrue' /\ KnownTrue'
  BY <1>2, <1>8, AnswersSplit DEF IInv, CallsTrue, KnownTrue, KnownCommand
<1> QED
  BY <1>4, <1>6, <1>7, <1>9, AnswersSplit, PTL DEF IInv

\* The game learns what the answer says, and the answer was true.
LEMMA ReceiveStep == ASSUME IInv, NEW c \in calls, Receive(c) PROVE IInv'
<1>1. /\ UNCHANGED <<state, ledger, network, exercised>> /\ calls' \subseteq calls
      /\ known' = [known EXCEPT ![c.event] = IF @ = "open" THEN Learns(c.status) ELSE @]
  BY DEF Receive
<1>2. /\ c.event \in Event /\ Learns(c.status) \in {"open", "recorded", "conflict"}
      /\ known \in [Event -> {"open", "recorded", "conflict"}]
  BY DEF IInv, TypeOK, Call, Learns
<1>3. TypeOK'
  BY <1>1, <1>2 DEF IInv, TypeOK, SinkTypeOK
<1>4. CallsExercised' /\ LedgerExplainsState' /\ OnlyAuthorizedFacts'
  BY <1>1 DEF IInv, CallsExercised, LedgerExplainsState, OnlyAuthorizedFacts
<1>5. CallsTrue /\ KnownTrue
  BY AnswersSplit DEF IInv
<1>6. CallsTrue' /\ KnownTrue'
  BY <1>1, <1>2, <1>5 DEF CallsTrue, KnownTrue, KnownCommand
<1> QED
  BY <1>3, <1>4, <1>6, AnswersSplit, PTL DEF IInv

\* A fact is recorded only under its own verified grant, for a new command and
\* where the lifecycle allows it; every other answer changes nothing.
LEMMA SubmitEffect ==
  ASSUME IInv, NEW c \in calls, Submit(c)
  PROVE  /\ c.event \in Event /\ c.event.kind \in Kind
         /\ \/ /\ Authorized(c.grant, c.event)
               /\ ~KnownCommand(c.event) /\ c.event \notin ledger /\ ValidTransition(c.event)
               /\ ledger' = ledger \cup {c.event} /\ state' = c.event.kind
            \/ /\ UNCHANGED sinkVars
               /\ Acknowledgement(c.grant, c.event) # "accepted"
<1>1. c.event \in Event /\ c.event.kind \in Kind
  BY EventAssumption DEF IInv, TypeOK, Call
<1> QED
  BY <1>1, AcknowledgementCases DEF Submit, SubmitExecutionEvent

\* The sink answers by its ledger and records only what its state allows: the answers
\* already given stay true.
LEMMA SubmitStep == ASSUME IInv, NEW c \in calls, Submit(c) PROVE IInv'
<1> DEFINE e == c.event
           ack == Acknowledgement(c.grant, e)
           new == [c EXCEPT !.status = ack]
<1>1. /\ UNCHANGED <<network, known, exercised>>
      /\ calls' = (calls \ {c}) \cup {new}
  BY DEF Submit
<1>2. c \in Call /\ e \in Event /\ e.kind \in Kind /\ ack \in Status
  BY SubmitEffect, AcknowledgementCases DEF IInv, TypeOK
<1>3. new \in Call /\ new.event = e /\ new.grant = c.grant /\ new.status = ack
  BY <1>2 DEF Call
<1> HIDE DEF new, ack
<1>4. TypeOK'
  BY <1>1, <1>2, <1>3, SubmitEffect DEF IInv, TypeOK, SinkTypeOK, State, sinkVars
<1>5. CallsExercised'
  BY <1>1, <1>3 DEF IInv, CallsExercised
<1>6. OnlyAuthorizedFacts'
  BY <1>1, SubmitEffect DEF IInv, OnlyAuthorizedFacts, CallsExercised, Authorized, sinkVars
<1>7. LedgerExplainsState'
  <2>1. CASE UNCHANGED sinkVars
    BY <2>1 DEF IInv, LedgerExplainsState, sinkVars
  <2>2. CASE /\ ~KnownCommand(e) /\ ValidTransition(e)
             /\ ledger' = ledger \cup {e} /\ state' = e.kind
    <3>1. \A a, b \in ledger' : a.command = b.command => a = b
      BY <2>2 DEF IInv, LedgerExplainsState, KnownCommand
    <3>2. /\ state \in {"accepted", "started"}
          /\ state = "accepted" => e.kind # "completed"
          /\ state = "started" => e.kind # "started"
      BY <2>2 DEF ValidTransition, Follows, IInv, TypeOK, SinkTypeOK, State, Kind
    <3>3. state' = "started" <=> ledger' # {} /\ \A f \in ledger' : f.kind = "started"
      BY <2>2, <3>2 DEF IInv, LedgerExplainsState
    <3>4. /\ state' = "accepted" <=> ledger' = {}
          /\ state' \in Terminal => \E f \in ledger' : f.kind = state'
      BY <1>2, <2>2 DEF Kind
    <3> QED
      BY <3>1, <3>3, <3>4 DEF LedgerExplainsState
  <2> QED
    BY <2>1, <2>2, SubmitEffect
<1>8. CallsTrue /\ KnownTrue
  BY AnswersSplit DEF IInv
<1>9. \A f \in Event : /\ f \in ledger => f \in ledger'
                       /\ KnownCommand(f) => KnownCommand(f)'
                       /\ KnownCommand(f) /\ f \notin ledger => f \notin ledger'
  BY <1>2, SubmitEffect DEF KnownCommand, sinkVars
<1>10. CallsTrue'
  <2>1. /\ Learns(ack) = "recorded" => e \in ledger'
        /\ Learns(ack) = "conflict" => KnownCommand(e)' /\ e \notin ledger'
    <3>1. Learns(ack) = "recorded" => ack \in {"accepted", "replayed"}
      BY DEF Learns
    <3>2. Learns(ack) = "conflict" => ack = "commandConflict"
      BY DEF Learns
    <3>3. ack = "accepted" => e \in ledger'
      BY SubmitEffect DEF ack
    <3>4. ack = "replayed" => e \in ledger
      BY AcknowledgementCases DEF ack
    <3>5. ack = "commandConflict" => KnownCommand(e) /\ e \notin ledger
      BY AcknowledgementCases DEF ack
    <3> QED
      BY <1>2, <1>9, <3>1, <3>2, <3>3, <3>4, <3>5
  <2>2. ASSUME NEW d \in calls
        PROVE  /\ Learns(d.status) = "recorded" => d.event \in ledger'
               /\ Learns(d.status) = "conflict" => KnownCommand(d.event)' /\ d.event \notin ledger'
    <3>1. d.event \in Event
      BY DEF IInv, TypeOK, Call
    <3> QED
      BY <1>8, <1>9, <3>1 DEF CallsTrue
  <2> QED
    BY <1>1, <1>3, <2>1, <2>2 DEF CallsTrue
<1>11. KnownTrue'
  BY <1>1, <1>8, <1>9 DEF KnownTrue
<1> QED
  BY <1>4, <1>5, <1>6, <1>7, <1>10, <1>11, AnswersSplit, PTL DEF IInv

\* Every step preserves the invariant.
LEMMA NextIInv == ASSUME IInv, [Next]_vars PROVE IInv'
<1>1. CASE \E m \in {Own(e) : e \in Event} \cup Mixed : Send(m)
  BY <1>1, SendStep
<1>2. CASE \E m \in network : Verify(m) \/ Expire(m)
  BY <1>2, VerifyStep, ExpireStep
<1>3. CASE \E c \in calls : Submit(c) \/ Receive(c) \/ Drop(c)
  BY <1>3, SubmitStep, ReceiveStep, DropStep
<1>4. CASE UNCHANGED vars
  BY <1>4, SinkUntouched DEF vars, IInv, TypeOK
<1> QED
  BY <1>1, <1>2, <1>3, <1>4 DEF Next

-----------------------------------------------------------------------------
\* Every reachable state satisfies the invariant.
THEOREM Invariance == Spec => []IInv
<1> QED
  BY InitIInv, NextIInv, PTL DEF Spec

\* What the game is told about an event is true and stays true.
THEOREM AnswersStayTrue == Spec => []AnswersTrue
<1>1. IInv => AnswersTrue
  BY DEF IInv
<1> QED
  BY <1>1, Invariance, PTL

\* The sink holds no fact but those reported under their own verified grant.
THEOREM FactsAuthorized == Spec => []OnlyAuthorizedFacts
<1>1. IInv => OnlyAuthorizedFacts
  BY DEF IInv
<1> QED
  BY <1>1, Invariance, PTL

\* One payload for each command, and a state the recorded facts add up to.
THEOREM StateExplained == Spec => []LedgerExplainsState
<1>1. IInv => LedgerExplainsState
  BY DEF IInv
<1> QED
  BY <1>1, Invariance, PTL

\* The state, the ledger and everything under way have their types.
THEOREM TypeCorrect == Spec => []TypeOK
<1>1. IInv => TypeOK
  BY DEF IInv
<1> QED
  BY <1>1, Invariance, PTL

\* A recorded event sent again under its own grant is a replay, whatever the
\* lifecycle says by then: its place in the ledger proves it authorized.
LEMMA RetryIsReplay ==
  ASSUME IInv, NEW c \in calls, c.event \in ledger, GrantBinds(c.grant, c.event)
  PROVE  Acknowledgement(c.grant, c.event) = "replayed"
<1>1. Authorized(c.grant, c.event)
  BY DEF IInv, OnlyAuthorizedFacts, Authorized
<1>2. KnownCommand(c.event)
  BY DEF KnownCommand
<1> QED
  BY <1>1, <1>2 DEF Acknowledgement

\* However late and however often a recorded event comes again, the retry is
\* answered as the replay it is and the execution stays as it was.
THEOREM RetriesReplay == Spec => ExactRetryReplays
<1> DEFINE Replays == \A c \in calls :
             c.event \in ledger /\ GrantBinds(c.grant, c.event) /\ Submit(c) =>
               /\ [c EXCEPT !.status = "replayed"] \in calls'
               /\ UNCHANGED sinkVars
<1>1. IInv /\ [Next]_vars => [Replays]_vars
  <2> SUFFICES ASSUME IInv, NEW c \in calls, c.event \in ledger,
                      GrantBinds(c.grant, c.event), Submit(c)
               PROVE  [c EXCEPT !.status = "replayed"] \in calls' /\ UNCHANGED sinkVars
    OBVIOUS
  <2>1. Acknowledgement(c.grant, c.event) = "replayed"
    BY RetryIsReplay
  <2>2. UNCHANGED sinkVars
    BY <2>1 DEF Submit, SubmitExecutionEvent
  <2>3. calls' = (calls \ {c}) \cup {[c EXCEPT !.status = "replayed"]}
    BY <2>1 DEF Submit
  <2> QED
    BY <2>2, <2>3
<1> HIDE DEF Replays
<1>2. Spec => [][Replays]_vars
  BY <1>1, Invariance, PTL DEF Spec
<1> QED
  BY <1>2 DEF ExactRetryReplays, Replays

\* A recorded fact either is the start or the verdict of the execution.
LEMMA RecordIsVerdictStep ==
  ASSUME IInv, NEW c \in calls, Submit(c), ~UNCHANGED sinkVars
  PROVE  \/ Verdict!Start
         \/ \E v \in {e \in Event : e.kind = "completed"}
                       \cup {e \in Event : e.kind \in {"failed", "cancelled"}} : Verdict!Conclude(v)
<1> DEFINE e == c.event
           started == \E f \in ledger : f.kind = "started"
           verdict == {f \in ledger : f.kind \in Terminal}
<1>1. /\ e \in Event /\ e.kind \in Kind /\ ValidTransition(e)
      /\ ledger' = ledger \cup {e} /\ state' = e.kind
  BY SubmitEffect
<1>2. /\ state \in {"accepted", "started"}
      /\ state = "accepted" => e.kind # "completed"
      /\ state = "started" => e.kind # "started"
  BY <1>1 DEF ValidTransition, Follows, IInv, TypeOK, SinkTypeOK, State, Kind
<1>3. /\ state = "accepted" => ledger = {}
      /\ state = "started" => ledger # {} /\ \A f \in ledger : f.kind = "started"
  BY DEF IInv, LedgerExplainsState
<1>4. verdict = {} /\ (started <=> state = "started")
  BY <1>2, <1>3 DEF Terminal
<1>5. CASE e.kind = "started"
  <2>1. ~started /\ started' /\ verdict' = verdict
    BY <1>1, <1>2, <1>4, <1>5 DEF Terminal
  <2> QED
    BY <1>4, <2>1 DEF Verdict!Start
<1>6. CASE e.kind \in Terminal
  <2>1. verdict' = {e} /\ (started' <=> started)
    BY <1>1, <1>4, <1>6 DEF Terminal
  <2>2. e.kind = "completed" => started
    BY <1>2, <1>4
  <2>3. Verdict!Conclude(e)
    BY <1>4, <2>1, <2>2 DEF Verdict!Conclude
  <2>4. e \in {f \in Event : f.kind = "completed"} \cup {f \in Event : f.kind \in {"failed", "cancelled"}}
    BY <1>1, <1>6 DEF Terminal
  <2> QED
    BY <2>3, <2>4
<1> QED
  BY <1>1, <1>5, <1>6 DEF Kind, Terminal

\* Through retries, duplicates, reordering and crashes, the sink implements the
\* verdict a competition relies on.
THEOREM SinkKeepsVerdict == Spec => KeepsVerdict
<1>1. Init => Verdict!Init
  BY DEF Init, SinkInit, Verdict!Init
<1>2. IInv /\ [Next]_vars => [Verdict!Next]_(Verdict!vars)
  <2> SUFFICES ASSUME IInv, [Next]_vars PROVE Verdict!Next \/ UNCHANGED sinkVars
    BY DEF Verdict!vars, sinkVars
  <2>1. CASE \E c \in calls : Submit(c)
    BY <2>1, RecordIsVerdictStep DEF Verdict!Next
  <2>2. CASE ~ \E c \in calls : Submit(c)
    BY <2>2 DEF Next, vars, sinkVars, Send, Verify, Expire, Receive, Drop
  <2> QED
    BY <2>1, <2>2
<1> QED
  BY <1>1, <1>2, Invariance, PTL DEF Spec, KeepsVerdict, Verdict!Spec
=============================================================================
