------------------------- MODULE ContestLaunchProof -------------------------
(***************************************************************************)
(* Theorems about ContestLaunch, for every set of requests and slots: any  *)
(* number of contests, rematches and restated requests, whatever is lost,  *)
(* repeated or handed to the wrong sink.                                   *)
(***************************************************************************)
EXTENDS ContestLaunch, TLAPS

\* The ledger names each instance after its request and has one entry to a command.
Ledger ==
  /\ \A l \in launches :
       l.request \in Request /\ l = [request |-> l.request, instance |-> ProviderInstanceID(l.request)]
  /\ \A k, l \in launches : k.request.command = l.request.command => k = l

\* A receipt is backed by the launch of the request it answers, and a conflict by
\* the launch of another request under its command.
Answers ==
  \A a \in answers :
    /\ a.request \in Request
    /\ \A x \in a.receipts : [request |-> a.request, instance |-> x.instance] \in launches
    /\ a.status = "commandConflict" =>
         \E l \in launches : l.request.command = a.request.command /\ l.request # a.request

\* Only launched instances report.
Reports == \A e \in reports : \E l \in launches : e \in Reported(l)

\* The shape of a sink, and the launch its receipt stands for.
Sinks ==
  /\ \A s \in sinks :
       /\ s = [request |-> s.request, receipt |-> s.receipt, state |-> s.state, ledger |-> s.ledger]
       /\ [request |-> s.request, instance |-> s.receipt.instance] \in launches
       /\ s.state \in {"accepted", "started", "completed", "failed", "cancelled"}
       /\ s.ledger \subseteq reports
  /\ \A a, b \in sinks : a.request = b.request => a = b

\* A sink that has not ended holds no more than starts.
Explained ==
  \A s \in sinks : /\ s.state = "accepted" => s.ledger = {}
                   /\ s.state = "started" => s.ledger # {} /\ \A e \in s.ledger : e.kind = "started"

\* The inductive invariant.  That facts are of the launched instance rests on the
\* ledger: an instance stands for one request only.
IInv == Ledger /\ Answers /\ Reports /\ Sinks /\ Explained /\ FactsFromLaunch

\* Nothing is launched at first.
LEMMA InitIInv == Init => IInv
BY DEF Init, IInv, Ledger, Answers, Reports, Sinks, Explained, FactsFromLaunch

\* Launches of one instance are one: an instance is named for its request's ID,
\* and an ID comes under one command.
LEMMA InstanceTellsLaunch ==
  ASSUME Ledger, NEW k \in launches, NEW l \in launches, k.instance = l.instance
  PROVE  k = l
<1>1. k.request.id = l.request.id
  BY DEF Ledger, ProviderInstanceID
<1> QED
  BY <1>1, LaunchAssumption DEF Ledger

\* What the answers to a launch mean for its command.
LEMMA AnswerCases ==
  ASSUME NEW grant \in Request, NEW r \in Request
  PROVE  /\ LaunchAnswer(grant, r) \in {"invalidGrant", "commandConflict", "replayed", "accepted"}
         /\ LaunchAnswer(grant, r) = "commandConflict" => \E l \in Prior(r) : l.request # r
         /\ LaunchAnswer(grant, r) = "replayed" => \E l \in Prior(r) : l.request = r
         /\ LaunchAnswer(grant, r) = "accepted" => Prior(r) = {}
BY DEF LaunchAnswer

\* A launch adds at most one entry, for a command that had none.
LEMMA LaunchStep ==
  ASSUME IInv, NEW grant \in Request, NEW r \in Request, LaunchExecution(grant, r)
  PROVE  IInv'
<1> DEFINE status == LaunchAnswer(grant, r)
           new == [request |-> r, instance |-> ProviderInstanceID(r)]
           answer == [request |-> r, status |-> status, receipts |-> ReceiptsFor(r, status)]
<1>1. /\ answers' = answers \cup {answer} /\ UNCHANGED <<sinks, reports>>
      /\ status # "invalidGrant"
  BY DEF LaunchExecution
<1>2. CASE status = "accepted"
  <2>1. ReceiptsFor(r, status) = {Receipt(r, ProviderInstanceID(r), "accepted")}
    BY <1>2 DEF ReceiptsFor
  <2>2. launches' = launches \cup {new}
    <3> DEFINE receipt == Receipt(r, ProviderInstanceID(r), "accepted")
    <3>1. receipt.status = "accepted" /\ receipt.instance = ProviderInstanceID(r)
      BY DEF Receipt
    <3>2. {y \in ReceiptsFor(r, status) : y.status = "accepted"} = {receipt}
      BY <2>1, <3>1
    <3>3. {[request |-> r, instance |-> x.instance] : x \in {receipt}} = {new}
      BY <3>1
    <3> HIDE DEF receipt
    <3> QED
      BY <3>2, <3>3 DEF LaunchExecution
  <2>3. \A l \in launches : l.request.command # r.command
    BY <1>2, AnswerCases DEF Prior
  <2>4. Ledger'
    BY <2>2, <2>3 DEF IInv, Ledger, ProviderInstanceID
  <2>5. Answers'
    <3>1. \A x \in answer.receipts : [request |-> r, instance |-> x.instance] = new
      BY <2>1 DEF Receipt
    <3> QED
      BY <1>1, <1>2, <2>2, <3>1 DEF IInv, Answers
  <2>6. Reports' /\ Sinks' /\ Explained' /\ FactsFromLaunch'
    BY <1>1, <2>2 DEF IInv, Reports, Sinks, Explained, FactsFromLaunch, Reported, Report, Identity
  <2> QED
    BY <2>4, <2>5, <2>6 DEF IInv
<1>3. CASE status # "accepted"
  <2>1. \A x \in ReceiptsFor(r, status) : x.status # "accepted"
    BY <1>3 DEF ReceiptsFor, Receipt
  <2>2. launches' = launches
    BY <2>1 DEF LaunchExecution
  <2>3. CASE status = "replayed"
    <3>1. Prior(r) \subseteq launches /\ \A l \in Prior(r) : l.request = r
      BY <2>3, AnswerCases DEF IInv, Ledger, Prior
    <3>2. ReceiptsFor(r, status) = {Receipt(l.request, l.instance, status) : l \in Prior(r)}
      BY <2>3 DEF ReceiptsFor
    <3>3. \A x \in answer.receipts : [request |-> r, instance |-> x.instance] \in launches
      BY <3>1, <3>2 DEF Receipt, IInv, Ledger
    <3>4. Answers'
      BY <1>1, <2>2, <2>3, <3>3 DEF IInv, Answers
    <3> QED
      BY <1>1, <2>2, <3>4 DEF IInv, Ledger, Reports, Sinks, Explained, FactsFromLaunch
  <2>4. CASE status = "commandConflict"
    <3>1. \E l \in launches : l.request.command = r.command /\ l.request # r
      BY <2>4, AnswerCases DEF Prior
    <3>2. answer.receipts = {}
      BY <2>4 DEF ReceiptsFor
    <3>3. Answers'
      BY <1>1, <2>2, <3>1, <3>2 DEF IInv, Answers
    <3> QED
      BY <1>1, <2>2, <3>3 DEF IInv, Ledger, Reports, Sinks, Explained, FactsFromLaunch
  <2> QED
    BY <1>1, <1>3, <2>3, <2>4, AnswerCases
<1> QED
  BY <1>2, <1>3

\* A sink opens, empty, on a receipt for its request.
LEMMA OpenStep ==
  ASSUME IInv, NEW a \in answers, NEW receipt \in a.receipts, OpenSink(a.request, receipt)
  PROVE  IInv'
<1> DEFINE new == [request |-> a.request, receipt |-> receipt, state |-> "accepted", ledger |-> {}]
<1>1. /\ sinks' = sinks \cup {new} /\ UNCHANGED <<launches, answers, reports>>
      /\ \A s \in sinks : s.request # a.request
  BY DEF OpenSink
<1>2. [request |-> new.request, instance |-> new.receipt.instance] \in launches
  BY DEF IInv, Answers
<1>3. Sinks'
  <2>1. new.request = a.request /\ new.ledger = {} /\ new.state = "accepted"
    OBVIOUS
  <2>2. new = [request |-> new.request, receipt |-> new.receipt, state |-> new.state,
               ledger |-> new.ledger]
    OBVIOUS
  <2> HIDE DEF new
  <2>3. \A k, l \in sinks' : k.request = l.request => k = l
    BY <1>1, <2>1 DEF IInv, Sinks
  <2> QED
    BY <1>1, <1>2, <2>1, <2>2, <2>3 DEF IInv, Sinks
<1>4. Explained' /\ FactsFromLaunch'
  BY <1>1 DEF IInv, Explained, FactsFromLaunch
<1> QED
  BY <1>1, <1>3, <1>4 DEF IInv, Ledger, Answers, Reports

\* A report is of a launch.
LEMMA PlayStep ==
  ASSUME IInv, NEW l \in launches, NEW e \in Reported(l), Play(e)
  PROVE  IInv'
<1>1. reports' = reports \cup {e} /\ UNCHANGED <<launches, answers, sinks>>
  BY DEF Play
<1>2. Reports'
  BY <1>1 DEF IInv, Reports
<1> QED
  BY <1>1, <1>2 DEF IInv, Ledger, Answers, Sinks, Explained, FactsFromLaunch

\* An accepted event is of the sink's execution, and next in its lifecycle.
LEMMA AcceptedFits ==
  ASSUME NEW s, NEW e, NEW grant, Sink(s)!Acknowledgement(grant, e) = "accepted",
         s.state \in {"accepted", "started", "completed", "failed", "cancelled"}
  PROVE  /\ e.execution = Identity(s.request, s.receipt.instance)
         /\ s.state \in {"accepted", "started"} /\ e \notin s.ledger
         /\ s.state = "accepted" => e.kind # "completed"
         /\ s.state = "started" => e.kind # "started"
<1>1. /\ Sink(s)!Authorized(grant, e) /\ ~Sink(s)!KnownCommand(e) /\ Sink(s)!ValidTransition(e)
      /\ e \notin s.ledger
  BY DEF Sink!Acknowledgement, Sink!KnownCommand
<1>2. e.execution = Identity(s.request, s.receipt.instance)
  BY <1>1 DEF Sink!Authorized, Sink!EventForExecution
<1>3. /\ s.state \in {"accepted", "started"}
      /\ s.state = "accepted" => e.kind # "completed"
      /\ s.state = "started" => e.kind # "started"
  BY <1>1 DEF Sink!ValidTransition, Sink!Follows, Sink!State, Sink!Kind
<1> QED
  BY <1>1, <1>2, <1>3

\* So is any event a sink takes.
LEMMA TakenFits ==
  ASSUME IInv, NEW s \in sinks, NEW e \in reports, SubmitExecutionEvent(s, e)
  PROVE  /\ e.execution = Identity(s.request, s.receipt.instance)
         /\ s.state \in {"accepted", "started"} /\ e \notin s.ledger
         /\ s.state = "accepted" => e.kind # "completed"
         /\ s.state = "started" => e.kind # "started"
<1> DEFINE grant == [purpose |-> Sink(s)!EventPurpose(e.kind), event |-> e]
<1>1. s.state \in {"accepted", "started", "completed", "failed", "cancelled"}
  BY DEF IInv, Sinks
<1>2. Sink(s)!Acknowledgement(grant, e) = "accepted"
  BY DEF SubmitExecutionEvent
<1> HIDE DEF grant
<1> QED
  BY <1>1, <1>2, AcceptedFits

\* A sink that took an event.
LEMMA NewSink ==
  ASSUME NEW s, NEW e,
         s = [request |-> s.request, receipt |-> s.receipt, state |-> s.state, ledger |-> s.ledger]
  PROVE  [s EXCEPT !.state = e.kind, !.ledger = @ \cup {e}]
           = [request |-> s.request, receipt |-> s.receipt, state |-> e.kind, ledger |-> s.ledger \cup {e}]
<1> DEFINE new == [s EXCEPT !.state = e.kind, !.ledger = s.ledger \cup {e}]
           q == s.request
           x == s.receipt
           y == s.state
           z == s.ledger
<1>1. s = [request |-> q, receipt |-> x, state |-> y, ledger |-> z]
  OBVIOUS
<1>2. new = [s EXCEPT !.state = e.kind, !.ledger = z \cup {e}]
  OBVIOUS
<1> HIDE DEF q, x, y, z, new
<1>3. new = [request |-> q, receipt |-> x, state |-> e.kind, ledger |-> z \cup {e}]
  BY <1>1, <1>2
<1> QED
  BY <1>3 DEF new, q, x, z

\* An event of a sink's execution was reported by the sink's own launch.
LEMMA ReportsOfSink ==
  ASSUME IInv, NEW s \in sinks, NEW e \in reports,
         e.execution = Identity(s.request, s.receipt.instance)
  PROVE  \E l \in launches : /\ e \in Reported(l) /\ l.request = s.request
                             /\ l.instance = s.receipt.instance
                             /\ l.instance = ProviderInstanceID(s.request)
<1>1. PICK l \in launches : e \in Reported(l)
  BY DEF IInv, Reports
<1>2. l.instance = s.receipt.instance
  BY <1>1 DEF Reported, Report, Identity
<1>3. [request |-> s.request, instance |-> s.receipt.instance] \in launches
  BY DEF IInv, Sinks
<1>4. l = [request |-> s.request, instance |-> s.receipt.instance]
  BY <1>2, <1>3, InstanceTellsLaunch DEF IInv
<1> QED
  BY <1>1, <1>4 DEF IInv, Ledger

\* An event that a sink takes is one its own launch reported.
LEMMA SubmitStep ==
  ASSUME IInv, NEW s \in sinks, NEW e \in reports, SubmitExecutionEvent(s, e)
  PROVE  IInv'
<1> DEFINE new == [s EXCEPT !.state = e.kind, !.ledger = @ \cup {e}]
<1>1. sinks' = (sinks \ {s}) \cup {new} /\ UNCHANGED <<launches, answers, reports>>
  BY DEF SubmitExecutionEvent
<1>2. s = [request |-> s.request, receipt |-> s.receipt, state |-> s.state, ledger |-> s.ledger]
  BY DEF IInv, Sinks
<1>3. new = [request |-> s.request, receipt |-> s.receipt, state |-> e.kind,
             ledger |-> s.ledger \cup {e}]
  BY <1>2, NewSink
<1>4. /\ e.execution = Identity(s.request, s.receipt.instance)
      /\ s.state = "started" => e.kind # "started"
      /\ s.state \in {"accepted", "started"}
  BY TakenFits
<1>5. PICK l \in launches : /\ e \in Reported(l) /\ l.request = s.request
                           /\ l.instance = s.receipt.instance
  BY <1>4, ReportsOfSink
<1>6. e.kind \in {"started", "completed", "cancelled"}
  BY <1>5 DEF Reported, Report
<1>7. Sinks'
  BY <1>1, <1>3, <1>6 DEF IInv, Sinks
<1>8. FactsFromLaunch'
  <2> SUFFICES ASSUME NEW t \in sinks', NEW f \in t.ledger
               PROVE  \E m \in launches : /\ m.request = t.request
                                          /\ m.instance = t.receipt.instance
                                          /\ f \in Reported(m)
    BY <1>1 DEF FactsFromLaunch, Reported, Report, Identity
  <2>1. CASE t \in sinks
    BY <2>1 DEF IInv, FactsFromLaunch
  <2>2. CASE t = new /\ f \in s.ledger
    BY <1>3, <2>2 DEF IInv, FactsFromLaunch
  <2>3. CASE t = new /\ f = e
    BY <1>3, <1>5, <2>3
  <2> QED
    BY <1>1, <1>3, <2>1, <2>2, <2>3
<1>9. Explained'
  <2>1. e.kind = "started" => s.ledger = {}
    BY <1>4 DEF IInv, Explained
  <2> QED
    BY <1>1, <1>3, <1>6, <2>1 DEF IInv, Explained
<1> QED
  BY <1>1, <1>7, <1>8, <1>9 DEF IInv, Ledger, Answers, Reports

\* Whatever is sent again, restated, lost or misdelivered, ledger, answers,
\* reports and sinks hang together.
THEOREM Invariance == Spec => []IInv
<1>1. IInv /\ [Next]_vars => IInv'
  <2> SUFFICES ASSUME IInv, [Next]_vars PROVE IInv'
    OBVIOUS
  <2>1. CASE UNCHANGED vars
    BY <2>1 DEF vars, IInv, Ledger, Answers, Reports, Sinks, Explained, FactsFromLaunch
  <2>2. ASSUME NEW r \in Request, NEW grant \in Request, LaunchExecution(grant, r) PROVE IInv'
    BY <2>2, LaunchStep
  <2>3. ASSUME NEW a \in answers, NEW receipt \in a.receipts, OpenSink(a.request, receipt)
        PROVE  IInv'
    BY <2>3, OpenStep
  <2>4. ASSUME NEW l \in launches, NEW e \in Reported(l), Play(e) PROVE IInv'
    BY <2>4, PlayStep
  <2>5. ASSUME NEW s \in sinks, NEW e \in reports, SubmitExecutionEvent(s, e) PROVE IInv'
    BY <2>5, SubmitStep
  <2> QED
    BY <2>1, <2>2, <2>3, <2>4, <2>5 DEF Next
<1> QED
  BY <1>1, InitIInv, PTL DEF Spec

\* Type correctness: requests, states and ledgers are what their names say.
THEOREM TypeCorrect == Spec => []TypeOK
<1>1. IInv => TypeOK
  <2> SUFFICES ASSUME IInv PROVE TypeOK
    OBVIOUS
  <2>1. \A l \in launches : l.request \in Request
    BY DEF IInv, Ledger
  <2>2. \A s \in sinks : s.request \in Request
    <3> SUFFICES ASSUME NEW s \in sinks PROVE s.request \in Request
      OBVIOUS
    <3>1. [request |-> s.request, instance |-> s.receipt.instance] \in launches
      BY DEF IInv, Sinks
    <3> QED
      BY <2>1, <3>1
  <2>3. \A s \in sinks : s.state \in Sink(s)!State
    BY DEF IInv, Sinks, Sink!State, Sink!Kind
  <2> QED
    BY <2>1, <2>2, <2>3 DEF IInv, Answers, Sinks, TypeOK
<1> QED
  BY <1>1, Invariance, PTL

\* One instance to a command and one command to an instance (LaunchedOnce).
THEOREM CommandsLaunchOnce == Spec => []LaunchedOnce
<1>1. IInv => LaunchedOnce
  BY InstanceTellsLaunch DEF IInv, Ledger, Answers, LaunchedOnce
<1> QED
  BY <1>1, Invariance, PTL

\* Facts are those of the instance launched for the request (FactsFromLaunch).
THEOREM FactsAreOfTheLaunch == Spec => []FactsFromLaunch
<1>1. IInv => FactsFromLaunch
  BY DEF IInv
<1> QED
  BY <1>1, Invariance, PTL

\* A conflict and a receipt for the same request never both exist (ConflictsFinal).
THEOREM ConflictsStay == Spec => []ConflictsFinal
<1>1. IInv => ConflictsFinal
  <2> SUFFICES ASSUME IInv, NEW a \in answers, NEW b \in answers, a.request = b.request,
                      a.status = "commandConflict", NEW x \in b.receipts
               PROVE  FALSE
    BY DEF ConflictsFinal
  <2>1. PICK l \in launches : l.request.command = a.request.command /\ l.request # a.request
    BY DEF IInv, Answers
  <2>2. [request |-> b.request, instance |-> x.instance] \in launches
    BY DEF IInv, Answers
  <2> QED
    BY <2>1, <2>2 DEF IInv, Ledger
<1> QED
  BY <1>1, Invariance, PTL
-----------------------------------------------------------------------------
\* What one step does to the verdict of one request.
VerdictStep(r) == Verdict(r)!Next \/ UNCHANGED Verdict(r)!vars

\* The ledger of a request is that of its one sink.
LEMMA LedgerOfSink ==
  ASSUME Sinks, NEW s \in sinks PROVE LedgerOf(s.request) = s.ledger
<1>1. {t \in sinks : t.request = s.request} = {s}
  BY DEF Sinks
<1> QED
  BY <1>1 DEF LedgerOf

\* A recorded event starts or concludes its request, and no other.
LEMMA SubmitVerdict ==
  ASSUME IInv, NEW s \in sinks, NEW e \in reports, SubmitExecutionEvent(s, e),
         NEW r \in Request
  PROVE  VerdictStep(r)
<1> DEFINE started == \E f \in LedgerOf(r) : f.kind = "started"
           verdict == {f \in LedgerOf(r) : f.kind \in {"completed", "failed", "cancelled"}}
           new == [s EXCEPT !.state = e.kind, !.ledger = @ \cup {e}]
<1> USE DEF Verdict!Start, Verdict!Conclude
<1>1. sinks' = (sinks \ {s}) \cup {new}
  BY DEF SubmitExecutionEvent
<1>2. new.request = s.request /\ new.ledger = s.ledger \cup {e}
  BY NewSink DEF IInv, Sinks
<1>3. CASE r # s.request
  <2>1. {t \in sinks' : t.request = r} = {t \in sinks : t.request = r}
    BY <1>1, <1>2, <1>3
  <2>2. LedgerOf(r)' = LedgerOf(r)
    BY <2>1 DEF LedgerOf
  <2> QED
    BY <2>2 DEF VerdictStep, Verdict!vars
<1>4. CASE r = s.request
  <2>1. LedgerOf(r) = s.ledger
    BY <1>4, LedgerOfSink DEF IInv
  <2>2. LedgerOf(r)' = s.ledger \cup {e}
    <3>1. {t \in sinks' : t.request = r} = {new}
      BY <1>1, <1>2, <1>4 DEF IInv, Sinks
    <3> QED
      BY <1>2, <3>1 DEF LedgerOf
  <2>3. /\ s.state \in {"accepted", "started"}
        /\ s.state = "accepted" => e.kind # "completed"
        /\ s.state = "started" => e.kind # "started"
        /\ e.execution = Identity(s.request, s.receipt.instance)
    BY TakenFits
  <2>4. verdict = {} /\ (started <=> s.state = "started")
    BY <2>1, <2>3 DEF IInv, Explained
  <2>5. PICK l \in launches : e \in Reported(l) /\ l.request = r /\ l.instance = ProviderInstanceID(r)
    BY <1>4, <2>3, ReportsOfSink
  <2>6. CASE e.kind = "started"
    <3>1. ~started /\ started' /\ verdict' = verdict
      BY <2>1, <2>2, <2>3, <2>4, <2>6
    <3>2. Verdict(r)!Start
      BY <2>4, <3>1
    <3> QED
      BY <3>2 DEF VerdictStep, Verdict!Next
  <2>7. CASE e.kind # "started"
    <3>1. e \in {Report([request |-> r, instance |-> ProviderInstanceID(r)], kind) : kind \in {"completed", "cancelled"}}
          /\ e.kind \in {"completed", "cancelled"}
      BY <2>5, <2>7 DEF Reported, Report, Identity
    <3>2. verdict' = {e} /\ (started' <=> started)
      BY <2>1, <2>2, <2>4, <2>7, <3>1
    <3>3. e.kind = "completed" => started
      BY <2>3, <2>4
    <3>4. e = Report([request |-> r, instance |-> ProviderInstanceID(r)], "completed") => e.kind = "completed"
      BY DEF Report
    <3>5. Verdict(r)!Conclude(e)
      BY <2>4, <3>2, <3>3, <3>4
    <3> QED
      BY <3>1, <3>5 DEF VerdictStep, Verdict!Next
  <2> QED
    BY <2>6, <2>7
<1> QED
  BY <1>3, <1>4

\* Through launches, repeated receipts and misdelivered events, every request has
\* one verdict, final once given (KeepsVerdicts).
THEOREM VerdictsAreKept == Spec => KeepsVerdicts
<1>1. Init => \A r \in Request : Verdict(r)!Init
  BY DEF Init, LedgerOf, Verdict!Init
<1>2. IInv /\ [Next]_vars => [\A r \in Request : VerdictStep(r)]_vars
  <2> SUFFICES ASSUME IInv, Next, NEW r \in Request PROVE VerdictStep(r)
    OBVIOUS
  <2>1. CASE UNCHANGED sinks
    BY <2>1 DEF VerdictStep, Verdict!vars, LedgerOf
  <2>2. ASSUME NEW a \in answers, NEW receipt \in a.receipts, OpenSink(a.request, receipt)
        PROVE  VerdictStep(r)
    <3> DEFINE new == [request |-> a.request, receipt |-> receipt, state |-> "accepted", ledger |-> {}]
    <3>1. sinks' = sinks \cup {new}
      BY <2>2 DEF OpenSink
    <3>2. LedgerOf(r)' = LedgerOf(r)
      BY <3>1 DEF LedgerOf
    <3> QED
      BY <3>2 DEF VerdictStep, Verdict!vars
  <2>3. ASSUME NEW s \in sinks, NEW e \in reports, SubmitExecutionEvent(s, e)
        PROVE  VerdictStep(r)
    BY <2>3, SubmitVerdict
  <2> QED
    BY <2>1, <2>2, <2>3 DEF Next, LaunchExecution, Play
<1> QED
  BY <1>1, <1>2, Invariance, PTL DEF Spec, KeepsVerdicts, VerdictStep
=============================================================================
