# ext-competios: verification project

ext-competios is the contract between Competios, a service that runs
competitions, and the games that execute their contests. It has no server of
its own. It defines the operations and messages (`backend/contract4competios`),
issues and verifies the signed one-use grants under which they travel
(`grants`), and carries reference providers and suites that every implementation
has to pass (`backend/contract4competiostest`).

These TLA+ modules model its logic from the source: who may execute what, how
often, in which order, and what a party may conclude from an answer. TLC checks
small instances; TLAPS proves the central properties for every value of the
constants.

## The system

| component | code | state | operations |
|---|---|---|---|
| Grant issuance and verification | `grants/issuer.go`, `verifier.go`, `direction.go`, `claims.go` | none; a `Direction` is immutable | `IssueOperationGrant`, `VerifyOperationGrant` |
| Replay stores | `grants/replay*.go` | one record per token ID: a collection in a database, or a map under a mutex | `Seen` |
| Operation grant binding | `operation_grants.go`, `grants/route.go` | none | `ValidateOperationGrant` and the validators of each operation |
| Lifecycle events | `contract.go`, `execution_event_transport.go`, the reference sink of the journey suite | state of the execution, command ledger | `SubmitExecutionEvent` |
| Source onboarding | `source_operations.go`, `disclosure_operations.go`, the reference provider of the source suite | plans, command ledger, receipts, retained artifacts | plan, retain, verify disclosure, publish |
| Contest launch | `contract.go`, the reference provider of the launch suite | launch ledger of the provider, receipts and open sinks of Competios | `LaunchExecution`, `ValidateExecutionReceiptForRequest`, opening a sink |
| Result placements | `validatePlacements` in `contract.go` | what one pass remembers | the pass |
| Closure transfer limits | `validateTransferAgainstPlan` in `source_operations.go` | the running total | the loop |
| Format capabilities | `capabilities.go` | none | `ValidateFormatStages`, `FixedKnockoutStages` |
| Key rotation | `grants/direction.go`, `keymaterial.go` | the `Direction` of each deployment | deploying a direction with other keys, signing, `keyByID` |
| Entry cancellation | `event_registration.go` | none here; booking and lock are kept by services elsewhere | `ValidateBookOnlineEntryCancellationBinding` and the validators of proposal and decision |
| Booking admission, payment attempts, attendance | `event_registration.go` | none here | field checks of single messages |
| Digests and transport shape | `execution_transport.go` and others | none | canonical digests, decoding |
| Authority, drafts, projections, application, tournament types | the files of those names | none | declarations, ports, field checks |
| Conformance suites | `provider_conformance.go`, `participant_scheduled_conformance.go`, `event_conformance.go`, `source_conformance.go`, `grant_conformance.go` | the services under test and the violations counted | one `Check…` function to a port |
| Journey check, fixtures | `journey_conformance.go`, `fixtures.go` | the reference sink | one journey from launch to verdict |

**How they interact.** A client asks the issuer of a trust direction for a
grant, naming the operation field by field and the transport it will use. It
sends the token with the operation's body. The receiving service decodes the
body, has the token verified (signature, window, purpose, then the replay
store, last), compares the claims with its route and with what it decoded, and
hands grant and operation to the provider or sink. Those keep a ledger of
commands: the same command and payload again is *replayed*, the same command
with another payload is a *conflict*. The two directions are opposite: games
receive source operations and launches from Competios, Competios receives
lifecycle events from games. Whoever implements a port runs the suite of that
port against it; the suites are how this repository enforces all of the above.

**What is hard here.**

- *Two requests at once* for one token, over a database transaction that may be
  retried, refused, or committed with its answer lost.
- *Clocks*: the issuer, each verifier and the cleanup read their own; JWT cuts
  times to whole seconds; a leeway widens the window after the record of the
  token claims it is over.
- *Retries*: the game cannot know whether its event was recorded. It sends again
  with a new token, possibly while the first request is still being handled.
- *Order*: a result may overtake its start, a cancellation may race a result, a
  second candidate of a version may be retained between the disclosure of the
  first and its publication.
- *Agreement of tables*: some fourteen groups of fields are required by purpose
  in one function, compared by operation in six others. A field judged by one
  and executed by another, or required and never compared, is what a grant is
  there to prevent.
- *Boundaries*: unsigned sums of sizes, ranks with ties, counts of qualifiers.
- *Overlap*: keys are exchanged deployment by deployment while tokens signed with
  the old one are under way; a refund is decided while registration closes.
- *Tests that lean on each other*: a suite puts some hundred calls to one
  service that remembers what the earlier calls made of it. A probe may fail for
  another reason than the one it is for, or be skipped after a failed setup, and
  Go visits the mutations in any order.

What makes each component correct:

| component | correct when |
|---|---|
| Replay stores | a token ID is granted at most once, a refused presentation uses up nothing, records outlive their tokens and do not pile up, every call returns |
| Issuance | a token can be used the moment it is issued despite skew and truncation |
| Grant binding | what is executed was asked for, field by field, of the issuer of that very direction; exact requests are served |
| Lifecycle events | one final verdict, no result without a start, answers that stay true, exact retries replayed for good, every reported result concluded and acknowledged |
| Contest launch | one instance to a command however often it is sent, a conflict that stays a conflict, facts only of the instance that was launched for the request |
| Source onboarding | nothing published but what was planned, retained and found equal to its public copy; one owner per command across stages |
| Key rotation | no token that is in its window finds its key missing at any verifier |
| Entry cancellation | whether an entry fee is refunded follows the registration lock at the time of the proposal that was applied |
| Conformance suites | sound services pass, all others fail, but for the blind spots listed below |
| Validations | placements are a competition ranking, a transfer is refused exactly when it breaks its plan, an accepted format can be played |

## The modules

Names follow the code; `PROJECT.json` maps each definition to its lines. A
definition named as another with a suffix and marked `Faulty` is a plausible bug
in that code. Nothing in the specifications uses it; putting it in the place of
the right one must break the property it stands beside.

### Grants, once

`GrantWindow` — the arithmetic of the window: truncation to a NumericDate, nbf
and exp under the leeway. `GrantVerifier` extends it with tokens in circulation
and verifications in flight. `Issue` is `IssueOperationGrant`, `Present` is
`VerifyOperationGrant` up to the replay store: the gates are judged in their
order at one reading of the clock, and the call goes on as a *flight*. A clock
reading is any value within `Skew` of the true time.

`DurableVerifier` adds `DalgoReplayStore`. The transaction of `Seen` is three
actions: `TxGet` reads, `TxCommit` inserts, `TxAbort` is a commit the database
refused, retried up to `Attempts`. Serialisability is the guard of `TxCommit`:
what the transaction read is still true. A read may fail, which ends the call. A
commit may lose its answer: the call ends with an error, or the driver runs the
body again (`Rerun`), which then finds the record it wrote itself and answers with
a conflict. The token is spent and nobody holds a grant for it, which the promise
allows; a second grant would be the fault. `Restart`
kills any set of callers and keeps the collection; `Reclaim` is the periodic
cleanup that the record's `ExpiresAt` is kept for (`replay_dalgo.go:18-22`).

`MemoryVerifier` adds `MemoryReplayStore` instead: `Seen` is one step, being
under a mutex, and reads the clock again after the gates did. `Restart` empties
the map.

`ReplayPromise` is the abstract specification both are measured by: a token ID
is consumed once, and only who consumed it may be answered with the grant.

### Grants, for what was asked

`GrantFields` has the purposes and the fields of a grant, with `Required`, the
switch of `ValidateOperationGrant`. `GrantBinding` follows a grant from the client's request to the executed
operation. `Compared` and `PurposeOf` are the six validators of operations, `RouteMatches` is
`RouteBinding` with `validateRoute`, `IssueOperationGrant` and
`VerifyOperationGrant` are the issuer and the verifier without window and replay
store. A field's content is one of a few values or absent. A scope is a function
of the purpose in the code and is left out with it.

### Lifecycle events

`ContestVerdict` is what a competition relies on, with no commands or retries.
`EventSink` is `SubmitExecutionEvent` of the reference sink: grant and execution
checked, then the ledger, then the lifecycle. `EventDelivery` puts it behind the
ingress: envelopes are lost, overtaken and delivered twice, a request is handled
in steps (`Verify`, `Submit`, `Receive`) and can die between any two (`Drop`).
The sink's handler is one step, since the reference sink runs in one call and
nothing in the repository calls it concurrently. A mixed envelope is an event
that arrives with the token of another one or of another purpose, as
`OnlyAuthorizedFacts` needs.

### From launch to verdict

`ContestLaunch` composes the two sides of an execution. The provider's
`LaunchExecution` keeps a ledger by command and answers accepted, replayed or
conflict. A receipt that validates opens a sink at Competios, accepted or
replayed alike, since the first one may have been lost; the journey check goes on
with an accepted one only (`journey_conformance.go:39`), which is one of the
behaviours. The instance of a launch
reports from then on, whether Competios knows of it or not (`Play`). Every sink
is an instance of `EventSink` with the request and receipt it was opened with,
and `Verdict(r)` an instance of `ContestVerdict` for each request. Receipts and
events stay in the set they were put in, and no step must ever be taken: that is
loss, duplication and reordering of all of them. Any event may be handed to any
sink; whether it belongs there is for `ValidateExecutionEventForExecution` to
say. `LaunchAssumption` is that Competios does not use a request ID under two
commands; the instance is named after the request ID, so the ledger by command
alone would not keep instances apart.

### Source onboarding

`SourceArtifacts` is the reference provider's four handlers. Each checks the
grant and what the request names, then the ledger, then (publication only) the
prerequisites; the order differs between stages and the modules keep it. A
request stands for its whole payload. What a provider may choose is a parameter:
the ID it gives a plan and the digest it gives retained bytes. The reference
provider uses constants for both.

Receipts name the request they answer, as the receipt validators have it.

### Pure validations

`PlacementRanking` is `validatePlacements` as the pass it is, one placement per
step, with ranks and slots of a width (`Ordinals`, 2^16 in the code) and the next
rank cut to it. `ClosureTransfer` is `validateTransferAgainstPlan`, which refuses
another length at once and then counts bytes in unsigned words, `Word` being 2^64
in the code. `FormatStages` has the validation
of stages and destinations and the fixed topologies. `MCValidationRules` puts
these and the next two modules side by side, one subject per behaviour.

### Keys and cancellations

`KeyRotation` deploys the directions of an issuer and several verifiers one by
one. The repository gives the means, trusted keys beside the active one, and in
words the two rules of a rollout (`direction.go:60-65`); the rollout is the
operator's, and the module says how long an old key has to be trusted for the
second rule to hold: `Overlap`.

`EntryCancellation` has a booking service propose cancellations under commands,
Competios decide and the booking service apply a decision. Both are outside of
the repository. What is the repository's are `ValidDecision` and `Decides`, the
validators of a decision and of its binding to a proposal. Of the seven fields the
binding compares, four are constant of a booking (reference, target version,
tournament, entry) and are one value of `Booking`; the module asks
whether those checks suffice when proposals are repeated under one command,
decisions are late and registration closes meanwhile.

### Conformance suites

`ConformanceService` is a service as a suite meets it: gates in some order
(authority, body, ledger, references, order, policy), of which one may be
missing, claims its binder forgets, parts its digest overlooks, and one habit,
such as forgetting commands or keeping what it refused. The order gate asks whether
an operation comes at its time: events by the lifecycle, publications by the
retained and disclosed version they name. The references gate looks up the plan or
the artifact that the body of a retention or disclosure is judged by. A service
has one order of its gates for all its operations. `Reply` and `Remembered`
are its answer to a call and what the call leaves behind. `ConformanceCalls`
is the form a suite has: calls in their order, to the suite's own service, to a
fresh one, or to the fresh one of the call before; each with the answers the
suite takes for right, those on which it skips to the next fresh service, and
those on which it returns. `LaunchSuite`, `EventSuite`, `SourceSuite` and
`GrantSuite` spell the `Check…` functions as such sequences, mutation tables
included. A mutation is the field it changes and whether it is the grant or the
payload that is changed. Go visits a map in any order: `Turn` says which mutation
comes next, for every order, every block and everything that is left of it.
`Conformance` runs a suite on a service, call by call.

A suite is checked both ways: `AlarmsOnlyForFlaws` says it fails no service
that does what the contract asks for, `CatchesEveryFlaw` that it fails all
others. `Flaws` is independent of the suites: it is read from the rules of the
specification of automated execution and from the validators the services are
to use. `Untested` lists the flaws no call is meant for, and both properties
together show that list to be exact. One of the rules in `Precedence` is what a
probe asks for: the source suite publishes a recorded command for a changed version
(`source_conformance.go:234-243`), for which nothing was retained or disclosed
(`disclosure_operations.go:140-150`), and takes only a conflict for the answer. So a
provider has to ask its ledger before the prerequisites of a publication, which
agrees with the rule that a recorded command is settled by the ledger. Before or
after the lookup of references is free: each such probe finds its plan and artifact.

## The runs

| run | question | instance |
|---|---|---|
| `durable` | Is a token granted once, and usable at once, through concurrency, refused and lost commits, restarts, cleanup and skewed clocks; does every verification end; is the store an implementation of `ReplayPromise`? | one token ID, two keys, two purposes, two callers; `Grace` exactly at the threshold |
| `memory` | Single use up to the expiry, and a map that does not grow | two token IDs, two callers, leeway 1 |
| `memory_leeway` | *Violated.* "An entry surviving sweep can never reappear" | one token ID, leeway 1 |
| `replay_conflict` | *Violated.* A replay conflict means changed claims | two token IDs |
| `binding` | Are the tables of issuer, verifier and validators about the same fields? | every kind of operation, each honest request and each that differs from it in one field, three directions |
| `rules` | Do the incremental validations decide what they are for? | below |
| `conformance` | Does each suite fail exactly the services with a flaw it has a call for? | seven suites, below |
| `events` | Do answers stay true, retries replay and the verdict stay final, when start, contradicting start, result and cancellation race, and one start comes with the token of the other or with one for another purpose? Does such a token make a fact? | four events, one request each in progress, two mixed envelopes |
| `events_live` | Does a game that keeps reporting get its execution concluded and hear of it, while the start of another execution keeps coming under a valid grant? Does that ever become a fact? | start, result and the stray start, two requests each in progress |
| `launch` | One instance to a command, final conflicts, facts only of the instance launched, and one verdict to a request, from the launch to the end? | a contest and its rematch, a restated request, one for another provider, one with a wrong digest |
| `source` | Is every publication backed by its chain of records, and the ledger one over four stages? | two versions, two contents, 18 requests |
| `source_retry` | *Violated.* "A new token can retry the same command/body" at every stage | as above |

### Bounds, and why they are enough

- `TokenID`: tokens with different IDs touch disjoint records and histories, so
  one is enough for single use; two are there where one call's sweep affects
  another's entry (`memory`). The theorems hold for any set.
- `Caller` = 2: the races of the store are between the read and the insert of
  two transactions. A third caller adds no pair.
- `Second` = 2 ticks, so a time can fall between NumericDates; `Skew` = 1 and
  `Leeway` = 2 in `durable`: the leeway just covers the skew of two hosts. `MaxTime`
  lets every token be issued late and still expire, be reclaimed and be presented
  again.
- `Grace` in `durable` is exactly `Leeway + MaxFlight + 2 * Skew`, the least
  value for which the theorem holds.
- `MaxFlight`: the ticks a verification may take before its host gives it up.
  The store alone bounds nothing; without such a bound a call that passed the
  window could reach the store after its record was reclaimed.
- `Attempts` is 3, as in the code; 1 in `replay_conflict`, where the conflict shown
  should not come of a body that ran twice.
- `MaxAsks` = 1 in `binding`: tokens do not interact, and with one request in
  the history `ExecutedAsAsked` is at its strictest, since nothing else that was
  asked can excuse an execution. The theorem covers any number.
- `MaxCalls`: requests for one event at the same time. One is enough for
  overtaking between events; two are used where a retry runs beside the first.
- `launch`: five requests. Two share a command and differ in their slots; two
  share competition and contest and differ in ID and command, so their events
  differ in the request and the instance only; the last two are refused. Each
  event kind but failure, which the lifecycle treats as cancellation. Every set
  of answers, sinks and reports these allow is reached.
- `rules`: up to five placements with ranks of 2 bits give ties at the head, in the
  middle and at the end, and run out of ranks and of slots; words of 2 bits make
  every sum of three files wrap, and a transfer has up to one file more than any
  plan; four destinations complete the largest of the descriptors and exceed the
  smallest. Knockouts are
  checked at all eight sizes the code approves. Key rotation: two verifiers, so
  that one can be ahead of the other, and tokens of one key each; `MaxTime` lets
  an old token expire under the leeway before the old key goes. `Overlap` is
  tight: one tick less and `NoneStranded` is violated in this instance.
  Cancellation: two bookings, commands, revisions, proposals and decisions, so
  that a command can come back for another revision and a decision for one
  proposal can meet another.
- `conformance`: each suite is tried in three orders of its mutations (`Turns`: from
  the front, from the back, from both ends in turn), on services with every order of
  the gates and every order with one gate missing; on sound gates of which one is
  moved or missing, with each habit; on sound gates with one forgotten claim or one
  overlooked part, each with each habit. That is up to two flaws at once: one that
  hides another is a matter of pairs. 13,872 services and orders in all, each a run of
  the suite from its first to its last call.
- `source`: the requests are chosen so that every stage has a legal
  continuation, a replay, a conflict with another stage's command and a request
  that differs in one respect; each property's faulty variant is reached.

Deadlock is checked except in three runs that really come to an end: in
`conformance` after the last call of the suite, in `binding` once the one request
was asked and refused, in `rules` after the verdict on the subject.

### Fairness

`durable`: weak fairness of the steps of each call. The goroutine of a
request in flight is scheduled until it returns; which of commit and abort
happens is left open, so termination rests on the bounded attempts alone.

`events_live`: a game sends while it does not know the outcome (weak: this is
the retry its durable event is for); of infinitely many attempts at one event
not all envelopes, not all requests and not all answers are lost (strong
fairness of `Verify`, `Submit` and of an answer that teaches the game something).
That is the assumption behind any retry over a lossy transport; nothing is
assumed of a single attempt. A request that was answered ends (weak), by its
answer arriving or being lost.

## What is proved

All proofs are checked by tlapm from nothing, without further axioms.

**Durable store** (`DurableVerifierProof`). Single use is not inductive: that no
record exists when a transaction commits must mean that the ID was never used,
and records are reclaimed. The invariant `IInv` ties tokens, flights, records
and time together: tokens are known by their ID; a flight passed the gates at
most `MaxFlight` ago; a record belongs to a burned ID and carries its token's
expiry; a burned ID without a record is old (`MissingIsOld`). From it, and from

    KeepsLongEnough == Grace >= Leeway + MaxFlight + 2 * Skew

follow `RecordsOutliveTokens`, `SingleUseHolds` and `StoreKeepsPromise`, the
last as a refinement: each step is a step of `ReplayPromise` or a stutter.
`RefusalsBurnNothing` and `TypeCorrect` need no condition. The condition says
what the cleanup has to know: `ExpiresAt` alone is not a time after which a
record may go when a leeway is in force. `UsableAtOnce` is `NeverTooEarly` for a
leeway of at least twice the skew: no clock is before a start that another clock
wrote down.

**In-memory store** (`MemoryVerifierProof`). `SingleUseInTime`, `MapStaysSwept`
and `TypeCorrect` for any callers, tokens, keys and leeway, under `OneClock`
(`Skew = 0`): the store is one process's, and its clock does not go back. Single
use is not inductive, as the sweep removes entries; `GrantedRemembered` is: what
was granted before its expiry has an entry until then. How long flights last does
not matter, as `Seen` reads the clock itself.

**Events** (`EventDeliveryProof`). `AnswersStayTrue`, `FactsAuthorized`,
`StateExplained`, `TypeCorrect`, `RetriesReplay` (the ledger itself proves a
retry authorized), and `SinkKeepsVerdict`, the refinement of `ContestVerdict`.
They are inductive together: that a result's start is in the ledger is read off
the state through `LedgerExplainsState`, and an answer stays true because the
ledger only grows and holds one payload per command.

**Binding** (`ValidationRulesProof`, at its end). For any set of directions, operations and
requests: `ServicesExecuteWhatWasAsked` and `ExactAsksAreServed`, from the lemma
that `Required` of a purpose is `Compared` of its kind and the route, kind by
kind. The assumption `DirectionsApart` is that issuer, subject and audience tell
directions apart. The verifier does not look at the subject; the validators do,
and the proof shows where.

**Placements** (`ValidationRulesProof`). `RankingsJudgedExactly` for every number
of placements: the pass, which only compares neighbours, accepts exactly the
competition rankings. `AcceptableContinues` is the step: an acceptable placement
continues a canonical ranking and no other one does, since the last placement is
the highest. That distinct slots below the number awaited fill them all is the
pigeonhole principle. It also settles the width of ranks, for every width: as long
as there is a slot left for a placement (`RoomForSlot`), the next rank is either not
cut or cut to zero, which is no rank (`NextRank`).

**Transfers** (`ValidationRulesProof`). `TransfersJudgedExactly` for every word
size, number of files, length of the transfer and limits: until a refusal the
word holds the true sum.

**Launch** (`ContestLaunchProof`). For any number of contests, rematches and
restated requests: `CommandsLaunchOnce`, `FactsAreOfTheLaunch`, `ConflictsStay`,
`TypeCorrect`, and `VerdictsAreKept`, the refinement of one `ContestVerdict` to
every request. None of them is inductive. The invariant adds that receipts and
conflicts are backed by entries of the ledger, that only launched instances
report, that a sink stands for one launch, and that a sink that has not ended
holds starts at most. The step that carries it is `InstanceTellsLaunch`: an
instance stands for one request, as it is named for the request's ID and
`LaunchAssumption` puts an ID under one command. Without that assumption
`LaunchedOnce` is false.

**Source onboarding** (`SourceArtifactsProof`). `LedgerIsOne`, `CustodyHolds`,
`PlansAndPublicationsRetry` and `TypeCorrect` for any requests and any choice of
plan IDs and artifact digests; `OnlyDisclosedIsPublished` under `DigestsApart`,
that artifact digests tell contents apart. A retained artifact
may be taken over by a later candidate at any time, so the invariant has a
publication rest on commands and receipts alone: a command has one owner and one
receipt, plans and artifacts come from recorded requests, a version has one
artifact at a time, and a matched disclosure carries bytes of the artifact it
names.

**Formats** (`ValidationRulesProof`). `FormatsJudgedExactly` for any stages and
destinations: the validation counts what comes into a stage, and with ranges
checked and no slot named twice the count is full exactly when every slot is
filled (destinations and slots correspond one to one, and a set that is as large
as its finite superset is that set). The numbers of a descriptor are the ones the
code decodes, so the invariant only says that they are such numbers.
`KnockoutsLeadToOneFinal` for the templates of all approved sizes.

**Key rotation** (`ValidationRulesProof`). `NoTokenStranded` for any number of
verifiers, any lifetime, leeway, resolution and skew. Not inductive: the
invariant says that no verifier is without the new key once it signs, that the
old one goes no earlier than `Overlap` after it stopped signing, and bounds the
expiry of each old token by that moment.

**Cancellation** (`ValidationRulesProof`). `RefundsFollowTheLock` for any
commands, revisions, proposals and decisions: what a decision says of the lock
is true of the time of the proposal it is bound to.

**Conformance suites** (`ConformanceProof` and `CleanExaminationProof`). Together
`NoFalseAlarm` of the first and `NoFlawEscapes` of the second say that a suite
reports a violation exactly of the services that have a flaw it has a call for,
under the two assumptions named below. The run tries services with two flaws at most; the
theorems cover every set of services, any flaws together, gates in any order and
mutations visited in any order (`Turn` is an arbitrary operator: what it names next
is taken if it is left, and anything that is left if it is not).

`NoFalseAlarm` is `AlarmsOnlyForFlaws`: a suite reports nothing of a service whose
flaws, however many, are all untested. It rests on `SpecimenAssumption` alone: the
suites are the modelled ones and a service's gates are of the kinds its suite is
about, in any order, repeated or not.

The argument follows the script. `Annotates` gives every place in a sequence of
calls the set of memories, of the main service and of the latest fresh one, that
the place is reached with; from each of them the call has a right answer and
leads into the next set. A sequence `Clears` X into Y when such sets exist, and
clearing composes: over concatenation, over the mutations of a map in any
order (`EachClears`, an induction over the size of the map), over the blocks that
suites share (`PopulatedClears`, `RejectionsClear`), up to each `Check…` function
and to `SuiteClears`. Below that, one call: `FirstGate` says the answer is that
of the first gate that stops it, whatever comes behind, and `Stops` lists the
reasons for which a gate can. The memories are described by `Knows`: which
commands may be in the ledger, which entries are, and bounds on the facts from
below and above, since a service may remember its last command only, and the
suites leave some answers open. `ConformanceInv` says that the next call is reached
with memories its annotation allows and that no violation was counted.

`NoFlawEscapes` is `CatchesEveryFlaw`, the other direction. It needs
`ServiceAssumption` as well: a service runs each gate once, and the claims it
forgets, the parts it overlooks and its one habit are of those its suite is about
(`Claims`, `Parts`, `Habits`). A gate that ran again behind the ledger would count as
inverted, although no answer shows it; and a flaw of another kind is none the model
knows. The invariant is `CleanInv`: as long as nothing was reported, every call so
far was answered rightly, each in the memories that the calls before it made, and
none was skipped. The last point is why all calls must be `Fair`, that is, have no
right answer on which the suite skips a call or returns (`CallsFair`); an examination
that ends without a violation has therefore been through the whole script. So the
question is what a clean run tells (`Runs`), and that is asked part by part:
`RunsBoth` splits a run of a concatenation, `EachRuns` gives every block of a map a
run of its own, from memories that all blocks keep to, whichever order they come in,
and `EachLeads` has one block bring about what later parts rely on. Below that,
again, one call: `Taken` says that a refused call has a first gate that stops it, and
`StopsItem` for what reasons that gate can. Company does not help a flaw, as the suites'
calls are arranged:

- a wrong grant for a known command, which both the authority and the ledger can
  stop, tells which of them comes first, and the exact retry after it that the
  ledger kept the command (`PopulatedShows`); the same grant on a fresh service can be
  stopped by the authority only, which tells that the claim is bound;
- a retry that must be a replay tells that there is a ledger and that it knows
  commands by their ID, and the retry under another token that it does not know them
  by the token; the retry of a start, that the ledger is before the order gate;
- a changed payload that must be a conflict tells that the ledger compares and that
  the part is in the digest, and if a policy would refuse the change, that the ledger
  is before it; an unfit body under a known command, that bodies are judged first;
  a publication changed to a version that was never disclosed, that the ledger comes
  before its prerequisites;
- an operation before its time tells that there is an order gate, and a command taken
  from another operation that commands are known across operations.

Facts proved by one part are hypotheses of a later one: that there is a ledger that
forgets nothing is known from the opening calls when the wrong grants are judged.
`LaunchTells` to `SourceTells`, `VerifierTells` and `RequestsBound` collect what a
whole suite tells; `SuiteCatches` compares it with `Untested`.

Both invariants range over annotations or runs, so TLC cannot evaluate them; TLC
checks `AlarmsOnlyForFlaws` and `CatchesEveryFlaw` themselves.

Induction over numbers is done through `LeastNatural`, a consequence of the
library's `FS_StrictSubsetOrderingWellFounded` and `WFMin`, as the induction
theorems with an operator parameter cannot be used.

Only model-checked: liveness (`EveryCallReturns`, `EventuallyConcluded`,
`EventuallyAcknowledged`), which is out of the prover's reach. Every safety invariant
and action property that a passing run checks is proved.

## Where the code and its words differ

- `memory_leeway`: the in-memory sweep forgets at the expiry, the verifier
  accepts until expiry plus leeway, so one process can grant a token twice,
  against the comment at `replay_memory.go:31-33`. `SingleUseBeforeExpiry` is
  what does hold.
- `replay_conflict`: the contract words `ErrTokenReplayConflict` as changed
  claims, and its suite verifies one jti twice; `grants` refuses every second
  presentation. `AnswersTrue` and `ExactRetryReplays` therefore assume a fresh
  token for each attempt, as the specification of automated execution does.
- `source_retry`: a retry of a recorded disclosure or retention is judged
  against what is retained now. After another candidate of that version it is
  refused, though "a new token can retry the same command/body". Plans and
  publications do replay (`PlansAndPublicationsReplay`).

Remarks that are no disagreements: `Seen` of the in-memory store reads the
clock after the verifier did, so a token can be granted after it expired; the
issuer reports the window it computed, while the token carries it cut to whole
seconds; with the constant artifact digest of the reference provider,
`PublishedWasDisclosed` does not hold, so its run gives artifacts digests that
tell contents apart, which real providers must; a decision on a cancellation
carries the time and the tournament version it was made at, and the binding
compares neither, so a late decision still binds to its proposal: the lock that
counts is the one at the decision, which cannot be before the proposal.

**Blind spots of the suites** (`Untested`). None of them is a fault of the
reference services; they are the faults a suite would let pass:

- no suite comes back to a command after a later one, so a service that remembers
  only its last command passes everywhere;
- the general launch suite tries no game or ruleset the adapter does not support;
  only the suite of participant-scheduled games has a policy probe;
- the digest of a scheduled launch may overlook display names;
- events are never tried with another token ID, issue or expiry time in the claims;
- the optional evidence of a result, terminal state and event log, stays the same;
- no source grant is tried with a competition it must not name.

Beyond that list, no suite calls a service concurrently, and the verifier suite
wants a repeated token ID judged before the claims, where `grants/verifier.go`
consumes it last.

## What is not modelled

- *Signatures, JSON and JWT parsing, canonical digests*: encodings. A key signs
  what it signs; equal digests are equal contents.
- *Booking admission, payment attempts and attendance*: field checks of single
  messages. Nothing in this repository relates one of them to another.
- *Tokens of a launch and its events* in `ContestLaunch`: the grant is the
  operation's own; `GrantBinding` and the verifiers say when it is, and
  `EventDelivery` what other tokens do.
- *Authority, drafts, projections, application, tournament types*: declarations
  without state or algorithm.
- *The journey check's search for private text* and the values of the fixtures:
  string scans and constants. Its sink, receipts and events are modelled.
- *A sink that persists ledger and state apart, or is called concurrently*: the
  reference sink does neither; a model would show which atomicity implementing
  services owe.

## Plan

1. Grants once. *Done, proved for both stores.*
2. Lifecycle events. *Done; safety and refinement proved, liveness checked.*
3. Grant binding. *Done, proved.*
4. Source onboarding. *Done, proved.*
5. Validations. *Done, proved: placements, transfers, formats.*
6. Launch. *Done, proved with its refinement.*
7. Key rotation and entry cancellation. *Done, proved.*
8. Conformance suites. *Done, proved in both directions: no false alarm, no flaw
   escapes.*
9. Open: a sink in steps, once an implementing service shows its transaction.
