---------------------------- MODULE FormatStages ----------------------------
(***************************************************************************)
(* The descriptor of a tournament format: stages of contests, and the      *)
(* destination in a later stage of each qualifier of a contest.            *)
(* ValidateFormatStages fails on any condition that is not met, whatever   *)
(* the order, so it is a conjunction here; it decides by counting whether  *)
(* a stage is complete.  A list that names the very same destination twice *)
(* is refused by the code and is no set here.                              *)
(***************************************************************************)
EXTENDS Integers, Sequences, FiniteSets

CONSTANTS StageLists,        \* the stages of the descriptors that are built
          MaxDestinations,   \* bound: destinations of such a descriptor
          Index              \* bound: what a destination's numbers are chosen from

VARIABLE format   \* a descriptor, its destinations added one by one

\* A destination: contest and qualifier of the stage, stage, contest and slot
\* it leads to.  Stages are named by their place, contests and slots from 0.
Destination(stage, contest, qualifier, target, targetContest, slot) ==
  [stage |-> stage, contest |-> contest, qualifier |-> qualifier,
   target |-> target, targetContest |-> targetContest, slot |-> slot]

Stage(contests, participants, advancing) ==
  [contests |-> contests, participants |-> participants, advancing |-> advancing]

StageShape == [contests : Nat, participants : Nat, advancing : Nat]

ASSUME FormatAssumption ==
  StageLists \subseteq Seq(StageShape) /\ MaxDestinations \in Nat /\ Index \subseteq Nat

\* The capacity of a knockout of some rounds, and its approved range.
FixedKnockoutRounds == 1..8
FixedKnockoutCapacity(rounds) == 2^rounds

\* Faulty: both winners are sent to the same slot.
FixedKnockoutOneSlot(rounds) ==
  [stages |-> [k \in 1..rounds |-> Stage(2^(rounds - k), 2, 1)],
   destinations |-> UNION {{Destination(k, c, 0, k + 1, c \div 2, 0) :
                             c \in 0..(2^(rounds - k) - 1)} : k \in 1..(rounds - 1)}]

\* FixedKnockoutStages: two winners meet in the next round.
FixedKnockoutStages(rounds) ==
  [stages |-> [k \in 1..rounds |-> Stage(2^(rounds - k), 2, 1)],
   destinations |-> UNION {{Destination(k, c, 0, k + 1, c \div 2, c % 2) :
                             c \in 0..(2^(rounds - k) - 1)} : k \in 1..(rounds - 1)}]

\* The preferans template: three semifinals of three, one final.
Preferans9Stages ==
  [stages |-> <<Stage(3, 3, 1), Stage(1, 3, 1)>>,
   destinations |-> {Destination(1, c, 0, 2, 0, c) : c \in 0..2}]

-----------------------------------------------------------------------------
From(d) == <<d.stage, d.contest, d.qualifier>>
To(d) == <<d.target, d.targetContest, d.slot>>

WellShaped(stage) ==
  /\ stage.contests > 0 /\ stage.participants >= 2
  /\ stage.advancing \in 1..stage.participants

InRange(f, d) ==
  /\ d.target \in (d.stage + 1)..Len(f.stages)
  /\ d.contest < f.stages[d.stage].contests
  /\ d.qualifier < f.stages[d.stage].advancing
  /\ d.targetContest < f.stages[d.target].contests
  /\ d.slot < f.stages[d.target].participants

Incoming(f, k) == Cardinality({d \in f.destinations : d.target = k})

\* Faulty: a qualifier may go to two places.
ValidateAnySource(f) ==
  /\ f.stages # <<>>
  /\ \A k \in DOMAIN f.stages : WellShaped(f.stages[k])
  /\ \A d \in f.destinations : InRange(f, d)
  /\ \A d, e \in f.destinations : d # e => To(d) # To(e)
  /\ \A k \in 2..Len(f.stages) :
       Incoming(f, k) = f.stages[k].contests * f.stages[k].participants

ValidateFormatStages(f) ==
  /\ f.stages # <<>>
  /\ \A k \in DOMAIN f.stages : WellShaped(f.stages[k])
  /\ \A d \in f.destinations : InRange(f, d)
  /\ \A d, e \in f.destinations : d # e => To(d) # To(e) /\ From(d) # From(e)
  /\ \A k \in 2..Len(f.stages) :
       Incoming(f, k) = f.stages[k].contests * f.stages[k].participants

-----------------------------------------------------------------------------
\* Every slot of every later stage is filled by one qualifier of an earlier
\* stage, and by nobody else, and no qualifier plays on in two places.
Playable(f) ==
  \A k \in 2..Len(f.stages) :
    \A contest \in 0..(f.stages[k].contests - 1), slot \in 0..(f.stages[k].participants - 1) :
      \E d \in f.destinations :
        /\ To(d) = <<k, contest, slot>>
        /\ d.stage < k
        /\ d.contest \in 0..(f.stages[d.stage].contests - 1)
        /\ d.qualifier \in 0..(f.stages[d.stage].advancing - 1)
        /\ \A e \in f.destinations : e # d => To(e) # To(d) /\ From(e) # From(d)

-----------------------------------------------------------------------------
Templates == {FixedKnockoutStages(rounds) : rounds \in FixedKnockoutRounds} \cup {Preferans9Stages}

FormatInit ==
  format \in {[stages |-> s, destinations |-> {}] : s \in StageLists} \cup Templates

\* The first destination of a descriptor may lead anywhere, the others are in range.
AddDestination ==
  /\ format \notin Templates /\ Cardinality(format.destinations) < MaxDestinations
  /\ \E k \in DOMAIN format.stages, contest, qualifier, target, targetContest, slot \in Index :
       LET d == Destination(k, contest, qualifier, target + 1, targetContest, slot)
       IN  /\ format.destinations = {} \/ InRange(format, d)
           /\ format' = [format EXCEPT !.destinations = @ \cup {d}]

FormatSpec == FormatInit /\ [][AddDestination]_format

\* A format that passes can be played to its end, though the validation only
\* counts what comes into a stage; and what can be played passes.
ValidIffPlayable ==
  ValidateFormatStages(format) <=>
    /\ format.stages # <<>>
    /\ \A k \in DOMAIN format.stages : WellShaped(format.stages[k])
    /\ \A d \in format.destinations : InRange(format, d)
    /\ Playable(format)

\* Every knockout the contract offers passes the validation, seats the capacity it
\* derives from the rounds, and leads from there to one final.
KnockoutsPlayable ==
  \A rounds \in FixedKnockoutRounds :
    Len(format.stages) = rounds /\ format = FixedKnockoutStages(rounds) =>
      /\ ValidateFormatStages(format) /\ Playable(format)
      /\ format.stages[1].contests * format.stages[1].participants = FixedKnockoutCapacity(rounds)
      /\ format.stages[rounds].contests = 1
=============================================================================
