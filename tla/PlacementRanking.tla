-------------------------- MODULE PlacementRanking --------------------------
(***************************************************************************)
(* validatePlacements: one pass over the placements of a completed result, *)
(* which judges each by what the pass remembers of those before it.        *)
(***************************************************************************)
EXTENDS Integers, Sequences, FiniteSets

CONSTANTS Entry,           \* entry IDs
          Ordinals,        \* number of values of a rank or slot (2^16 in the code)
          MaxPlacements    \* bound: placements of a result

VARIABLES awaited,      \* number of placements in the result
          seenEntries,
          seenSlots,
          previous,     \* rank of the placement before
          previousSlot,
          placements,   \* history: the placements looked at so far
          ranking       \* what the pass found

placementVars == <<awaited, seenEntries, seenSlots, previous, previousSlot, placements, ranking>>

ASSUME PlacementAssumption == MaxPlacements \in Nat \ {0} /\ Ordinals \in Nat /\ Ordinals > 1

\* A placement has an entry or none, and a status that is known or is not.
Placement == [entry : Entry \cup {""}, slot : 0..(Ordinals - 1), rank : 0..(Ordinals - 1),
              known : BOOLEAN]

PlacementInit ==
  /\ awaited \in 1..MaxPlacements
  /\ seenEntries = {} /\ seenSlots = {}
  /\ previous = 0 /\ previousSlot = 0
  /\ placements = <<>>
  /\ ranking = "open"

\* Faulty: the rank after a tie goes on counting from the tie.
AcceptableDense(p) ==
  /\ p.entry # "" /\ p.known
  /\ p.slot < awaited
  /\ p.entry \notin seenEntries /\ p.slot \notin seenSlots
  /\ p.rank >= previous /\ p.rank # 0
  /\ placements = <<>> => p.rank = 1
  /\ placements # <<>> /\ p.rank > previous => p.rank = previous + 1
  /\ placements # <<>> /\ p.rank = previous => p.slot > previousSlot

\* The conditions validatePlacements puts on one placement.  The index of the next
\* rank is cut to the width of a rank.
Acceptable(p) ==
  /\ p.entry # "" /\ p.known
  /\ p.slot < awaited
  /\ p.entry \notin seenEntries /\ p.slot \notin seenSlots
  /\ p.rank >= previous /\ p.rank # 0
  /\ placements = <<>> => p.rank = 1
  /\ placements # <<>> /\ p.rank > previous => p.rank = (Len(placements) + 1) % Ordinals
  /\ placements # <<>> /\ p.rank = previous => p.slot > previousSlot

LookAt(p) ==
  /\ ranking = "open" /\ Len(placements) < awaited
  /\ placements' = Append(placements, p)
  /\ UNCHANGED awaited
  /\ IF Acceptable(p)
     THEN /\ seenEntries' = seenEntries \cup {p.entry}
          /\ seenSlots' = seenSlots \cup {p.slot}
          /\ previous' = p.rank /\ previousSlot' = p.slot
          /\ UNCHANGED ranking
     ELSE /\ ranking' = "invalid"
          /\ UNCHANGED <<seenEntries, seenSlots, previous, previousSlot>>

EndOfPlacements ==
  /\ ranking = "open" /\ Len(placements) = awaited
  /\ ranking' = "valid"
  /\ UNCHANGED <<awaited, seenEntries, seenSlots, previous, previousSlot, placements>>

PlacementNext == EndOfPlacements \/ \E p \in Placement : LookAt(p)

PlacementSpec == PlacementInit /\ [][PlacementNext]_placementVars

-----------------------------------------------------------------------------
\* Sorted by rank and then by slot, each entry and slot once, and everybody
\* ranked behind exactly those who did better, ties sharing a rank.
Canonical(s) ==
  /\ \A i \in DOMAIN s :
       /\ s[i].entry # "" /\ s[i].known /\ s[i].slot < awaited
       /\ s[i].rank = 1 + Cardinality({j \in DOMAIN s : s[j].rank < s[i].rank})
  /\ \A i, j \in DOMAIN s : i < j =>
       /\ s[i].entry # s[j].entry /\ s[i].slot # s[j].slot
       /\ s[i].rank < s[j].rank \/ (s[i].rank = s[j].rank /\ s[i].slot < s[j].slot)

\* The pass refuses a result exactly when its placements up to the refused one
\* are no canonical ranking, and in a valid one every slot has its placement.
RankingExact ==
  /\ ranking = "invalid" <=> ~Canonical(placements)
  /\ ranking = "valid" => {placements[i].slot : i \in DOMAIN placements} = 0..(awaited - 1)
=============================================================================
