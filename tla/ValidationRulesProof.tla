------------------------ MODULE ValidationRulesProof ------------------------
(***************************************************************************)
(* Theorems about the rules of the contract.  No process carries out most  *)
(* of them: result placements, for every number of them; the byte count of *)
(* a transfer, for every word size, number of files and limits; the refund *)
(* of a cancelled entry, for any number of commands, revisions, proposals  *)
(* and decisions; format descriptors, for every list of stages and every   *)
(* set of destinations, and the knockout formats the contract ships; and a *)
(* key rotation, for any number of verifiers and of tokens, any lifetime,  *)
(* leeway and skew.                                                        *)
(*                                                                         *)
(* The rules that bind a grant to its operation come last.  What a service *)
(* lets pass is what its issuer was asked for, whatever clients ask, for   *)
(* any directions that issuer, subject and audience tell apart.            *)
(***************************************************************************)
EXTENDS PlacementRanking, ClosureTransfer, EntryCancellation, FormatStages, KeyRotation,
        GrantBinding, FiniteSetTheorems, TLAPS

\* While nothing is refused, what the pass remembers is what it has seen.
Remembers ==
  LET n == Len(placements)
  IN  /\ seenEntries = {placements[i].entry : i \in 1..n}
      /\ seenSlots = {placements[i].slot : i \in 1..n}
      /\ n = 0 => previous = 0
      /\ n > 0 => previous = placements[n].rank /\ previousSlot = placements[n].slot

RankingTypeOK == /\ awaited \in Nat /\ awaited > 0
                 /\ placements \in Seq(Placement)
                 /\ Len(placements) <= awaited

RankingInv ==
  /\ RankingTypeOK
  /\ ranking \in {"open", "valid", "invalid"}
  /\ ranking # "invalid" => Remembers /\ Canonical(placements)
  /\ ranking = "invalid" => ~Canonical(placements)
  /\ ranking = "valid" => Len(placements) = awaited

\* What a ranking says of one placement, and of one behind another.
Better(s, r) == {j \in DOMAIN s : s[j].rank < r}
Valid(p) == p.entry # "" /\ p.known
Ranked(s, p) == /\ Valid(p) /\ p.slot < awaited
                /\ p.rank = 1 + Cardinality(Better(s, p.rank))
Behind(p, q) == /\ p.entry # q.entry /\ p.slot # q.slot
                /\ p.rank < q.rank \/ (p.rank = q.rank /\ p.slot < q.slot)

LEMMA CanonicalParts ==
  ASSUME NEW s
  PROVE  Canonical(s) <=> /\ \A i \in DOMAIN s : Ranked(s, s[i])
                          /\ \A i, j \in DOMAIN s : i < j => Behind(s[i], s[j])
BY Zenon DEF Canonical, Ranked, Valid, Behind, Better

\* Ranks and slots are natural numbers.
LEMMA PlacementType ==
  ASSUME NEW p \in Placement PROVE p.rank \in Nat /\ p.slot \in Nat
<1>1. p.slot \in 0 .. (Ordinals - 1) /\ p.rank \in 0 .. (Ordinals - 1)
  BY DEF Placement
<1>2. Ordinals \in Nat
  BY PlacementAssumption
<1> QED
  BY <1>1, <1>2

\* The placements seen, and one more.
LEMMA PlacementsSeen ==
  ASSUME RankingTypeOK
  PROVE  /\ Len(placements) \in Nat
         /\ DOMAIN placements = 1 .. Len(placements)
         /\ \A i \in 1 .. Len(placements) :
              /\ placements[i] \in Placement
              /\ placements[i].rank \in Nat /\ placements[i].slot \in Nat
<1>1. /\ Len(placements) \in Nat /\ DOMAIN placements = 1 .. Len(placements)
      /\ \A i \in 1 .. Len(placements) : placements[i] \in Placement
  BY DEF RankingTypeOK
<1> QED
  BY <1>1, PlacementType

LEMMA OneMore ==
  ASSUME RankingTypeOK, NEW p \in Placement, NEW n, n = Len(placements),
         NEW s, s = Append(placements, p)
  PROVE  /\ Len(s) = n + 1 /\ DOMAIN s = 1 .. (n + 1) /\ s \in Seq(Placement)
         /\ \A i \in 1 .. n : s[i] = placements[i]
         /\ s[n + 1] = p
BY DEF RankingTypeOK

\* The last placement of a canonical ranking has the highest rank, and of its rank
\* the highest slot.
LEMMA LastIsHighest ==
  ASSUME RankingTypeOK, Canonical(placements), NEW n, n = Len(placements), NEW i \in 1 .. n
  PROVE  /\ placements[i].rank <= placements[n].rank
         /\ placements[i].rank = placements[n].rank => placements[i].slot <= placements[n].slot
<1>1. /\ n \in Nat /\ DOMAIN placements = 1 .. n
      /\ \A k \in 1 .. n : placements[k].rank \in Nat /\ placements[k].slot \in Nat
  BY PlacementsSeen
<1>2. i = n \/ (i < n /\ n \in 1 .. n)
  BY <1>1
<1>3. ASSUME i < n PROVE Behind(placements[i], placements[n])
  BY <1>1, <1>2, <1>3, CanonicalParts
<1> QED
  BY <1>1, <1>2, <1>3 DEF Behind

\* Those who did better than a placement not better than the last: all of the
\* others, or those who did better than the last one.
LEMMA BetterThanNext ==
  ASSUME RankingTypeOK, Canonical(placements), NEW p \in Placement,
         NEW n, n = Len(placements), NEW s, s = Append(placements, p),
         n > 0, p.rank >= placements[n].rank
  PROVE  /\ p.rank > placements[n].rank => Cardinality(Better(s, p.rank)) = n
         /\ p.rank = placements[n].rank => 1 + Cardinality(Better(s, p.rank)) = p.rank
<1>1. /\ DOMAIN s = 1 .. (n + 1) /\ s[n + 1] = p
      /\ \A i \in 1 .. n : s[i] = placements[i]
  BY OneMore
<1>2. /\ n \in Nat /\ DOMAIN placements = 1 .. n /\ p.rank \in Nat
      /\ \A i \in 1 .. n : placements[i].rank \in Nat
  BY PlacementsSeen, PlacementType
<1>3. \A i \in 1 .. n : placements[i].rank <= placements[n].rank
  BY LastIsHighest
<1>4. ASSUME p.rank > placements[n].rank PROVE Cardinality(Better(s, p.rank)) = n
  <2>1. n \in 1 .. n
    BY <1>2
  <2>2. Better(s, p.rank) = 1 .. n
    BY <1>1, <1>2, <1>3, <1>4, <2>1 DEF Better
  <2>3. Cardinality(1 .. n) = n
    <3>1. 1 \in Int /\ n \in Int
      BY <1>2
    <3>2. Cardinality(1 .. n) = IF 1 > n THEN 0 ELSE n - 1 + 1
      BY <3>1, FS_Interval
    <3> QED
      BY <1>2, <3>2
  <2> QED
    BY <2>2, <2>3
<1>5. ASSUME p.rank = placements[n].rank PROVE 1 + Cardinality(Better(s, p.rank)) = p.rank
  <2>1. Better(s, p.rank) = Better(placements, placements[n].rank)
    BY <1>1, <1>2, <1>5 DEF Better
  <2>2. n \in DOMAIN placements
    BY <1>2
  <2>3. Ranked(placements, placements[n])
    BY <2>2, CanonicalParts
  <2> QED
    BY <1>5, <2>1, <2>3 DEF Ranked
<1> QED
  BY <1>4, <1>5

\* Slots that differ are no more than there are slots.
LEMMA RoomForSlot ==
  ASSUME RankingTypeOK, Canonical(placements), NEW p \in Placement, NEW n, n = Len(placements),
         \A i \in 1 .. n : placements[i].slot # p.slot
  PROVE  n + 1 <= Ordinals
<1> DEFINE S == 1 .. (n + 1)
           T == 0 .. (Ordinals - 1)
           f == [i \in S |-> IF i = n + 1 THEN p.slot ELSE placements[i].slot]
<1>1. /\ n \in Nat /\ DOMAIN placements = 1 .. n
      /\ \A i \in 1 .. n : placements[i].slot \in T
      /\ p.slot \in T /\ Ordinals \in Nat
  BY PlacementsSeen, PlacementAssumption DEF Placement
<1>2. \A i, j \in 1 .. n : i < j => placements[i].slot # placements[j].slot
  <2>1. \A i, j \in 1 .. n : i < j => Behind(placements[i], placements[j])
    BY Zenon, <1>1, CanonicalParts
  <2> QED
    BY <2>1 DEF Behind
<1>3. f \in [S -> T]
  BY <1>1
<1>4. \A i, j \in S : i # j => f[i] # f[j]
  <2>1. n \in Nat
    BY <1>1
  <2>2. ASSUME NEW i \in S, NEW j \in S, i < j PROVE f[i] # f[j]
    <3>1. i \in 1 .. n /\ (j \in 1 .. n \/ j = n + 1)
      BY <2>1, <2>2
    <3> QED
      BY <1>1, <1>2, <2>2, <3>1
  <2> QED
    BY <2>1, <2>2
<1>5. /\ IsFiniteSet(S) /\ IsFiniteSet(T)
      /\ Cardinality(S) = n + 1 /\ Cardinality(T) = Ordinals
  <2>1. /\ IsFiniteSet(S) /\ IsFiniteSet(T)
        /\ Cardinality(S) = IF 1 > n + 1 THEN 0 ELSE n + 1 - 1 + 1
        /\ Cardinality(T) = IF 0 > Ordinals - 1 THEN 0 ELSE (Ordinals - 1) - 0 + 1
    <3>1. n + 1 \in Int /\ Ordinals - 1 \in Int
      BY <1>1
    <3> QED
      BY <3>1, FS_Interval
  <2> QED
    BY <1>1, <2>1
<1> HIDE DEF S, T, f
<1>6. ~(Cardinality(T) < Cardinality(S))
  BY <1>3, <1>4, <1>5, FS_PigeonHole
<1> QED
  BY <1>1, <1>5, <1>6

\* So where there is a slot left, the next rank is cut only when no rank could be it.
LEMMA NextRank ==
  ASSUME NEW n \in Nat, n + 1 <= Ordinals, NEW r \in 1 .. (Ordinals - 1)
  PROVE  r = (n + 1) % Ordinals <=> r = n + 1
<1>1. Ordinals \in Nat /\ Ordinals > 1
  BY PlacementAssumption
<1>2. CASE n + 1 = Ordinals
  <2>1. (n + 1) % Ordinals = 0
    BY <1>1, <1>2
  <2> QED
    BY <1>1, <1>2, <2>1
<1>3. CASE n + 1 < Ordinals
  <2>1. (n + 1) % Ordinals = n + 1
    BY <1>1, <1>3
  <2> QED
    BY <2>1
<1> QED
  BY <1>1, <1>2, <1>3

\* Acceptable, in terms of the placements seen.
LEMMA AcceptableMeans ==
  ASSUME RankingTypeOK, Remembers, NEW p \in Placement, NEW n, n = Len(placements)
  PROVE  Acceptable(p) <=>
           /\ Valid(p) /\ p.slot < awaited
           /\ \A i \in 1 .. n : placements[i].entry # p.entry /\ placements[i].slot # p.slot
           /\ p.rank # 0
           /\ n = 0 => p.rank = 1
           /\ n > 0 => /\ p.rank >= placements[n].rank
                       /\ p.rank > placements[n].rank => p.rank = (n + 1) % Ordinals
                       /\ p.rank = placements[n].rank => p.slot > placements[n].slot
<1>1. /\ Valid(p) <=> p.entry # "" /\ p.known
      /\ placements = <<>> <=> n = 0
  <2>1. Valid(p) <=> p.entry # "" /\ p.known
    BY Zenon DEF Valid
  <2>2. placements = <<>> <=> n = 0
    BY DEF RankingTypeOK
  <2> QED
    BY Zenon, <2>1, <2>2
<1>2. n \in Nat /\ p.rank \in Nat
  BY PlacementsSeen, PlacementType
<1>3. p.entry \notin seenEntries /\ p.slot \notin seenSlots <=>
        \A i \in 1 .. n : placements[i].entry # p.entry /\ placements[i].slot # p.slot
  BY DEF Remembers
<1>4. Acceptable(p) <=>
        /\ Valid(p) /\ p.slot < awaited
        /\ p.entry \notin seenEntries /\ p.slot \notin seenSlots
        /\ p.rank >= previous /\ p.rank # 0
        /\ n = 0 => p.rank = 1
        /\ n # 0 /\ p.rank > previous => p.rank = (n + 1) % Ordinals
        /\ n # 0 /\ p.rank = previous => p.slot > previousSlot
  BY Zenon, <1>1 DEF Acceptable
<1>5. /\ n = 0 => previous = 0
      /\ n > 0 => previous = placements[n].rank /\ previousSlot = placements[n].slot
  BY DEF Remembers
<1> DEFINE new == p.entry \notin seenEntries /\ p.slot \notin seenSlots
           newest == \A i \in 1 .. n : placements[i].entry # p.entry /\ placements[i].slot # p.slot
<1>6. new <=> newest
  BY <1>3
<1> HIDE DEF new, newest
<1>7. Acceptable(p) <=>
        /\ Valid(p) /\ p.slot < awaited /\ new
        /\ p.rank >= previous /\ p.rank # 0
        /\ n = 0 => p.rank = 1
        /\ n # 0 /\ p.rank > previous => p.rank = (n + 1) % Ordinals
        /\ n # 0 /\ p.rank = previous => p.slot > previousSlot
  BY Zenon, <1>4 DEF new
<1>8. Acceptable(p) <=>
        /\ Valid(p) /\ p.slot < awaited /\ newest
        /\ p.rank # 0
        /\ n = 0 => p.rank = 1
        /\ n > 0 => /\ p.rank >= placements[n].rank
                    /\ p.rank > placements[n].rank => p.rank = (n + 1) % Ordinals
                    /\ p.rank = placements[n].rank => p.slot > placements[n].slot
  BY <1>2, <1>5, <1>6, <1>7
<1> QED
  BY Zenon, <1>8 DEF newest

\* An acceptable placement is behind all others, with its proper rank.
LEMMA AcceptableFits ==
  ASSUME RankingTypeOK, Remembers, Canonical(placements), NEW p \in Placement,
         NEW n, n = Len(placements), NEW s, s = Append(placements, p)
  PROVE  Acceptable(p) <=> Ranked(s, p) /\ \A i \in 1 .. n : Behind(placements[i], p)
<1>1. /\ n \in Nat /\ p.rank \in Nat /\ p.slot \in Nat
      /\ \A i \in 1 .. n : placements[i].rank \in Nat /\ placements[i].slot \in Nat
  BY PlacementsSeen, PlacementType
<1>2. CASE n = 0
  <2>1. Better(s, p.rank) = {}
    <3>1. DOMAIN s = 1 .. 1 /\ s[1] = p
      BY <1>2, OneMore
    <3> QED
      BY <1>1, <3>1 DEF Better
  <2>2. Cardinality(Better(s, p.rank)) = 0
    BY <2>1, FS_EmptySet
  <2>3. Acceptable(p) <=> Valid(p) /\ p.slot < awaited /\ p.rank = 1
    BY <1>1, <1>2, AcceptableMeans
  <2> QED
    BY <1>2, <2>2, <2>3 DEF Ranked
<1>3. CASE n > 0
  <2> DEFINE last == placements[n]
             new == \A i \in 1 .. n : placements[i].entry # p.entry /\ placements[i].slot # p.slot
             known == Valid(p) /\ p.slot < awaited
  <2>1. n \in 1 .. n /\ last.rank \in Nat /\ last.slot \in Nat
    BY <1>1, <1>3
  <2>2. last.rank > 0
    <3>1. Ranked(placements, last)
      BY <2>1, PlacementsSeen, CanonicalParts
    <3>2. IsFiniteSet(Better(placements, last.rank))
      <4>1. IsFiniteSet(1 .. n)
        BY <1>1, FS_Interval
      <4>2. Better(placements, last.rank) \in SUBSET (1 .. n)
        BY PlacementsSeen DEF Better
      <4> QED
        BY <4>1, <4>2, FS_Subset
    <3>3. Cardinality(Better(placements, last.rank)) \in Nat
      BY <3>2, FS_CardinalityType
    <3> QED
      BY <3>1, <3>3 DEF Ranked
  <2>3. Acceptable(p) <=>
          /\ known /\ new /\ p.rank >= last.rank
          /\ p.rank > last.rank => p.rank = n + 1
          /\ p.rank = last.rank => p.slot > last.slot
    <3>1. ASSUME new, p.rank > last.rank PROVE p.rank = (n + 1) % Ordinals <=> p.rank = n + 1
      <4>1. n + 1 <= Ordinals
        BY <3>1, RoomForSlot
      <4>2. p.rank \in 0 .. (Ordinals - 1) /\ Ordinals \in Nat
        BY PlacementAssumption DEF Placement
      <4>3. p.rank \in 1 .. (Ordinals - 1)
        BY <2>1, <2>2, <3>1, <4>2
      <4> QED
        BY <1>1, <4>1, <4>3, NextRank
    <3>2. Acceptable(p) <=>
            /\ known /\ new /\ p.rank # 0 /\ p.rank >= last.rank
            /\ p.rank > last.rank => p.rank = (n + 1) % Ordinals
            /\ p.rank = last.rank => p.slot > last.slot
      BY <1>1, <1>3, AcceptableMeans
    <3> HIDE DEF new, known, last
    <3> QED
      BY <1>1, <2>1, <2>2, <3>1, <3>2
  <2>4. \A i \in 1 .. n : /\ placements[i].rank <= last.rank
                          /\ placements[i].rank = last.rank => placements[i].slot <= last.slot
    BY LastIsHighest
  <2>5. (\A i \in 1 .. n : Behind(placements[i], p)) <=>
          new /\ p.rank >= last.rank /\ (p.rank = last.rank => p.slot > last.slot)
    BY <1>1, <2>1, <2>4 DEF Behind
  <2>6. p.rank >= last.rank =>
          (Ranked(s, p) <=> known /\ (p.rank > last.rank => p.rank = n + 1))
    <3> SUFFICES ASSUME p.rank >= last.rank
                 PROVE  Ranked(s, p) <=> known /\ (p.rank > last.rank => p.rank = n + 1)
      OBVIOUS
    <3>1. /\ p.rank > last.rank => Cardinality(Better(s, p.rank)) = n
          /\ p.rank = last.rank => 1 + Cardinality(Better(s, p.rank)) = p.rank
      BY <1>3, BetterThanNext
    <3> QED
      BY <1>1, <2>1, <3>1 DEF Ranked
  <2> HIDE DEF last, new, known
  <2> QED
    BY <2>3, <2>5, <2>6
<1> QED
  BY <1>1, <1>2, <1>3

\* The conditions on one placement are just those under which it continues a
\* canonical ranking.
LEMMA AcceptableContinues ==
  ASSUME RankingTypeOK, Remembers, Canonical(placements), NEW p \in Placement
  PROVE  Acceptable(p) <=> Canonical(Append(placements, p))
<1> DEFINE n == Len(placements)
           s == Append(placements, p)
<1>1. /\ DOMAIN s = 1 .. (n + 1) /\ s[n + 1] = p
      /\ \A i \in 1 .. n : s[i] = placements[i]
  BY OneMore
<1>2. /\ n \in Nat /\ DOMAIN placements = 1 .. n /\ p.rank \in Nat
      /\ \A i \in 1 .. n : placements[i].rank \in Nat
  BY PlacementsSeen, PlacementType
<1>3. Acceptable(p) <=> Ranked(s, p) /\ \A i \in 1 .. n : Behind(placements[i], p)
  BY AcceptableFits
<1> HIDE DEF n, s
<1>4. ASSUME \A i \in 1 .. n : Behind(placements[i], p), NEW i \in 1 .. n
      PROVE  Ranked(s, placements[i])
  <2>1. placements[i].rank <= p.rank
    BY <1>2, <1>4 DEF Behind
  <2>2. Better(s, placements[i].rank) = Better(placements, placements[i].rank)
    BY <1>1, <1>2, <2>1 DEF Better
  <2>3. Ranked(placements, placements[i])
    BY <1>2, CanonicalParts
  <2> QED
    BY <2>2, <2>3 DEF Ranked
<1>5. ASSUME Ranked(s, p), \A i \in 1 .. n : Behind(placements[i], p) PROVE Canonical(s)
  <2>1. ASSUME NEW i \in DOMAIN s PROVE Ranked(s, s[i])
    <3>1. i = n + 1 \/ i \in 1 .. n
      BY <1>1, <1>2
    <3> QED
      BY <1>1, <1>4, <1>5, <3>1
  <2>2. ASSUME NEW i \in DOMAIN s, NEW j \in DOMAIN s, i < j PROVE Behind(s[i], s[j])
    <3>1. i \in 1 .. n /\ (j = n + 1 \/ j \in 1 .. n)
      BY <1>1, <1>2, <2>2
    <3>2. \A k, l \in 1 .. n : k < l => Behind(placements[k], placements[l])
      BY <1>2, CanonicalParts
    <3> QED
      BY <1>1, <1>5, <2>2, <3>1, <3>2
  <2> QED
    BY <2>1, <2>2, CanonicalParts
<1>6. ASSUME Canonical(s) PROVE Ranked(s, p) /\ \A i \in 1 .. n : Behind(placements[i], p)
  <2>1. /\ n + 1 \in DOMAIN s
        /\ \A i \in 1 .. n : i \in DOMAIN s /\ i < n + 1
    BY <1>1, <1>2
  <2>2. /\ \A i \in DOMAIN s : Ranked(s, s[i])
        /\ \A i, j \in DOMAIN s : i < j => Behind(s[i], s[j])
    BY <1>6, CanonicalParts
  <2> QED
    BY <1>1, <2>1, <2>2
<1> QED
  BY <1>3, <1>5, <1>6 DEF s

\* Nothing has been looked at.
LEMMA PlacementStart == PlacementInit => RankingInv
<1> SUFFICES ASSUME PlacementInit PROVE RankingInv
  OBVIOUS
<1>1. awaited \in Nat /\ awaited > 0 /\ placements = <<>> /\ ranking = "open"
      /\ seenEntries = {} /\ seenSlots = {} /\ previous = 0
  BY PlacementAssumption DEF PlacementInit
<1>2. RankingTypeOK
  BY <1>1 DEF RankingTypeOK
<1>3. Remembers
  BY <1>1 DEF Remembers
<1> QED
  BY <1>1, <1>2, <1>3 DEF RankingInv, Canonical

\* Of the state, only the number of awaited placements bears on what is a canonical
\* ranking.
LEMMA SameNumberAwaited ==
  ASSUME awaited' = awaited, NEW s, placements' = s PROVE Canonical(placements)' <=> Canonical(s)
<1>1. Canonical(placements)' <=>
        /\ \A i \in DOMAIN s : Ranked(s, s[i])
        /\ \A i, j \in DOMAIN s : i < j => Behind(s[i], s[j])
  <2>1. Canonical(placements)' <=>
          /\ \A i \in DOMAIN s :
               /\ s[i].entry # "" /\ s[i].known /\ s[i].slot < awaited
               /\ s[i].rank = 1 + Cardinality({j \in DOMAIN s : s[j].rank < s[i].rank})
          /\ \A i, j \in DOMAIN s : i < j =>
               /\ s[i].entry # s[j].entry /\ s[i].slot # s[j].slot
               /\ s[i].rank < s[j].rank \/ (s[i].rank = s[j].rank /\ s[i].slot < s[j].slot)
    BY DEF Canonical
  <2> QED
    BY Zenon, <2>1 DEF Ranked, Valid, Behind, Better
<1> QED
  BY <1>1, CanonicalParts

LEMMA LookAtKeeps ==
  ASSUME RankingInv, NEW p \in Placement, LookAt(p) PROVE RankingInv'
<1> DEFINE n == Len(placements)
           s == Append(placements, p)
<1>1. /\ placements' = s /\ awaited' = awaited /\ n < awaited
      /\ ranking = "open" /\ RankingTypeOK /\ Remembers /\ Canonical(placements)
  BY DEF LookAt, RankingInv
<1>2. /\ n \in Nat /\ Len(s) = n + 1 /\ s \in Seq(Placement)
      /\ \A i \in 1 .. n : s[i] = placements[i]
      /\ s[n + 1] = p
  <2>1. n \in Nat
    BY <1>1, PlacementsSeen
  <2>2. /\ Len(s) = n + 1 /\ s \in Seq(Placement)
        /\ \A i \in 1 .. n : s[i] = placements[i]
        /\ s[n + 1] = p
    BY <1>1 DEF RankingTypeOK
  <2> QED
    BY <2>1, <2>2
<1>3. Canonical(placements)' <=> Canonical(s)
  BY <1>1, SameNumberAwaited
<1>4. Acceptable(p) <=> Canonical(s)
  BY <1>1, AcceptableContinues
<1>5. Remembers <=>
        /\ seenEntries = {placements[i].entry : i \in 1 .. n}
        /\ seenSlots = {placements[i].slot : i \in 1 .. n}
        /\ n = 0 => previous = 0
        /\ n > 0 => previous = placements[n].rank /\ previousSlot = placements[n].slot
  BY DEF Remembers
<1>6. RankingTypeOK'
  <2>1. awaited \in Nat /\ awaited > 0
    BY <1>1 DEF RankingTypeOK
  <2> HIDE DEF n, s
  <2>2. Len(s) <= awaited
    BY <1>1, <1>2, <2>1
  <2> QED
    BY <1>1, <1>2, <2>1, <2>2 DEF RankingTypeOK
<1>7. CASE Acceptable(p)
  <2>1. /\ seenEntries' = seenEntries \cup {p.entry} /\ seenSlots' = seenSlots \cup {p.slot}
        /\ previous' = p.rank /\ previousSlot' = p.slot /\ ranking' = "open"
    BY <1>1, <1>7 DEF LookAt
  <2>2. Remembers'
    <3> HIDE DEF n, s
    <3>1. seenEntries' = {s[i].entry : i \in 1 .. (n + 1)}
      BY <1>1, <1>2, <1>5, <2>1
    <3>2. seenSlots' = {s[i].slot : i \in 1 .. (n + 1)}
      BY <1>1, <1>2, <1>5, <2>1
    <3>3. n + 1 # 0
      BY <1>2
    <3>4. Remembers' <=>
            /\ seenEntries' = {s[i].entry : i \in 1 .. Len(s)}
            /\ seenSlots' = {s[i].slot : i \in 1 .. Len(s)}
            /\ Len(s) = 0 => previous' = 0
            /\ Len(s) > 0 => previous' = s[Len(s)].rank /\ previousSlot' = s[Len(s)].slot
      BY <1>1 DEF Remembers
    <3> QED
      BY <1>2, <2>1, <3>1, <3>2, <3>3, <3>4
  <2> QED
    BY <1>3, <1>4, <1>6, <1>7, <2>1, <2>2 DEF RankingInv
<1>8. CASE ~Acceptable(p)
  <2>1. ranking' = "invalid"
    BY <1>8 DEF LookAt
  <2> QED
    BY <1>3, <1>4, <1>6, <1>8, <2>1 DEF RankingInv
<1> QED
  BY <1>7, <1>8

\* The loop invariant of the pass.
THEOREM PassInvariance == PlacementSpec => []RankingInv
<1>1. RankingInv /\ [PlacementNext]_placementVars => RankingInv'
  <2> SUFFICES ASSUME RankingInv, [PlacementNext]_placementVars PROVE RankingInv'
    OBVIOUS
  <2>1. ASSUME UNCHANGED <<awaited, seenEntries, seenSlots, previous, previousSlot, placements>>,
               \/ ranking' = ranking
               \/ ranking = "open" /\ ranking' = "valid" /\ Len(placements) = awaited
        PROVE  RankingInv'
    <3>1. Canonical(placements)' <=> Canonical(placements)
      BY <2>1, SameNumberAwaited
    <3>2. RankingTypeOK' <=> RankingTypeOK
      BY <2>1 DEF RankingTypeOK
    <3>3. Remembers' <=> Remembers
      BY <2>1 DEF Remembers
    <3> QED
      BY <2>1, <3>1, <3>2, <3>3 DEF RankingInv
  <2>2. CASE UNCHANGED placementVars
    BY <2>1, <2>2 DEF placementVars
  <2>3. CASE EndOfPlacements
    BY <2>1, <2>3 DEF EndOfPlacements
  <2>4. ASSUME NEW p \in Placement, LookAt(p) PROVE RankingInv'
    BY <2>4, LookAtKeeps
  <2> QED
    BY <2>2, <2>3, <2>4 DEF PlacementNext
<1> QED
  BY <1>1, PlacementStart, PTL DEF PlacementSpec

\* As many different slots as there are, all in range, are all the slots.
LEMMA AllSlotsTaken ==
  ASSUME RankingTypeOK, Canonical(placements), Len(placements) = awaited
  PROVE  {placements[i].slot : i \in DOMAIN placements} = 0 .. (awaited - 1)
<1> DEFINE S == 1 .. awaited
           T == 0 .. (awaited - 1)
           f == [i \in S |-> placements[i].slot]
<1>1. /\ awaited \in Nat /\ awaited > 0 /\ DOMAIN placements = S
      /\ \A i \in S : placements[i].slot \in Nat
  BY PlacementsSeen DEF RankingTypeOK
<1>2. /\ \A i \in S : Ranked(placements, placements[i])
      /\ \A i, j \in S : i < j => Behind(placements[i], placements[j])
  BY <1>1, CanonicalParts
<1>3. \A i \in S : placements[i].slot \in T
  BY <1>1, <1>2 DEF Ranked
<1>4. \A i, j \in S : placements[i].slot = placements[j].slot => i = j
  BY <1>1, <1>2 DEF Behind
<1>5. f \in Injection(S, T)
  BY <1>3, <1>4 DEF Injection, IsInjective
<1>6. IsFiniteSet(T) /\ Cardinality(S) = Cardinality(T)
  <2>1. /\ IsFiniteSet(T)
        /\ Cardinality(S) = IF 1 > awaited THEN 0 ELSE awaited - 1 + 1
        /\ Cardinality(T) = IF 0 > awaited - 1 THEN 0 ELSE (awaited - 1) - 0 + 1
    <3>1. awaited \in Int /\ awaited - 1 \in Int
      BY <1>1
    <3> QED
      BY <3>1, FS_Interval
  <2> QED
    BY <1>1, <2>1
<1>7. f \in Surjection(S, T)
  BY <1>5, <1>6, FS_Injection
<1>8. \A t \in T : \E i \in S : f[i] = t
  BY <1>7 DEF Surjection
<1> QED
  BY <1>1, <1>3, <1>8

\* For every number of placements the pass accepts just the competition rankings
\* (RankingExact).
THEOREM RankingsJudgedExactly == PlacementSpec => []RankingExact
<1>1. RankingInv => RankingExact
  BY AllSlotsTaken DEF RankingInv, RankingExact
<1> QED
  BY <1>1, PassInvariance, PTL

-----------------------------------------------------------------------------
\* The byte count of a transfer.  The invariant is that of the loop: while nothing is
\* refused, the word holds the true sum, which the aggregate limit bounds.
Good(f, limit) == f.planned /\ f.size <= limit

LoopInv ==
  /\ TransferTypeOK
  /\ transfer # "refused" => /\ sent = Len(limits)
                             /\ total = sum
                             /\ sum <= aggregate
                             /\ \A i \in 1..Len(files) : Good(files[i], limits[i])
  /\ transfer = "refused" => \/ sent # Len(limits)
                             \/ sum > aggregate
                             \/ \E i \in 1..Len(files) : ~Good(files[i], limits[i])

\* A number that fits the word is itself when reduced to the word.
LEMMA FitsWord ==
  ASSUME NEW x \in 0..(Word - 1)
  PROVE  x % Word = x
BY TransferAssumption

\* While the word holds the true sum, the checks of the loop are the true ones.
LEMMA WithinMeans ==
  ASSUME TransferTypeOK, Len(files) < Len(limits), NEW f \in File,
         total = sum, sum <= aggregate
  PROVE  Within(f) <=> Good(f, limits[Len(files) + 1]) /\ sum + f.size <= aggregate
<1>1. /\ f.size \in 0..(Word - 1) /\ aggregate \in 1..(Word - 1) /\ sum \in Nat
      /\ Word \in Nat /\ limits[Len(files) + 1] \in Limit
  BY TransferAssumption DEF TransferTypeOK, File, Size, Limit
<1>2. CASE f.size <= aggregate
  <2>1. aggregate - f.size \in 0..(Word - 1)
    BY <1>1, <1>2
  <2>2. (aggregate - f.size) % Word = aggregate - f.size
    BY <2>1, FitsWord
  <2> QED BY <1>1, <1>2, <2>2 DEF Within, Good
<1>3. CASE ~(f.size <= aggregate)
  <2>1. sum + f.size > aggregate
    BY <1>1, <1>3
  <2> QED BY <1>1, <1>3, <2>1 DEF Within
<1> QED BY <1>2, <1>3

\* The loop starts with nothing counted.
LEMMA TransferStart == TransferInit => LoopInv
<1> SUFFICES ASSUME TransferInit PROVE LoopInv
  OBVIOUS
<1>1. PICK n \in 1..MaxFiles : limits \in [1..n -> Limit]
  BY DEF TransferInit
<1>2. limits \in Seq(Limit)
  BY <1>1, TransferAssumption
<1>3. /\ total = 0 /\ files = <<>> /\ sum = 0 /\ aggregate \in Limit
      /\ sent \in Nat /\ transfer = IF sent = Len(limits) THEN "open" ELSE "refused"
  BY TransferAssumption DEF TransferInit
<1>4. 0 \in Size
  BY TransferAssumption DEF Size
<1>5. /\ files \in Seq(File) /\ Len(files) = 0 /\ Len(files) <= Len(limits)
  BY <1>2, <1>3
<1>6. 0 <= aggregate /\ 1..0 = {}
  BY <1>3, TransferAssumption DEF Limit
<1> QED BY <1>2, <1>3, <1>4, <1>5, <1>6 DEF LoopInv, TransferTypeOK

\* One file more.
LEMMA CheckFileKeeps ==
  ASSUME LoopInv, NEW f \in File, CheckFile(f)
  PROVE  LoopInv'
<1> DEFINE n == Len(files)
<1>1. /\ transfer = "open" /\ n < Len(limits)
      /\ files' = Append(files, f) /\ sum' = sum + f.size
      /\ limits' = limits /\ aggregate' = aggregate /\ sent' = sent /\ sent = Len(limits)
  BY DEF CheckFile, LoopInv
<1>2. /\ files \in Seq(File) /\ n \in Nat /\ sum \in Nat /\ f.size \in Size
      /\ total = sum /\ sum <= aggregate /\ aggregate \in Limit /\ limits \in Seq(Limit)
      /\ \A i \in 1..n : Good(files[i], limits[i])
  BY <1>1 DEF LoopInv, TransferTypeOK, File
<1>3. /\ files' \in Seq(File) /\ Len(files') = n + 1
      /\ files'[n + 1] = f /\ \A i \in 1..n : files'[i] = files[i]
  BY <1>1, <1>2
<1>4. sum' \in Nat
  BY <1>1, <1>2 DEF Size
<1>5. CASE Within(f)
  <2>1. Good(f, limits[n + 1]) /\ sum + f.size <= aggregate
    BY <1>1, <1>2, <1>5, WithinMeans DEF LoopInv
  <2>2. total' = (total + f.size) % Word /\ transfer' = transfer
    BY <1>5 DEF CheckFile
  <2>3. total + f.size \in 0..(Word - 1)
    BY <1>2, <2>1, TransferAssumption DEF Size, Limit
  <2>4. total' = sum' /\ total' \in Size /\ sum' <= aggregate'
    BY <1>1, <1>2, <2>1, <2>2, <2>3, FitsWord DEF Size
  <2>5. \A i \in 1..Len(files') : Good(files'[i], limits'[i])
    <3> SUFFICES ASSUME NEW i \in 1..(n + 1) PROVE Good(files'[i], limits'[i])
      BY <1>3
    <3>1. CASE i = n + 1
      BY <3>1, <2>1, <1>1, <1>3 DEF Good
    <3>2. CASE i \in 1..n
      BY <3>2, <1>1, <1>2, <1>3 DEF Good
    <3> QED BY <3>1, <3>2, <1>2
  <2>6. TransferTypeOK'
    BY <1>1, <1>2, <1>3, <1>4, <2>2, <2>4 DEF TransferTypeOK, LoopInv
  <2> QED BY <1>1, <2>2, <2>4, <2>5, <2>6 DEF LoopInv
<1>6. CASE ~Within(f)
  <2>1. ~Good(f, limits[n + 1]) \/ ~(sum + f.size <= aggregate)
    BY <1>1, <1>2, <1>6, WithinMeans DEF LoopInv
  <2>2. transfer' = "refused" /\ total' = total
    BY <1>6 DEF CheckFile
  <2>3. sum' > aggregate' \/ \E i \in 1..Len(files') : ~Good(files'[i], limits'[i])
    <3>1. CASE ~Good(f, limits[n + 1])
      <4>1. n + 1 \in 1..Len(files') /\ ~Good(files'[n + 1], limits'[n + 1])
        BY <3>1, <1>1, <1>2, <1>3 DEF Good
      <4> QED BY <4>1
    <3>2. CASE ~(sum + f.size <= aggregate)
      BY <3>2, <1>1, <1>2 DEF Size, Limit
    <3> QED BY <2>1, <3>1, <3>2
  <2>4. TransferTypeOK'
    BY <1>1, <1>2, <1>3, <1>4, <2>2 DEF TransferTypeOK, LoopInv
  <2> QED BY <2>2, <2>3, <2>4 DEF LoopInv
<1> QED BY <1>5, <1>6

\* The invariant of the loop.
THEOREM LoopInvariance == TransferSpec => []LoopInv
<1>1. LoopInv /\ [TransferNext]_transferVars => LoopInv'
  <2> SUFFICES ASSUME LoopInv, [TransferNext]_transferVars PROVE LoopInv'
    OBVIOUS
  <2>1. ASSUME NEW f \in File, CheckFile(f) PROVE LoopInv'
    BY <2>1, CheckFileKeeps
  <2>2. ASSUME NEW matches \in BOOLEAN, CheckDigest(matches) PROVE LoopInv'
    <3>1. /\ UNCHANGED <<limits, aggregate, sent, total, files, sum>>
          /\ transfer = "open" /\ transfer' \in {"accepted", "mismatch"}
      BY <2>2 DEF CheckDigest
    <3> QED BY <3>1 DEF LoopInv, TransferTypeOK, Good
  <2>3. CASE UNCHANGED transferVars
    BY <2>3 DEF transferVars, LoopInv, TransferTypeOK, Good
  <2> QED BY <2>1, <2>2, <2>3 DEF TransferNext
<1> QED BY TransferStart, <1>1, PTL DEF TransferSpec

\* The loop refuses exactly what breaks the plan, whatever the word size.
THEOREM TransfersJudgedExactly == TransferSpec => []TransferExact
<1>1. LoopInv => TransferExact
  <2> SUFFICES ASSUME LoopInv PROVE TransferExact
    OBVIOUS
  <2>1. /\ sum \in Nat /\ aggregate \in Int
        /\ files \in Seq(File) /\ limits \in Seq(Limit) /\ Len(files) <= Len(limits)
    BY TransferAssumption DEF LoopInv, TransferTypeOK, Limit
  <2>2. \A i \in 1..Len(files) :
          Good(files[i], limits[i]) <=> ~(~files[i].planned \/ files[i].size > limits[i])
    <3> SUFFICES ASSUME NEW i \in 1..Len(files)
                 PROVE  Good(files[i], limits[i]) <=> ~(~files[i].planned \/ files[i].size > limits[i])
      OBVIOUS
    <3>1. files[i].size \in Int /\ limits[i] \in Int
      <4>1. i \in 1..Len(limits) /\ files[i] \in File /\ limits[i] \in Limit
        BY <2>1
      <4> QED BY <4>1, TransferAssumption DEF File, Size, Limit
    <3> QED BY <3>1 DEF Good
  <2>3. CASE transfer = "refused"
    BY <2>1, <2>2, <2>3 DEF LoopInv, TransferExact
  <2>4. CASE transfer # "refused"
    BY <2>1, <2>2, <2>4 DEF LoopInv, TransferExact
  <2> QED BY <2>3, <2>4
<1> QED BY <1>1, LoopInvariance, PTL

-----------------------------------------------------------------------------
\* The lock only closes: what a decision says of it in the affirmative stays
\* true, and in the negative it was said of a timely proposal.
DecisionsHonest ==
  \A d \in decisions :
    /\ d.registrationLocked => locked
    /\ ~d.registrationLocked =>
         [requestID |-> d.requestID, booking |-> d.booking, revision |-> d.revision,
          origin |-> d.origin] \in timely

\* Everything proposed before the lock was proposed in time.
AllTimelyBeforeLock == ~locked => proposals \subseteq timely

\* What cancelled a booking is a decision bound to its proposal.
CancelledByBinding ==
  \A c \in cancelled : /\ c.proposal \in Proposal /\ c.decision \in decisions
                       /\ Decides(c.proposal, c.decision)

\* The inductive invariant.
CancellationInv == CancellationTypeOK /\ DecisionsHonest /\ AllTimelyBeforeLock /\ CancelledByBinding

-----------------------------------------------------------------------------
LEMMA CancellationStart == CancellationInit => CancellationInv
<1>1. 1 \in 1 .. MaxRevision
  BY CancellationAssumption DEF CancellationAssumption
<1> QED
  BY <1>1 DEF CancellationInit, CancellationInv, CancellationTypeOK, DecisionsHonest, AllTimelyBeforeLock,
     CancelledByBinding

LEMMA LockKeeps == CancellationInv /\ Lock => CancellationInv'
<1> QED
  BY DEF CancellationInv, Lock, CancellationTypeOK, DecisionsHonest, AllTimelyBeforeLock, CancelledByBinding,
     Decides, ValidDecision

LEMMA ReviseKeeps ==
  ASSUME NEW b \in Booking, CancellationInv, Revise(b)
  PROVE  CancellationInv'
<1>1. revision' \in [Booking -> 1 .. MaxRevision]
  BY CancellationAssumption DEF CancellationAssumption, CancellationInv, CancellationTypeOK, Revise
<1> QED
  BY <1>1 DEF CancellationInv, Revise, CancellationTypeOK, DecisionsHonest, AllTimelyBeforeLock,
     CancelledByBinding, Decides, ValidDecision

LEMMA ProposeKeeps ==
  ASSUME NEW id \in RequestID, NEW b \in Booking, NEW origin \in Origin,
         CancellationInv, Propose(id, b, origin)
  PROVE  CancellationInv'
<1> DEFINE p == [requestID |-> id, booking |-> b, revision |-> revision[b], origin |-> origin]
<1>1. p \in Proposal
  BY DEF CancellationInv, CancellationTypeOK, Proposal
<1>2. /\ proposals' = proposals \cup {p}
      /\ timely' = IF locked THEN timely ELSE timely \cup {p}
      /\ UNCHANGED <<locked, revision, decisions, cancelled>>
  BY DEF Propose
<1> HIDE DEF p
<1>3. CancellationTypeOK'
  BY <1>1, <1>2 DEF CancellationInv, CancellationTypeOK
<1>4. DecisionsHonest'
  BY <1>2 DEF CancellationInv, DecisionsHonest
<1>5. AllTimelyBeforeLock'
  BY <1>2 DEF CancellationInv, AllTimelyBeforeLock
<1> QED
  BY <1>2, <1>3, <1>4, <1>5 DEF CancellationInv, CancelledByBinding

LEMMA DecideKeeps ==
  ASSUME NEW p \in proposals, CancellationInv, Decide(p)
  PROVE  CancellationInv'
<1>1. PICK authorized \in BOOLEAN, refund \in BOOLEAN, byAuthoriser \in BOOLEAN :
        decisions' = decisions \cup
          {[requestID |-> p.requestID, booking |-> p.booking, revision |-> p.revision,
            origin |-> p.origin, authorized |-> authorized, refundAuthorized |-> refund,
            registrationLocked |-> locked, byAuthoriser |-> byAuthoriser]}
  BY DEF Decide
<1> DEFINE new == [requestID |-> p.requestID, booking |-> p.booking, revision |-> p.revision,
                   origin |-> p.origin, authorized |-> authorized, refundAuthorized |-> refund,
                   registrationLocked |-> locked, byAuthoriser |-> byAuthoriser]
<1>2. p \in Proposal /\ locked \in BOOLEAN
  BY DEF CancellationInv, CancellationTypeOK
<1>3. new \in Decision
  BY <1>2 DEF Proposal, Decision
<1>4. [requestID |-> new.requestID, booking |-> new.booking, revision |-> new.revision,
      origin |-> new.origin] = p
  BY <1>2 DEF Proposal
<1>5. new.registrationLocked = locked
  OBVIOUS
<1>6. decisions' = decisions \cup {new} /\ UNCHANGED <<locked, revision, proposals, timely, cancelled>>
  BY <1>1 DEF Decide
<1> HIDE DEF new
<1>7. CancellationTypeOK'
  BY <1>3, <1>6 DEF CancellationInv, CancellationTypeOK
<1>8. DecisionsHonest'
  BY <1>4, <1>5, <1>6 DEF CancellationInv, DecisionsHonest, AllTimelyBeforeLock
<1> QED
  BY <1>6, <1>7, <1>8 DEF CancellationInv, AllTimelyBeforeLock, CancelledByBinding, Decides, ValidDecision

LEMMA ApplyKeeps ==
  ASSUME NEW p \in proposals, NEW d \in decisions, CancellationInv, Apply(p, d)
  PROVE  CancellationInv'
<1>1. p \in Proposal /\ Decides(p, d)
  BY DEF CancellationInv, CancellationTypeOK, Apply
<1> DEFINE new == [proposal |-> p, decision |-> d]
<1>2. cancelled' = cancelled \cup {new} /\ UNCHANGED <<locked, revision, proposals, timely, decisions>>
  BY DEF Apply
<1>3. CancellationTypeOK'
  BY <1>2 DEF CancellationInv, CancellationTypeOK
<1>4. CancelledByBinding'
  BY <1>1, <1>2 DEF CancellationInv, CancelledByBinding, Decides, ValidDecision
<1> QED
  BY <1>2, <1>3, <1>4 DEF CancellationInv, DecisionsHonest, AllTimelyBeforeLock

\* The invariant holds whatever is repeated, delayed and reordered.
THEOREM CancellationInvariant == CancellationSpec => []CancellationInv
<1>1. CancellationInv /\ [CancellationNext]_cancellationVars => CancellationInv'
  <2> SUFFICES ASSUME CancellationInv, [CancellationNext]_cancellationVars PROVE CancellationInv'
    OBVIOUS
  <2>1. CASE UNCHANGED cancellationVars
    BY <2>1 DEF cancellationVars, CancellationInv, CancellationTypeOK, DecisionsHonest, AllTimelyBeforeLock,
       CancelledByBinding, Decides, ValidDecision
  <2> QED
    BY <2>1, LockKeeps, ReviseKeeps, ProposeKeeps, DecideKeeps, ApplyKeeps DEF CancellationNext
<1> QED
  BY <1>1, CancellationStart, PTL DEF CancellationSpec

\* Binding a decision to its proposal, as ValidateBookOnlineEntryCancellationBinding
\* does, is enough for the refund to follow the lock (event_registration.go:238-257).
THEOREM RefundsFollowTheLock == CancellationSpec => []RefundFollowsLock
<1>1. CancellationInv => RefundFollowsLock
  <2> SUFFICES ASSUME CancellationInv, NEW c \in cancelled
               PROVE  /\ c.proposal.origin = "organiser" => c.decision.refundAuthorized
                      /\ ~c.decision.refundAuthorized => locked
                      /\ c.proposal.origin = "participant" /\ c.decision.refundAuthorized
                         /\ ~c.decision.byAuthoriser => c.proposal \in timely
    BY DEF RefundFollowsLock
  <2> DEFINE p == c.proposal
             d == c.decision
  <2>1. p \in Proposal /\ d \in decisions /\ Decides(p, d)
    BY DEF CancellationInv, CancelledByBinding
  <2>2. p = [requestID |-> d.requestID, booking |-> d.booking, revision |-> d.revision,
             origin |-> d.origin]
    BY <2>1 DEF Proposal, Decides
  <2>3. d \in Decision
    BY <2>1 DEF CancellationInv, CancellationTypeOK
  <2>4. d.origin \in {"participant", "organiser"} /\ d.registrationLocked \in BOOLEAN
        /\ d.refundAuthorized \in BOOLEAN /\ d.byAuthoriser \in BOOLEAN
    BY <2>3 DEF Decision, Origin
  <2>5. ValidDecision(d) /\ p.origin = d.origin
    BY <2>1 DEF Decides
  <2>6. d.registrationLocked => locked
    BY <2>1 DEF CancellationInv, DecisionsHonest
  <2>7. ~d.registrationLocked => p \in timely
    BY <2>1, <2>2 DEF CancellationInv, DecisionsHonest
  <2> HIDE DEF p, d
  <2>8. /\ p.origin = "organiser" => d.refundAuthorized
        /\ ~d.refundAuthorized => locked
        /\ p.origin = "participant" /\ d.refundAuthorized /\ ~d.byAuthoriser => p \in timely
    BY <2>4, <2>5, <2>6, <2>7 DEF ValidDecision
  <2> QED
    BY <2>8 DEF p, d
<1> QED
  BY <1>1, CancellationInvariant, PTL

-----------------------------------------------------------------------------
\* Descriptors: the destinations of a stage are listed with it.
DestinationShape == [stage : Nat, contest : Nat, qualifier : Nat,
                     target : Nat, targetContest : Nat, slot : Nat]
Descriptor ==
  {f \in [stages : Seq(StageShape), destinations : SUBSET DestinationShape] :
     IsFiniteSet(f.destinations) /\ \A d \in f.destinations : d.stage \in DOMAIN f.stages}

Into(f, k) == {d \in f.destinations : d.target = k}
Seats(f, k) == (0 .. (f.stages[k].contests - 1)) \X (0 .. (f.stages[k].participants - 1))

LEMMA DescriptorParts ==
  ASSUME NEW f \in Descriptor
  PROVE  /\ f.stages \in Seq(StageShape) /\ Len(f.stages) \in Nat
         /\ DOMAIN f.stages = 1 .. Len(f.stages)
         /\ \A k \in 1 .. Len(f.stages) :
              /\ f.stages[k].contests \in Nat /\ f.stages[k].participants \in Nat
              /\ f.stages[k].advancing \in Nat
         /\ IsFiniteSet(f.destinations)
         /\ \A d \in f.destinations :
              /\ d \in DestinationShape /\ d.stage \in 1 .. Len(f.stages)
              /\ d.contest \in Nat /\ d.qualifier \in Nat
              /\ d.target \in Nat /\ d.targetContest \in Nat /\ d.slot \in Nat
<1>1. /\ f.stages \in Seq(StageShape) /\ f.destinations \subseteq DestinationShape
      /\ IsFiniteSet(f.destinations) /\ \A d \in f.destinations : d.stage \in DOMAIN f.stages
  BY DEF Descriptor
<1>2. /\ Len(f.stages) \in Nat /\ DOMAIN f.stages = 1 .. Len(f.stages)
      /\ \A k \in 1 .. Len(f.stages) : f.stages[k] \in StageShape
  BY <1>1
<1>3. \A d \in f.destinations : d \in DestinationShape
  BY <1>1
<1> QED
  BY <1>1, <1>2, <1>3 DEF StageShape, DestinationShape

\* A destination in range takes a seat of the stage it leads to.
LEMMA TakesSeat ==
  ASSUME NEW f \in Descriptor, \A d \in f.destinations : InRange(f, d), NEW d \in f.destinations
  PROVE  /\ d.target \in 2 .. Len(f.stages) /\ d.stage < d.target
         /\ d.targetContest \in 0 .. (f.stages[d.target].contests - 1)
         /\ d.slot \in 0 .. (f.stages[d.target].participants - 1)
         /\ d.contest \in 0 .. (f.stages[d.stage].contests - 1)
         /\ d.qualifier \in 0 .. (f.stages[d.stage].advancing - 1)
<1>1. /\ Len(f.stages) \in Nat /\ d.stage \in 1 .. Len(f.stages)
      /\ d.contest \in Nat /\ d.qualifier \in Nat
      /\ d.target \in Nat /\ d.targetContest \in Nat /\ d.slot \in Nat
  BY DescriptorParts
<1>2. /\ d.target \in (d.stage + 1) .. Len(f.stages)
      /\ d.contest < f.stages[d.stage].contests
      /\ d.qualifier < f.stages[d.stage].advancing
      /\ d.targetContest < f.stages[d.target].contests
      /\ d.slot < f.stages[d.target].participants
  BY DEF InRange
<1>3. d.target \in 1 .. Len(f.stages) /\ d.target \in 2 .. Len(f.stages) /\ d.stage < d.target
  BY <1>1, <1>2
<1>4. /\ f.stages[d.stage].contests \in Nat /\ f.stages[d.stage].advancing \in Nat
      /\ f.stages[d.target].contests \in Nat /\ f.stages[d.target].participants \in Nat
  BY <1>1, <1>3, DescriptorParts
<1>5. \A a, b \in Nat : a < b => a \in 0 .. (b - 1)
  OBVIOUS
<1> QED
  BY <1>1, <1>2, <1>3, <1>4, <1>5, Zenon

LEMMA SeatsCount ==
  ASSUME NEW f \in Descriptor, NEW k \in 1 .. Len(f.stages)
  PROVE  /\ IsFiniteSet(Seats(f, k))
         /\ Cardinality(Seats(f, k)) = f.stages[k].contests * f.stages[k].participants
<1> DEFINE c == f.stages[k].contests
           p == f.stages[k].participants
<1>1. c \in Nat /\ p \in Nat
  BY DescriptorParts
<1>2. \A n \in Nat : IsFiniteSet(0 .. (n - 1)) /\ Cardinality(0 .. (n - 1)) = n
  <2> SUFFICES ASSUME NEW n \in Nat
               PROVE  IsFiniteSet(0 .. (n - 1)) /\ Cardinality(0 .. (n - 1)) = n
    OBVIOUS
  <2>1. 0 \in Int /\ n - 1 \in Int
    OBVIOUS
  <2>2. Cardinality(0 .. (n - 1)) = IF 0 > n - 1 THEN 0 ELSE (n - 1) - 0 + 1
    BY <2>1, FS_Interval
  <2> QED
    BY <2>1, <2>2, FS_Interval
<1> HIDE DEF c, p
<1>3. /\ IsFiniteSet((0 .. (c - 1)) \X (0 .. (p - 1)))
      /\ Cardinality((0 .. (c - 1)) \X (0 .. (p - 1))) = c * p
  <2> DEFINE C == 0 .. (c - 1)
             P == 0 .. (p - 1)
  <2>1. IsFiniteSet(C) /\ Cardinality(C) = c /\ IsFiniteSet(P) /\ Cardinality(P) = p
    BY <1>1, <1>2
  <2> HIDE DEF C, P
  <2>2. IsFiniteSet(C \X P) /\ Cardinality(C \X P) = Cardinality(C) * Cardinality(P)
    BY <2>1, FS_Product
  <2> QED
    BY <2>1, <2>2 DEF C, P
<1> QED
  BY <1>3 DEF Seats, c, p

\* Counting is enough: destinations that differ in the seats they take and are as
\* many as the seats take them all, and the other way round.
LEMMA CountedIffSeated ==
  ASSUME NEW f \in Descriptor, \A d \in f.destinations : InRange(f, d),
         NEW k \in 2 .. Len(f.stages),
         \A d, e \in Into(f, k) : d # e => To(d) # To(e)
  PROVE  Incoming(f, k) = f.stages[k].contests * f.stages[k].participants
           <=> \A seat \in Seats(f, k) :
                 \E d \in Into(f, k) : <<d.targetContest, d.slot>> = seat
<1> DEFINE S == Into(f, k)
           T == Seats(f, k)
           g == [d \in S |-> <<d.targetContest, d.slot>>]
<1>1. \A d \in S : g[d] \in T
  BY TakesSeat DEF Into, Seats
<1>2. \A d, e \in S : g[d] = g[e] => d = e
  BY DEF Into, To
<1>3. g \in Injection(S, T)
  BY <1>1, <1>2 DEF Injection, IsInjective
<1>4. k \in 1 .. Len(f.stages)
  BY DescriptorParts
<1>5. /\ IsFiniteSet(T)
      /\ Cardinality(T) = f.stages[k].contests * f.stages[k].participants
  BY <1>4, SeatsCount
<1>6. Incoming(f, k) = Cardinality(S)
  BY DEF Incoming, Into
<1>7. Cardinality(S) = Cardinality(T) <=> g \in Surjection(S, T)
  <2> HIDE DEF g, S, T
  <2> QED
    BY <1>3, <1>5, FS_Injection
<1>8. g \in Surjection(S, T) <=> \A t \in T : \E d \in S : g[d] = t
  BY <1>1 DEF Surjection
<1> QED
  BY <1>5, <1>6, <1>7, <1>8

\* The validation of a descriptor is what its players need.
LEMMA ValidMeansPlayable ==
  ASSUME NEW f \in Descriptor
  PROVE  ValidateFormatStages(f) <=>
           /\ f.stages # <<>>
           /\ \A k \in DOMAIN f.stages : WellShaped(f.stages[k])
           /\ \A d \in f.destinations : InRange(f, d)
           /\ Playable(f)
<1> DEFINE Apart == \A d, e \in f.destinations : d # e => To(d) # To(e) /\ From(d) # From(e)
           Full == \A k \in 2 .. Len(f.stages) :
                     Incoming(f, k) = f.stages[k].contests * f.stages[k].participants
<1> SUFFICES ASSUME \A d \in f.destinations : InRange(f, d)
             PROVE  Playable(f) <=> Apart /\ Full
  BY DEF ValidateFormatStages
<1>1. ASSUME Apart, Full PROVE Playable(f)
  <2> SUFFICES ASSUME NEW k \in 2 .. Len(f.stages),
                      NEW contest \in 0 .. (f.stages[k].contests - 1),
                      NEW slot \in 0 .. (f.stages[k].participants - 1)
               PROVE  \E d \in f.destinations :
                        /\ To(d) = <<k, contest, slot>>
                        /\ d.stage < k
                        /\ d.contest \in 0 .. (f.stages[d.stage].contests - 1)
                        /\ d.qualifier \in 0 .. (f.stages[d.stage].advancing - 1)
                        /\ \A e \in f.destinations : e # d => To(e) # To(d) /\ From(e) # From(d)
    BY DEF Playable
  <2>1. \A d, e \in Into(f, k) : d # e => To(d) # To(e)
    BY <1>1 DEF Into
  <2>2. <<contest, slot>> \in Seats(f, k)
    BY DEF Seats
  <2>3. PICK d \in Into(f, k) : <<d.targetContest, d.slot>> = <<contest, slot>>
    BY <1>1, <2>1, <2>2, CountedIffSeated
  <2>4. d \in f.destinations /\ d.target = k /\ To(d) = <<k, contest, slot>>
    BY <2>3 DEF Into, To
  <2>5. \A e \in f.destinations : e # d => To(e) # To(d) /\ From(e) # From(d)
    BY <1>1, <2>4
  <2> QED
    BY <2>4, <2>5, TakesSeat
<1>2. ASSUME Playable(f) PROVE Apart
  <2> SUFFICES ASSUME NEW d \in f.destinations, NEW e \in f.destinations, d # e
               PROVE  To(d) # To(e) /\ From(d) # From(e)
    OBVIOUS
  <2>1. PICK x \in f.destinations :
          /\ To(x) = <<d.target, d.targetContest, d.slot>>
          /\ \A y \in f.destinations : y # x => To(y) # To(x) /\ From(y) # From(x)
    BY <1>2, TakesSeat DEF Playable
  <2>2. x = d
    BY <2>1 DEF To
  <2> QED
    BY <2>1, <2>2
<1>3. ASSUME Playable(f) PROVE Full
  <2> SUFFICES ASSUME NEW k \in 2 .. Len(f.stages)
               PROVE  Incoming(f, k) = f.stages[k].contests * f.stages[k].participants
    OBVIOUS
  <2>1. \A d, e \in Into(f, k) : d # e => To(d) # To(e)
    BY <1>2, <1>3 DEF Into
  <2>2. ASSUME NEW seat \in Seats(f, k)
        PROVE  \E d \in Into(f, k) : <<d.targetContest, d.slot>> = seat
    <3>1. PICK contest \in 0 .. (f.stages[k].contests - 1),
               slot \in 0 .. (f.stages[k].participants - 1) : seat = <<contest, slot>>
      BY DEF Seats
    <3>2. PICK d \in f.destinations : To(d) = <<k, contest, slot>>
      BY <1>3 DEF Playable
    <3> QED
      BY <3>1, <3>2 DEF To, Into
  <2> QED
    BY <2>1, <2>2, CountedIffSeated
<1> QED
  BY <1>1, <1>2, <1>3

-----------------------------------------------------------------------------
\* The topology of a knockout over rounds of any widths.
Bracket(n, width) ==
  [stages |-> [k \in 1 .. n |-> Stage(width[k], 2, 1)],
   destinations |-> UNION {{Destination(k, c, 0, k + 1, c \div 2, c % 2) :
                             c \in 0 .. (width[k] - 1)} : k \in 1 .. (n - 1)}]

Halving(n, width) ==
  /\ width \in [1 .. n -> Nat \ {0}]
  /\ \A k \in 1 .. (n - 1) : width[k] = 2 * width[k + 1]

LEMMA BracketParts ==
  ASSUME NEW n \in Nat \ {0}, NEW width, Halving(n, width), NEW f, f = Bracket(n, width)
  PROVE  /\ f.stages \in Seq(StageShape) /\ Len(f.stages) = n /\ DOMAIN f.stages = 1 .. n
         /\ \A k \in 1 .. n : f.stages[k] = Stage(width[k], 2, 1)
         /\ \A d \in f.destinations :
              \E k \in 1 .. (n - 1) : \E c \in 0 .. (width[k] - 1) :
                d = Destination(k, c, 0, k + 1, c \div 2, c % 2)
         /\ \A k \in 1 .. (n - 1) : \A c \in 0 .. (width[k] - 1) :
              Destination(k, c, 0, k + 1, c \div 2, c % 2) \in f.destinations
<1>1. \A k \in 1 .. n : Stage(width[k], 2, 1) \in StageShape
  BY DEF Stage, StageShape, Halving
<1>2. f.stages = [k \in 1 .. n |-> Stage(width[k], 2, 1)]
  BY DEF Bracket
<1>3. f.stages \in Seq(StageShape) /\ Len(f.stages) = n /\ DOMAIN f.stages = 1 .. n
  BY <1>1, <1>2
<1>4. f.destinations = UNION {{Destination(k, c, 0, k + 1, c \div 2, c % 2) :
                             c \in 0 .. (width[k] - 1)} : k \in 1 .. (n - 1)}
  BY DEF Bracket
<1> QED
  BY <1>2, <1>3, <1>4

LEMMA BracketDescriptor ==
  ASSUME NEW n \in Nat \ {0}, NEW width, Halving(n, width), NEW f, f = Bracket(n, width)
  PROVE  f \in Descriptor
<1>1. \A d \in f.destinations : d \in DestinationShape /\ d.stage \in 1 .. n
  <2> SUFFICES ASSUME NEW k \in 1 .. (n - 1), NEW c \in 0 .. (width[k] - 1)
               PROVE  LET d == Destination(k, c, 0, k + 1, c \div 2, c % 2)
                      IN  d \in DestinationShape /\ d.stage \in 1 .. n
    BY BracketParts
  <2>1. c \in Nat /\ c \div 2 \in Nat /\ c % 2 \in Nat /\ k \in Nat
    BY DEF Halving
  <2> QED
    BY <2>1 DEF Destination, DestinationShape
<1>2. IsFiniteSet(f.destinations)
  <2> DEFINE Of(k) == {Destination(k, c, 0, k + 1, c \div 2, c % 2) : c \in 0 .. (width[k] - 1)}
  <2>1. ASSUME NEW k \in 1 .. (n - 1) PROVE IsFiniteSet(Of(k))
    <3> DEFINE S == 0 .. (width[k] - 1)
               g == [c \in S |-> Destination(k, c, 0, k + 1, c \div 2, c % 2)]
    <3>1. IsFiniteSet(S)
      <4>1. 0 \in Int /\ width[k] - 1 \in Int
        BY DEF Halving
      <4> QED
        BY <4>1, FS_Interval
    <3>2. g \in Surjection(S, Of(k))
      BY DEF Surjection
    <3> QED
      BY <3>1, <3>2, FS_Surjection
  <2> DEFINE All == {Of(k) : k \in 1 .. (n - 1)}
  <2>2. IsFiniteSet(All)
    <3> DEFINE g == [k \in 1 .. (n - 1) |-> Of(k)]
    <3>1. IsFiniteSet(1 .. (n - 1))
      BY FS_Interval
    <3>2. g \in Surjection(1 .. (n - 1), All)
      BY DEF Surjection
    <3> HIDE DEF g, All
    <3> QED
      BY <3>1, <3>2, FS_Surjection
  <2>3. \A T \in All : IsFiniteSet(T)
    BY <2>1
  <2>4. f.destinations = UNION All
    BY DEF Bracket
  <2> QED
    BY <2>2, <2>3, <2>4, FS_UNION
<1>3. f = [stages |-> f.stages, destinations |-> f.destinations]
  BY DEF Bracket
<1>4. f \in [stages : Seq(StageShape), destinations : SUBSET DestinationShape]
  BY <1>1, <1>3, BracketParts
<1> QED
  BY <1>1, <1>2, <1>4, BracketParts DEF Descriptor

LEMMA BracketValid ==
  ASSUME NEW n \in Nat \ {0}, NEW width, Halving(n, width), NEW f, f = Bracket(n, width)
  PROVE  ValidateFormatStages(f) /\ Playable(f)
<1>1. /\ Len(f.stages) = n /\ DOMAIN f.stages = 1 .. n
      /\ \A k \in 1 .. n : f.stages[k].contests = width[k] /\ width[k] \in Nat /\ width[k] > 0
                            /\ f.stages[k].participants = 2 /\ f.stages[k].advancing = 1
  <2>1. /\ Len(f.stages) = n /\ DOMAIN f.stages = 1 .. n
        /\ \A k \in 1 .. n : f.stages[k] = Stage(width[k], 2, 1)
    BY BracketParts
  <2>2. \A k \in 1 .. n : width[k] \in Nat /\ width[k] > 0
    BY DEF Halving
  <2>3. \A k \in 1 .. n : /\ f.stages[k].contests = width[k]
                           /\ f.stages[k].participants = 2 /\ f.stages[k].advancing = 1
    <3> SUFFICES ASSUME NEW k \in 1 .. n
                 PROVE  /\ f.stages[k].contests = width[k]
                        /\ f.stages[k].participants = 2 /\ f.stages[k].advancing = 1
      OBVIOUS
    <3>1. f.stages[k] = Stage(width[k], 2, 1)
      BY <2>1
    <3> QED
      BY <3>1 DEF Stage
  <2> QED
    BY <2>1, <2>2, <2>3
<1>2. f.stages # <<>> /\ \A k \in DOMAIN f.stages : WellShaped(f.stages[k])
  BY <1>1 DEF WellShaped
<1>3. ASSUME NEW d \in f.destinations PROVE InRange(f, d)
  <2>0. PICK k \in 1 .. (n - 1) :
          \E c \in 0 .. (width[k] - 1) : d = Destination(k, c, 0, k + 1, c \div 2, c % 2)
    BY BracketParts
  <2>1. PICK c \in 0 .. (width[k] - 1) : d = Destination(k, c, 0, k + 1, c \div 2, c % 2)
    BY <2>0
  <2>2. /\ d.stage = k /\ d.contest = c /\ d.qualifier = 0
        /\ d.target = k + 1 /\ d.targetContest = c \div 2 /\ d.slot = c % 2
    BY <2>1 DEF Destination
  <2>3. width[k] = 2 * width[k + 1] /\ k \in 1 .. n /\ k + 1 \in 1 .. n
    BY DEF Halving
  <2>4. c \div 2 < width[k + 1] /\ c % 2 < 2
    BY <1>1, <2>3
  <2> QED
    BY <1>1, <2>2, <2>3, <2>4 DEF InRange
<1>4. Playable(f)
  <2> SUFFICES ASSUME NEW k \in 2 .. Len(f.stages),
                      NEW contest \in 0 .. (f.stages[k].contests - 1),
                      NEW slot \in 0 .. (f.stages[k].participants - 1)
               PROVE  \E d \in f.destinations :
                        /\ To(d) = <<k, contest, slot>>
                        /\ d.stage < k
                        /\ d.contest \in 0 .. (f.stages[d.stage].contests - 1)
                        /\ d.qualifier \in 0 .. (f.stages[d.stage].advancing - 1)
                        /\ \A e \in f.destinations : e # d => To(e) # To(d) /\ From(e) # From(d)
    BY DEF Playable
  <2>0. k \in 2 .. n /\ contest \in 0 .. (width[k] - 1) /\ slot \in 0 .. 1
    <3>1. k \in 2 .. n /\ k \in 1 .. n
      BY <1>1
    <3>2. f.stages[k].contests = width[k] /\ f.stages[k].participants - 1 = 1
      BY <1>1, <3>1
    <3> QED
      BY <3>1, <3>2
  <2> DEFINE c == 2 * contest + slot
             d == Destination(k - 1, c, 0, k, contest, slot)
  <2>1. /\ k - 1 \in 1 .. (n - 1) /\ k - 1 \in 1 .. n /\ (k - 1) + 1 = k
        /\ width[k - 1] = 2 * width[k] /\ width[k] \in Nat
    BY <1>1, <2>0 DEF Halving
  <2>2. c \in 0 .. (width[k - 1] - 1) /\ c \div 2 = contest /\ c % 2 = slot
    <3>1. /\ contest \in Nat /\ slot \in Nat /\ slot < 2 /\ c \in Nat
          /\ width[k] \in Nat /\ contest < width[k]
      BY <2>0, <2>1
    <3>2. c < 2 * width[k]
      BY <3>1
    <3>3. c \div 2 = contest /\ c % 2 = slot
      BY <3>1
    <3> QED
      BY <2>1, <3>1, <3>2, <3>3
  <2>3. d \in f.destinations
    <3>1. Destination(k - 1, c, 0, (k - 1) + 1, c \div 2, c % 2) \in f.destinations
      <4> HIDE DEF c
      <4> QED
        BY <2>1, <2>2, BracketParts
    <3> QED
      BY <2>1, <2>2, <3>1
  <2>4. /\ d.stage = k - 1 /\ d.contest = c /\ d.qualifier = 0
        /\ To(d) = <<k, contest, slot>> /\ From(d) = <<k - 1, c, 0>>
    BY DEF Destination, To, From
  <2>5. ASSUME NEW e \in f.destinations, e # d PROVE To(e) # To(d) /\ From(e) # From(d)
    <3>0. PICK j \in 1 .. (n - 1) :
            \E b \in 0 .. (width[j] - 1) : e = Destination(j, b, 0, j + 1, b \div 2, b % 2)
      BY BracketParts
    <3>1. PICK b \in 0 .. (width[j] - 1) : e = Destination(j, b, 0, j + 1, b \div 2, b % 2)
      BY <3>0
    <3>2. To(e) = <<j + 1, b \div 2, b % 2>> /\ From(e) = <<j, b, 0>>
      BY <3>1 DEF Destination, To, From
    <3>3. width[j] \in Nat
      BY DEF Halving
    <3>4. ~(j = k - 1 /\ b = c)
      BY <2>1, <2>2, <2>5, <3>1
    <3>5. ~(j + 1 = k /\ b \div 2 = contest /\ b % 2 = slot)
      <4>1. b \in Nat /\ contest \in Nat /\ slot \in Nat
        BY <2>0, <3>3
      <4>2. b = 2 * (b \div 2) + (b % 2)
        BY <4>1
      <4>3. k \in Int /\ j \in Int
        BY <2>0
      <4> QED
        BY <3>4, <4>1, <4>2, <4>3
    <3> QED
      BY <2>4, <3>2, <3>4, <3>5
  <2>6. /\ d.stage < k /\ d.contest \in 0 .. (f.stages[d.stage].contests - 1)
        /\ d.qualifier \in 0 .. (f.stages[d.stage].advancing - 1)
    <3>1. f.stages[k - 1].contests = width[k - 1] /\ f.stages[k - 1].advancing = 1
      BY <1>1, <2>1
    <3> HIDE DEF d, c
    <3> QED
      BY <2>1, <2>2, <2>4, <3>1
  <2> HIDE DEF d, c
  <2> QED
    BY <2>3, <2>4, <2>5, <2>6
<1>5. f \in Descriptor
  BY BracketDescriptor
<1> QED
  BY <1>2, <1>3, <1>4, <1>5, ValidMeansPlayable

-----------------------------------------------------------------------------
LEMMA PowersDouble ==
  ASSUME NEW m \in 0 .. 7
  PROVE  2^m \in Nat \ {0} /\ 2^(m + 1) = 2 * 2^m /\ 2^(m + 1) \in Nat \ {0}
<1>1. 2^0 = 1 /\ 2^1 = 2 /\ 2^2 = 4 /\ 2^3 = 8 /\ 2^4 = 16
  OBVIOUS
<1>2. 2^5 = 32 /\ 2^6 = 64 /\ 2^7 = 128 /\ 2^8 = 256
  OBVIOUS
<1>3. m = 0 \/ m = 1 \/ m = 2 \/ m = 3 \/ m = 4 \/ m = 5 \/ m = 6 \/ m = 7
  OBVIOUS
<1>4. CASE m = 0
  <2>1. m + 1 = 1
    BY <1>4
  <2> QED
    BY <1>1, <1>4, <2>1
<1>5. CASE m = 1
  <2>1. m + 1 = 2
    BY <1>5
  <2> QED
    BY <1>1, <1>5, <2>1
<1>6. CASE m = 2
  <2>1. m + 1 = 3
    BY <1>6
  <2> QED
    BY <1>1, <1>6, <2>1
<1>7. CASE m = 3
  <2>1. m + 1 = 4
    BY <1>7
  <2> QED
    BY <1>1, <1>7, <2>1
<1>8. CASE m = 4
  <2>1. m + 1 = 5
    BY <1>8
  <2> QED
    BY <1>1, <1>2, <1>8, <2>1
<1>9. CASE m = 5
  <2>1. m + 1 = 6
    BY <1>9
  <2> QED
    BY <1>2, <1>9, <2>1
<1>10. CASE m = 6
  <2>1. m + 1 = 7
    BY <1>10
  <2> QED
    BY <1>2, <1>10, <2>1
<1>11. CASE m = 7
  <2>1. m + 1 = 8
    BY <1>11
  <2> QED
    BY <1>2, <1>11, <2>1
<1> QED
  BY <1>3, <1>4, <1>5, <1>6, <1>7, <1>8, <1>9, <1>10, <1>11

LEMMA KnockoutIsBracket ==
  ASSUME NEW rounds \in FixedKnockoutRounds,
         NEW width, width = [k \in 1 .. rounds |-> 2^(rounds - k)]
  PROVE  /\ rounds \in Nat \ {0} /\ Halving(rounds, width)
         /\ FixedKnockoutStages(rounds) = Bracket(rounds, width)
         /\ width[1] * 2 = FixedKnockoutCapacity(rounds) /\ width[rounds] = 1
<1>1. rounds \in 1 .. 8
  BY DEF FixedKnockoutRounds
<1>2. ASSUME NEW k \in 1 .. rounds PROVE width[k] = 2^(rounds - k) /\ width[k] \in Nat \ {0}
  <2>1. rounds - k \in 0 .. 7
    BY <1>1
  <2> QED
    BY <2>1, PowersDouble
<1>3. ASSUME NEW k \in 1 .. (rounds - 1) PROVE width[k] = 2 * width[k + 1]
  <2> DEFINE m == rounds - (k + 1)
  <2>1. m \in 0 .. 7 /\ rounds - k = m + 1 /\ k \in 1 .. rounds /\ k + 1 \in 1 .. rounds
    BY <1>1
  <2>2. 2^(m + 1) = 2 * 2^m
    BY <2>1, PowersDouble
  <2>3. width[k] = 2^(rounds - k) /\ width[k + 1] = 2^m
    BY <1>2, <2>1
  <2> HIDE DEF m
  <2> QED
    BY <2>1, <2>2, <2>3
<1>4. Halving(rounds, width)
  BY <1>2, <1>3 DEF Halving
<1>5. width[rounds] = 1
  <2>1. rounds - rounds = 0 /\ rounds \in 1 .. rounds
    BY <1>1
  <2>2. 2^0 = 1
    OBVIOUS
  <2> QED
    BY <1>2, <2>1, <2>2
<1>6. width[1] * 2 = FixedKnockoutCapacity(rounds)
  <2> DEFINE m == rounds - 1
  <2>1. m \in 0 .. 7 /\ m + 1 = rounds /\ 1 \in 1 .. rounds
    BY <1>1
  <2>2. 2^(m + 1) = 2 * 2^m /\ 2^m \in Nat
    BY <2>1, PowersDouble
  <2>3. width[1] = 2^m
    BY <1>2, <2>1
  <2> HIDE DEF m
  <2> QED
    BY <2>1, <2>2, <2>3 DEF FixedKnockoutCapacity
<1>7. FixedKnockoutStages(rounds) = Bracket(rounds, width)
  <2> DEFINE Of(w, k) == {Destination(k, c, 0, k + 1, c \div 2, c % 2) : c \in 0 .. (w - 1)}
  <2>1. \A k \in 1 .. (rounds - 1) : k \in 1 .. rounds
    BY <1>1
  <2>2. {Of(2^(rounds - k), k) : k \in 1 .. (rounds - 1)}
          = {Of(width[k], k) : k \in 1 .. (rounds - 1)}
    <3> HIDE DEF Of
    <3> QED
      BY <1>2, <2>1
  <2>3. [k \in 1 .. rounds |-> Stage(2^(rounds - k), 2, 1)]
          = [k \in 1 .. rounds |-> Stage(width[k], 2, 1)]
    BY <1>2
  <2> QED
    BY <2>2, <2>3 DEF FixedKnockoutStages, Bracket
<1> QED
  BY <1>1, <1>4, <1>5, <1>6, <1>7

-----------------------------------------------------------------------------
FormatInv == format \in Descriptor

LEMMA TemplatesAreDescriptors == Templates \subseteq Descriptor
<1>1. ASSUME NEW rounds \in FixedKnockoutRounds PROVE FixedKnockoutStages(rounds) \in Descriptor
  BY KnockoutIsBracket, BracketDescriptor
<1>2. Preferans9Stages \in Descriptor
  <2> DEFINE s == <<Stage(3, 3, 1), Stage(1, 3, 1)>>
             D == {Destination(1, c, 0, 2, 0, c) : c \in 0 .. 2}
  <2>1. s \in Seq(StageShape) /\ DOMAIN s = 1 .. 2
    BY DEF Stage, StageShape
  <2>2. D = {Destination(1, 0, 0, 2, 0, 0), Destination(1, 1, 0, 2, 0, 1), Destination(1, 2, 0, 2, 0, 2)}
    <3>1. 0 .. 2 = {0, 1, 2}
      OBVIOUS
    <3> QED
      BY <3>1
  <2>3. IsFiniteSet(D)
    <3> DEFINE g == [c \in 0 .. 2 |-> Destination(1, c, 0, 2, 0, c)]
    <3>1. IsFiniteSet(0 .. 2)
      <4>1. 0 \in Int /\ 2 \in Int
        OBVIOUS
      <4> QED
        BY <4>1, FS_Interval
    <3>2. g \in Surjection(0 .. 2, D)
      BY DEF Surjection
    <3> HIDE DEF g, D
    <3> QED
      BY <3>1, <3>2, FS_Surjection
  <2>4. D \subseteq DestinationShape /\ \A d \in D : d.stage \in 1 .. 2
    BY DEF Destination, DestinationShape
  <2>5. Preferans9Stages = [stages |-> s, destinations |-> D]
    BY DEF Preferans9Stages
  <2> HIDE DEF s, D
  <2> QED
    BY <2>1, <2>3, <2>4, <2>5 DEF Descriptor
<1> QED
  BY <1>1, <1>2 DEF Templates

\* A destination is added to a stage there is.
LEMMA AddDestinationStep ==
  ASSUME FormatInv, AddDestination PROVE FormatInv'
<1>1. PICK k \in DOMAIN format.stages, contest \in Index, qualifier \in Index,
           target \in Index, targetContest \in Index, slot \in Index :
        format' = [format EXCEPT !.destinations =
                     @ \cup {Destination(k, contest, qualifier, target + 1, targetContest, slot)}]
  BY DEF AddDestination
<1> DEFINE d == Destination(k, contest, qualifier, target + 1, targetContest, slot)
<1>2. d \in DestinationShape /\ d.stage = k
  <2>1. k \in Nat
    BY DescriptorParts DEF FormatInv
  <2> QED
    BY <2>1, FormatAssumption DEF Destination, DestinationShape
<1>3. IsFiniteSet(format.destinations \cup {d})
  BY FS_AddElement DEF FormatInv, Descriptor
<1> HIDE DEF d
<1>4. format' = [stages |-> format.stages, destinations |-> format.destinations \cup {d}]
  BY <1>1 DEF FormatInv, Descriptor, d
<1> QED
  BY <1>2, <1>3, <1>4 DEF FormatInv, Descriptor

\* What is built are descriptors.
THEOREM FormatInvariance == FormatSpec => []FormatInv
<1>1. FormatInit => FormatInv
  <2>1. ASSUME NEW s \in StageLists PROVE [stages |-> s, destinations |-> {}] \in Descriptor
    BY FormatAssumption, FS_EmptySet DEF Descriptor
  <2> QED
    BY <2>1, TemplatesAreDescriptors DEF FormatInit, FormatInv
<1>2. FormatInv /\ UNCHANGED format => FormatInv'
  BY DEF FormatInv
<1> QED
  BY <1>1, <1>2, AddDestinationStep, PTL DEF FormatSpec

\* The validation only counts, and yet it accepts just the formats that can be
\* played to their end (ValidIffPlayable).
THEOREM FormatsJudgedExactly == FormatSpec => []ValidIffPlayable
<1>1. FormatInv => ValidIffPlayable
  BY ValidMeansPlayable DEF FormatInv, ValidIffPlayable
<1> QED
  BY <1>1, FormatInvariance, PTL

\* The knockouts of all approved rounds can be played from the capacity to the
\* final (KnockoutsPlayable).
THEOREM KnockoutsLeadToOneFinal == FormatSpec => []KnockoutsPlayable
<1>1. ASSUME NEW rounds \in FixedKnockoutRounds, format = FixedKnockoutStages(rounds)
      PROVE  /\ ValidateFormatStages(format) /\ Playable(format)
             /\ format.stages[1].contests * format.stages[1].participants = FixedKnockoutCapacity(rounds)
             /\ format.stages[rounds].contests = 1
  <2> DEFINE width == [k \in 1 .. rounds |-> 2^(rounds - k)]
  <2> HIDE DEF width
  <2>1. /\ rounds \in Nat \ {0} /\ Halving(rounds, width)
        /\ format = Bracket(rounds, width)
        /\ width[1] * 2 = FixedKnockoutCapacity(rounds) /\ width[rounds] = 1
    BY <1>1, KnockoutIsBracket DEF width
  <2>2. 1 \in 1 .. rounds /\ rounds \in 1 .. rounds
    BY <2>1
  <2>3. format.stages[1] = Stage(width[1], 2, 1) /\ format.stages[rounds] = Stage(width[rounds], 2, 1)
    BY <2>1, <2>2, BracketParts
  <2>4. /\ format.stages[1].contests = width[1] /\ format.stages[1].participants = 2
        /\ format.stages[rounds].contests = width[rounds]
    BY <2>3 DEF Stage
  <2>5. ValidateFormatStages(format) /\ Playable(format)
    BY <2>1, BracketValid
  <2> QED
    BY <2>1, <2>4, <2>5
<1>2. KnockoutsPlayable
  BY <1>1 DEF KnockoutsPlayable
<1> QED
  BY <1>2, PTL

-----------------------------------------------------------------------------
\* The old key signs nothing after this.
LastSignature == IF signer = "old" THEN now ELSE retired

\* A key is trusted everywhere before it signs.
TrustedBeforeUse ==
  signer = "new" => (retired <= now /\ \A v \in Verifier : Resolves(direction[v], "new"))
NewSignsNewOnly == signer = "old" => \A tok \in signed : tok.kid = "old"

\* The old key is dropped only once its last token has expired on every clock.
OldKeptLongEnough ==
  \A v \in Verifier :
    Resolves(direction[v], "old") \/ (signer = "new" /\ now >= retired + Overlap)
OldExpires ==
  \A tok \in signed : tok.kid = "old" => tok.exp <= LastSignature + Skew + TokenLifetime

\* The inductive invariant.
RotationInv == RotationTypeOK /\ TrustedBeforeUse /\ NewSignsNewOnly /\ OldKeptLongEnough /\ OldExpires

-----------------------------------------------------------------------------
LEMMA RotationConstants ==
  /\ Skew \in Nat /\ MaxTime \in Nat /\ MaxSigned \in Nat
  /\ Second \in Nat /\ Second > 0 /\ TokenLifetime \in Nat /\ Leeway \in Nat
  /\ Overlap \in Nat /\ Overlap = TokenLifetime + Leeway + 2 * Skew
<1> QED
  BY RotationAssumption, WindowAssumption DEF RotationAssumption, WindowAssumption, Overlap

\* The encoding never moves a date into the future.
LEMMA NumericDateEarlier ==
  ASSUME NEW t \in Int
  PROVE  NumericDate(t) \in Int /\ NumericDate(t) <= t
<1>1. Second \in Int /\ Second > 0
  BY RotationConstants
<1> QED
  BY <1>1 DEF NumericDate

LEMMA RotationStart == RotationInit => RotationInv
<1> QED
  BY RotationConstants DEF RotationInit, RotationInv, RotationTypeOK, TrustedBeforeUse, NewSignsNewOnly,
     OldKeptLongEnough, OldExpires, LastSignature, Resolves, trustedKeys, SigningKey, Signed, Deployed

\* A token signed at any reading of the issuer's clock.
LEMMA SignKeeps == RotationInv /\ Sign => RotationInv'
<1> SUFFICES ASSUME RotationInv, Sign PROVE RotationInv'
  OBVIOUS
<1>1. PICK t \in ClockReading :
        signed' = signed \cup {[kid |-> signer, nbf |-> NumericDate(t),
                                exp |-> NumericDate(t + TokenLifetime)]}
  BY DEF Sign
<1> DEFINE new == [kid |-> signer, nbf |-> NumericDate(t), exp |-> NumericDate(t + TokenLifetime)]
<1>2. t \in Int /\ t <= now + Skew /\ now \in Nat /\ t + TokenLifetime \in Int
  BY RotationConstants DEF ClockReading, RotationInv, RotationTypeOK
<1>3. new \in Signed /\ new.kid = signer /\ new.exp <= now + Skew + TokenLifetime
  <2>1. NumericDate(t) \in Int
    BY <1>2, NumericDateEarlier
  <2>2. NumericDate(t + TokenLifetime) \in Int /\ NumericDate(t + TokenLifetime) <= t + TokenLifetime
    BY <1>2, NumericDateEarlier
  <2>3. new.exp <= now + Skew + TokenLifetime
    BY <1>2, <2>2, RotationConstants
  <2> QED
    BY <2>1, <2>2, <2>3 DEF RotationInv, RotationTypeOK, Signed
<1>4. signed' = signed \cup {new} /\ UNCHANGED <<now, signer, direction, retired>>
  BY <1>1 DEF Sign
<1> HIDE DEF new
<1>5. RotationTypeOK'
  BY <1>3, <1>4 DEF RotationInv, RotationTypeOK
<1>6. NewSignsNewOnly'
  BY <1>3, <1>4 DEF RotationInv, NewSignsNewOnly
<1>7. OldExpires'
  BY <1>3, <1>4 DEF RotationInv, OldExpires, LastSignature
<1> QED
  BY <1>4, <1>5, <1>6, <1>7 DEF RotationInv, TrustedBeforeUse, OldKeptLongEnough

LEMMA SignWithNewKeeps == RotationInv /\ SignWithNew => RotationInv'
<1> SUFFICES ASSUME RotationInv, SignWithNew PROVE RotationInv'
  OBVIOUS
<1> QED
  BY DEF RotationInv, SignWithNew, RotationTypeOK, TrustedBeforeUse, NewSignsNewOnly, OldKeptLongEnough,
     OldExpires, LastSignature, SigningKey

\* A verifier is deployed with another Direction; dropping the old key waits.
LEMMA DeployKeeps ==
  ASSUME NEW v \in Verifier, RotationInv, TrustNew(v) \/ Promote(v) \/ DropOld(v)
  PROVE  RotationInv'
<1>1. UNCHANGED <<now, signer, signed, retired>>
  BY DEF TrustNew, Promote, DropOld
<1>2. direction' \in [Verifier -> Deployed] /\ \A w \in Verifier : w # v => direction'[w] = direction[w]
  BY DEF TrustNew, Promote, DropOld, RotationInv, RotationTypeOK, Deployed
<1>3. Resolves(direction[v], "new") => Resolves(direction'[v], "new")
  BY DEF TrustNew, Promote, DropOld, RotationInv, RotationTypeOK, Deployed, Resolves, trustedKeys
<1>4. Resolves(direction[v], "old") =>
        Resolves(direction'[v], "old") \/ (signer = "new" /\ now >= retired + Overlap)
  BY DEF TrustNew, Promote, DropOld, RotationInv, RotationTypeOK, Deployed, Resolves, trustedKeys
<1>5. TrustedBeforeUse'
  BY <1>1, <1>2, <1>3 DEF RotationInv, TrustedBeforeUse, Resolves, trustedKeys
<1>6. OldKeptLongEnough'
  <2> SUFFICES ASSUME NEW w \in Verifier
               PROVE  Resolves(direction'[w], "old") \/ (signer = "new" /\ now >= retired + Overlap)
    BY <1>1 DEF OldKeptLongEnough, Resolves, Overlap
  <2> QED
    BY <1>2, <1>4 DEF RotationInv, OldKeptLongEnough
<1> QED
  BY <1>1, <1>2, <1>5, <1>6 DEF RotationInv, RotationTypeOK, NewSignsNewOnly, OldExpires, LastSignature

LEMMA PassKeeps == RotationInv /\ Pass => RotationInv'
<1> SUFFICES ASSUME RotationInv, Pass PROVE RotationInv'
  OBVIOUS
<1>1. now \in Nat /\ retired \in Nat /\ now' = now + 1 /\ UNCHANGED <<signer, direction, signed, retired>>
  BY DEF Pass, RotationInv, RotationTypeOK
<1>2. OldExpires'
  BY <1>1, RotationConstants DEF RotationInv, RotationTypeOK, Signed, OldExpires, LastSignature
<1>3. OldKeptLongEnough'
  BY <1>1, RotationConstants DEF RotationInv, OldKeptLongEnough
<1> QED
  BY <1>1, <1>2, <1>3 DEF RotationInv, RotationTypeOK, TrustedBeforeUse, NewSignsNewOnly

\* The invariant holds all along a rotation.
THEOREM RotationInvariant == RotationSpec => []RotationInv
<1>1. RotationInv /\ [RotationNext]_rotationVars => RotationInv'
  <2> SUFFICES ASSUME RotationInv, [RotationNext]_rotationVars PROVE RotationInv'
    OBVIOUS
  <2>1. CASE UNCHANGED rotationVars
    BY <2>1 DEF rotationVars, RotationInv, RotationTypeOK, TrustedBeforeUse, NewSignsNewOnly,
       OldKeptLongEnough, OldExpires, LastSignature
  <2> QED
    BY <2>1, SignKeeps, SignWithNewKeeps, DeployKeeps, PassKeeps DEF RotationNext
<1> QED
  BY <1>1, RotationStart, PTL DEF RotationSpec

\* Whoever trusts a key before it signs, and keeps it for a token's lifetime, the
\* leeway and twice the skew after it has stopped, strands no token
\* (direction.go:60-65).
THEOREM NoTokenStranded == RotationSpec => []NoneStranded
<1>1. RotationInv => NoneStranded
  <2> SUFFICES ASSUME RotationInv, NEW tok \in signed, NEW v \in Verifier, NEW t \in ClockReading,
                      ~Expired(tok, t), ~Resolves(direction[v], tok.kid)
               PROVE  FALSE
    BY DEF NoneStranded
  <2>1. now \in Nat /\ retired \in Nat /\ tok.exp \in Int /\ tok.kid \in {"old", "new"}
        /\ signer \in {"old", "new"}
    BY DEF RotationInv, RotationTypeOK, Signed, SigningKey
  <2>2. t \in Int /\ t >= now - Skew /\ t < tok.exp + Leeway
    BY <2>1, RotationConstants DEF ClockReading, Expired
  <2>3. tok.kid = "old"
    BY <2>1 DEF RotationInv, NewSignsNewOnly, TrustedBeforeUse
  <2>4. signer = "new" /\ now >= retired + Overlap
    BY <2>3 DEF RotationInv, OldKeptLongEnough
  <2>5. tok.exp <= retired + Skew + TokenLifetime
    BY <2>3, <2>4 DEF RotationInv, OldExpires, LastSignature
  <2> QED
    BY <2>1, <2>2, <2>4, <2>5, RotationConstants
<1> QED
  BY <1>1, RotationInvariant, PTL

-----------------------------------------------------------------------------
\* The invariant: every token states what was asked of the direction it names.

\* Every token states what was asked of the direction it names.
TokensAsAsked ==
  \A token \in tokens :
    \E d \in Direction :
      /\ token.issuer = d.issuer /\ token.subject = d.subject /\ token.audience = d.audience
      /\ [direction |-> d, request |-> token.request] \in asked

\* The token the issuer of a direction makes of a request.
TokenFor(d, request) ==
  [issuer |-> d.issuer, subject |-> d.subject, audience |-> d.audience,
   key |-> d.key, request |-> request]

\* A well-formed request for a purpose its direction issues got its token.
AsksGetTokens ==
  \A a \in asked :
    a.request.purpose \in a.direction.purposes /\ WellFormed(a.request)
      => TokenFor(a.direction, a.request) \in tokens

\* The inductive invariant.
BindingInv == TypeOK /\ TokensAsAsked /\ AsksGetTokens /\ ExecutedAsAsked

-----------------------------------------------------------------------------
\* The validators compare every field of an operation that ValidateOperationGrant
\* wants in a grant of its purpose, except those of the route.
LEMMA ComparedRequired ==
  ASSUME NEW kind \in Kind
  PROVE  Required(PurposeOf(kind)) = Compared(kind) \cup Route
<1>1. CASE kind \in {"plan", "retain", "publish", "disclose"}
  BY <1>1 DEF Required, Compared, PurposeOf
<1>2. CASE kind \in {"launch", "started", "completed", "failed", "cancelled"}
  BY <1>2 DEF Required, Compared, PurposeOf
<1> QED BY <1>1, <1>2 DEF Kind

\* What is compared are fields of the operation and none of the route's.
LEMMA FieldsOfCompared ==
  ASSUME NEW kind \in Kind
  PROVE  Compared(kind) \subseteq Field /\ Compared(kind) \cap Route = {}
BY DEF Kind, Compared, Field, Identity, Route, Execution, Instance, Participant,
   Repository, Manifest, Closure, Candidate, Public, Artifact, Disclosure

\* A well-formed request that agrees with an operation and a route in all that
\* is compared is the request that names exactly these.
LEMMA ComparisonDetermines ==
  ASSUME NEW o \in Operation, NEW t \in Transport, NEW request \in Request,
         WellFormed(request),
         request.purpose = PurposeOf(o.kind),
         \A f \in Route : request.fields[f] = t[f],
         \A f \in Compared(o.kind) : request.fields[f] = o.fields[f]
  PROVE  request = NewGrantRequest(o, t)
<1>1. o.kind \in Kind /\ o.fields \in [Field -> Content]
  BY BindingAssumption
<1>2. Required(request.purpose) = Compared(o.kind) \cup Route
  BY <1>1, ComparedRequired
<1>3. ASSUME NEW f \in Field
      PROVE  request.fields[f] = IF f \in Route THEN t[f] ELSE o.fields[f]
  <2>1. CASE f \in Route
    BY <2>1
  <2>2. CASE f \in Compared(o.kind)
    BY <2>2, <1>1, FieldsOfCompared
  <2>3. CASE f \notin Route /\ f \notin Compared(o.kind)
    <3>1. request.fields[f] = none
      BY <2>3, <1>2 DEF WellFormed
    <3>2. o.fields[f] \in Content /\ o.fields[f] \notin Value
      BY <2>3, <1>1, BindingAssumption
    <3> QED BY <3>1, <3>2, <2>3 DEF Content
  <2> QED BY <2>1, <2>2, <2>3
<1>4. request.fields = [f \in Field |-> IF f \in Route THEN t[f] ELSE o.fields[f]]
  BY <1>3 DEF Request
<1> QED BY <1>4 DEF Request, NewGrantRequest

-----------------------------------------------------------------------------
\* Nothing is asked, signed or executed at first.
LEMMA BindingInitially == Init => BindingInv
BY DEF Init, BindingInv, TypeOK, TokensAsAsked, AsksGetTokens, ExecutedAsAsked

\* A token is signed for a request just as it was asked for.
LEMMA IssueKeeps ==
  ASSUME BindingInv, NEW d \in Direction, NEW request \in Ask, IssueOperationGrant(d, request)
  PROVE  BindingInv'
<1> DEFINE issued == {[issuer |-> d.issuer, subject |-> d.subject, audience |-> d.audience,
                       key |-> d.key, request |-> q] :
                         q \in {r \in {request} : r.purpose \in d.purposes /\ WellFormed(r)}}
<1>1. /\ asked' = asked \cup {[direction |-> d, request |-> request]}
      /\ tokens' = tokens \cup issued
      /\ executed' = executed
  BY DEF IssueOperationGrant
<1>2. /\ request \in Request
      /\ d \in [issuer : Value, subject : Value, audience : Value, key : Key,
                trusted : SUBSET Key, purposes : SUBSET Purpose]
  BY BindingAssumption
<1>3. \A token \in issued :
        token = [issuer |-> d.issuer, subject |-> d.subject, audience |-> d.audience,
                 key |-> d.key, request |-> request]
  OBVIOUS
<1>4. TypeOK'
  <2>1. issued \subseteq Token
    BY <1>2, <1>3 DEF Token
  <2> QED BY <1>1, <1>2, <2>1 DEF BindingInv, TypeOK
<1>5. TokensAsAsked'
  <2> SUFFICES ASSUME NEW token \in tokens'
               PROVE  \E e \in Direction :
                        /\ token.issuer = e.issuer /\ token.subject = e.subject
                        /\ token.audience = e.audience
                        /\ [direction |-> e, request |-> token.request] \in asked'
    BY DEF TokensAsAsked
  <2>1. CASE token \in tokens
    BY <2>1, <1>1 DEF BindingInv, TokensAsAsked
  <2>2. CASE token \in issued
    <3>1. /\ token.issuer = d.issuer /\ token.subject = d.subject
          /\ token.audience = d.audience /\ token.request = request
      BY <2>2, <1>3
    <3> QED BY <3>1, <1>1
  <2> QED BY <2>1, <2>2, <1>1
<1>6. AsksGetTokens'
  <2> SUFFICES ASSUME NEW a \in asked', a.request.purpose \in a.direction.purposes,
                      WellFormed(a.request)
               PROVE  TokenFor(a.direction, a.request) \in tokens'
    BY DEF AsksGetTokens, TokenFor, WellFormed
  <2>1. CASE a \in asked
    BY <2>1, <1>1 DEF BindingInv, AsksGetTokens
  <2>2. CASE a = [direction |-> d, request |-> request]
    <3>1. TokenFor(d, request) \in issued
      BY <2>2 DEF TokenFor
    <3> QED BY <2>2, <3>1, <1>1
  <2> QED BY <2>1, <2>2, <1>1
<1>7. ExecutedAsAsked'
  BY <1>1 DEF BindingInv, ExecutedAsAsked
<1> QED BY <1>4, <1>5, <1>6, <1>7 DEF BindingInv

\* A service accepts a token of its own direction, and executes what it names.
LEMMA ServeKeeps ==
  ASSUME BindingInv, NEW d \in Direction, NEW token \in tokens, NEW o \in Operation,
         NEW t \in Transport, Serve(d, token, o, t)
  PROVE  BindingInv'
<1>1. /\ asked' = asked /\ tokens' = tokens
      /\ executed' = executed \cup {[direction |-> d, operation |-> o, transport |-> t]}
  BY DEF Serve
<1>2. TypeOK'
  BY <1>1 DEF BindingInv, TypeOK
<1>3. TokensAsAsked'
  BY <1>1 DEF BindingInv, TokensAsAsked
<1>4. [direction |-> d, request |-> token.request] \in asked
  <2>1. PICK e \in Direction :
          /\ token.issuer = e.issuer /\ token.subject = e.subject /\ token.audience = e.audience
          /\ [direction |-> e, request |-> token.request] \in asked
    BY DEF BindingInv, TokensAsAsked
  <2>2. token.issuer = d.issuer /\ token.subject = d.subject /\ token.audience = d.audience
    BY DEF Serve, Authorizes, RouteMatches
  <2>3. e = d
    BY <2>1, <2>2, DirectionsApart
  <2> QED BY <2>1, <2>3
<1>5. token.request = NewGrantRequest(o, t)
  <2>1. token.request \in Request
    BY DEF BindingInv, TypeOK, Token
  <2>2. /\ WellFormed(token.request)
        /\ token.request.purpose = PurposeOf(o.kind)
        /\ \A f \in Route : token.request.fields[f] = t[f]
        /\ \A f \in Compared(o.kind) : token.request.fields[f] = o.fields[f]
    BY DEF Serve, Authorizes, RouteMatches
  <2> QED BY <2>1, <2>2, ComparisonDetermines
<1>6. ExecutedAsAsked'
  <2> SUFFICES ASSUME NEW x \in executed'
               PROVE  [direction |-> x.direction,
                       request |-> NewGrantRequest(x.operation, x.transport)] \in asked'
    BY DEF ExecutedAsAsked, NewGrantRequest
  <2>1. CASE x \in executed
    BY <2>1, <1>1 DEF BindingInv, ExecutedAsAsked
  <2>2. CASE x = [direction |-> d, operation |-> o, transport |-> t]
    BY <2>2, <1>1, <1>4, <1>5
  <2> QED BY <2>1, <2>2, <1>1
<1>7. AsksGetTokens'
  BY <1>1 DEF BindingInv, AsksGetTokens
<1> QED BY <1>2, <1>3, <1>6, <1>7 DEF BindingInv

\* The invariant holds throughout.
THEOREM BindingInvariance == Spec => []BindingInv
<1>1. BindingInv /\ [Next]_vars => BindingInv'
  <2> SUFFICES ASSUME BindingInv, [Next]_vars PROVE BindingInv'
    OBVIOUS
  <2>1. CASE Next
    <3>1. ASSUME NEW d \in Direction, NEW request \in Ask, IssueOperationGrant(d, request)
          PROVE  BindingInv'
      BY <3>1, IssueKeeps
    <3>2. ASSUME NEW d \in Direction, NEW token \in tokens, NEW o \in Operation,
                 NEW t \in Transport, Serve(d, token, o, t)
          PROVE  BindingInv'
      BY <3>2, ServeKeeps
    <3> QED BY <2>1, <3>1, <3>2 DEF Next
  <2>2. CASE UNCHANGED vars
    BY <2>2 DEF vars, BindingInv, TypeOK, TokensAsAsked, AsksGetTokens, ExecutedAsAsked
  <2> QED BY <2>1, <2>2
<1> QED BY BindingInitially, <1>1, PTL DEF Spec

\* Asked requests, tokens and executed operations are well typed.
THEOREM BindingTypeCorrect == Spec => []TypeOK
<1>1. BindingInv => TypeOK
  BY DEF BindingInv
<1> QED BY <1>1, BindingInvariance, PTL

\* What a service executes was asked of its direction's issuer, field by field.
THEOREM ServicesExecuteWhatWasAsked == Spec => []ExecutedAsAsked
<1>1. BindingInv => ExecutedAsAsked
  BY DEF BindingInv
<1> QED BY <1>1, BindingInvariance, PTL

\* A request for exactly an operation is well formed, so that neither the issuer
\* nor the verifier turns down the token made of it.
LEMMA ExactRequestsAreWellFormed ==
  ASSUME NEW o \in Operation, NEW t \in Transport
  PROVE  WellFormed(NewGrantRequest(o, t))
<1>1. /\ o.kind \in Kind /\ t \in [Route -> Value] /\ none \notin Value
      /\ \A f \in Field : o.fields[f] \in Value <=> f \in Compared(o.kind)
      /\ o.fields \in [Field -> Content]
  BY BindingAssumption
<1>2. Required(PurposeOf(o.kind)) = Compared(o.kind) \cup Route
  BY <1>1, ComparedRequired
<1>3. ASSUME NEW f \in Field
      PROVE  (IF f \in Route THEN t[f] ELSE o.fields[f]) # none
               <=> f \in Required(PurposeOf(o.kind))
  <2>1. CASE f \in Route
    BY <2>1, <1>1, <1>2
  <2>2. CASE f \notin Route
    BY <2>2, <1>1, <1>2 DEF Content
  <2> QED BY <2>1, <2>2
<1> QED BY <1>3 DEF WellFormed, NewGrantRequest

\* Who asks for exactly an operation the direction serves gets a token for it,
\* and the service of that direction accepts the token with the operation.
THEOREM ExactAsksAreServed == Spec => []HonestAsksServed
<1>1. BindingInv => HonestAsksServed
  <2> SUFFICES ASSUME BindingInv, NEW d \in Direction, NEW o \in Operation, NEW t \in Transport,
                      [direction |-> d, request |-> NewGrantRequest(o, t)] \in asked,
                      PurposeOf(o.kind) \in d.purposes
               PROVE  \E token \in tokens :
                        VerifyOperationGrant(d, token) /\ Authorizes(d, token, o, t)
    BY DEF HonestAsksServed
  <2> DEFINE q == NewGrantRequest(o, t)
             token == TokenFor(d, q)
  <2>1. /\ q.purpose = PurposeOf(o.kind) /\ WellFormed(q)
        /\ \A f \in Field : q.fields[f] = IF f \in Route THEN t[f] ELSE o.fields[f]
    BY ExactRequestsAreWellFormed DEF NewGrantRequest
  <2>2. token \in tokens
    <3> DEFINE a == [direction |-> d, request |-> q]
    <3>1. a \in asked /\ a.direction = d /\ a.request = q
      OBVIOUS
    <3> HIDE DEF q, a
    <3> QED BY <3>1, <2>1 DEF BindingInv, AsksGetTokens
  <2>3. /\ token.issuer = d.issuer /\ token.subject = d.subject /\ token.audience = d.audience
        /\ token.key = d.key /\ token.request = q
    BY DEF TokenFor
  <2>4. VerifyOperationGrant(d, token)
    BY <2>1, <2>3 DEF VerifyOperationGrant
  <2>5. Authorizes(d, token, o, t)
    <3>1. \A f \in Route : q.fields[f] = t[f]
      BY <2>1 DEF Field
    <3>2. \A f \in Compared(o.kind) : q.fields[f] = o.fields[f]
      BY <2>1, BindingAssumption, FieldsOfCompared
    <3> HIDE DEF q
    <3> QED BY <3>1, <3>2, <2>1, <2>3 DEF Authorizes, RouteMatches
  <2> QED BY <2>2, <2>4, <2>5
<1> QED BY <1>1, BindingInvariance, PTL
=============================================================================
