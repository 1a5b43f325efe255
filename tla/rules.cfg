SPECIFICATION Spec
CONSTANTS
  Entry = {"a", "b", "c", "d"}
  Ordinals = 4
  MaxPlacements = 5
  Word = 4
  MaxFiles = 3
  MaxDestinations = 4
  StageLists <- Descriptors
  Index = {0, 1, 2}
  Verifier = {v1, v2}
  Second = 2
  TokenLifetime = 2
  Leeway = 1
  Skew = 1
  MaxTime = 8
  MaxSigned = 2
  Booking = {b1, b2}
  RequestID = {r1, r2}
  MaxRevision = 2
  MaxProposals = 2
  MaxDecisions = 2
INVARIANTS RankingExact TransferExact ValidIffPlayable KnockoutsPlayable NoneStranded RefundFollowsLock
CHECK_DEADLOCK FALSE
