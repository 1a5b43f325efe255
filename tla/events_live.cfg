SPECIFICATION FairSpec
CONSTANTS
  this = this
  another = another
  slots = slots
  Event <- PlainAndStray
  Execution <- Run
  Mixed <- None
  MaxCalls = 2
INVARIANT OnlyAuthorizedFacts
PROPERTIES EventuallyConcluded EventuallyAcknowledged
