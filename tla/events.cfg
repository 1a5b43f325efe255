SPECIFICATION Spec
CONSTANTS
  this = this
  another = another
  slots = slots
  Event <- RacingEvents
  Execution <- Run
  Mixed <- WrongTokens
  MaxCalls = 1
INVARIANTS TypeOK AnswersTrue LedgerExplainsState OnlyAuthorizedFacts
PROPERTIES ExactRetryReplays KeepsVerdict
