SPECIFICATION Spec
CONSTANTS
  ours = ours
  theirs = theirs
  pair = pair
  three = three
  none = none
  Provider = ours
  Request <- Requests
INVARIANTS TypeOK LaunchedOnce FactsFromLaunch ConflictsFinal
PROPERTY KeepsVerdicts
