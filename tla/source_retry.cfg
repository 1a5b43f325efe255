SPECIFICATION Spec
CONSTANTS
  v = v
  w = w
  good = good
  bad = bad
  Request <- SourceRequests
  Granted <- GrantedRequests
  PlanID <- OwnID
  ArtifactDigest <- ContentDigest
INVARIANT EveryRetryReplays
