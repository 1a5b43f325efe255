SPECIFICATION Spec
CONSTANTS
  v = v
  w = w
  good = good
  bad = bad
  Request <- SourceRequests
  Granted <- GrantedRequests
  PlanID <- FixtureID
  ArtifactDigest <- ContentDigest
INVARIANTS TypeOK PublishedWasDisclosed LedgerConsistent ChainOfCustody PlansAndPublicationsReplay
