SPECIFICATION Spec
CONSTANTS
  ka = ka
  kc = kc
  launch = launch
  started = started
  TokenID = {j1, j2}
  Key = {ka, kc}
  Purpose = {launch, started}
  Signs <- MCSigns
  TrustedKeys = {ka}
  Purposes = {launch}
  Caller = {c1, c2}
  Second = 2
  TokenLifetime = 2
  Leeway = 1
  Skew = 0
  MaxFlight = 1
  MaxTime = 6
  Attempts = 1
  Grace = 2
INVARIANT ConflictMeansChangedClaims
