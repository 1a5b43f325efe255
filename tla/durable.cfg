SPECIFICATION FairSpec
CONSTANTS
  ka = ka
  kc = kc
  launch = launch
  started = started
  TokenID = {j1}
  Key = {ka, kc}
  Purpose = {launch, started}
  Signs <- MCSigns
  TrustedKeys = {ka}
  Purposes = {launch}
  Caller = {c1, c2}
  Second = 2
  TokenLifetime = 4
  Leeway = 2
  Skew = 1
  MaxFlight = 1
  MaxTime = 12
  Attempts = 3
  Grace = 5
INVARIANTS TypeOK SingleUse RecordOutlivesToken RefusalBurnsNothing NeverTooEarly
PROPERTIES EveryCallReturns KeepsPromise
