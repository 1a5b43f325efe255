SPECIFICATION Spec
CONSTANTS
  ka = ka
  launch = launch
  TokenID = {j1}
  Key = {ka}
  Purpose = {launch}
  Signs <- MCSigns
  TrustedKeys = {ka}
  Purposes = {launch}
  Caller = {c1, c2}
  Second = 2
  TokenLifetime = 2
  Leeway = 1
  Skew = 0
  MaxFlight = 0
  MaxTime = 4
INVARIANT SweptNeverReappears
