SPECIFICATION Spec
CONSTANTS
  ka = ka
  launch = launch
  TokenID = {j1, j2}
  Key = {ka}
  Purpose = {launch}
  Signs <- MCSigns
  TrustedKeys = {ka}
  Purposes = {launch}
  Caller = {c1, c2}
  Second = 2
  TokenLifetime = 2
  Leeway = 1
  Skew = 0
  MaxFlight = 1
  MaxTime = 5
SYMMETRY Symmetry
INVARIANTS TypeOK SingleUseBeforeExpiry
PROPERTY SweepKeepsUp
