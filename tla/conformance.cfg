SPECIFICATION Spec
CONSTANTS
  Turn <- Turns
  Order <- Orders
  Suite <- Suites
  Specimen <- Specimens
INVARIANTS AlarmsOnlyForFlaws CatchesEveryFlaw
CHECK_DEADLOCK FALSE
