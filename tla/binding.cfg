SPECIFICATION Spec
CONSTANTS
  absent = absent
  chessKey = chessKey
  competiosKey = competiosKey
  none = absent
  Key = {chessKey, competiosKey}
  Direction <- Directions
  Operation <- Operations
  Transport <- Transports
  Value <- Contents
  Ask <- Asks
  MaxAsks = 1
INVARIANTS TypeOK ExecutedAsAsked HonestAsksServed
CHECK_DEADLOCK FALSE
