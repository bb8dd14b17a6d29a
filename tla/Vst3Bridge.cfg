SPECIFICATION Spec
CONSTANTS
  MaxFrames = 2
  MaxStall = 1
  Resend = TRUE
  MaxRequests = 4
  MaxEdits = 1
  MaxPrepares = 1
INVARIANTS
  ResponseIsWhole
  OneBlockLate
  FrozenBounded
  WetHasTheParameters
PROPERTIES
  LastRequestAnswered
  TeardownEnds
CHECK_DEADLOCK FALSE
