SPECIFICATION Spec
CONSTANTS
  MaxFrames = 2
  MaxStall = 1
  Resend = TRUE
  MaxRequests = 3
  MaxEdits = 1
  MaxPrepares = 1
INVARIANT WetIsOneBlock
CHECK_DEADLOCK FALSE
