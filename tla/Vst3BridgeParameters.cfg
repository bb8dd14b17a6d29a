SPECIFICATION Spec
CONSTANTS
  MaxFrames = 1
  MaxStall = 1
  Resend = FALSE
  MaxRequests = 3
  MaxEdits = 1
  MaxPrepares = 1
INVARIANT WetHasTheParameters
CHECK_DEADLOCK FALSE
