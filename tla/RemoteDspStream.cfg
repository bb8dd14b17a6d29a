SPECIFICATION Spec
CONSTANTS
  short = short
  long = long
  Setting <- MCSetting
  Target <- MCTarget
  MaxInput = 2
  MaxOutput = 2
  None = None
  MaxCalls = 6
INVARIANTS
  InOrder
  OfThisConfiguration
  SessionExclusive
PROPERTIES
  PlaysForward
  CallReturns
CHECK_DEADLOCK FALSE
