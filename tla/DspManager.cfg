SPECIFICATION Spec
CONSTANTS
  studio = studio
  studioNumber = studioNumber
  rackNumber = rackNumber
  rack = rack
  core = core
  reverb = reverb
  first = first
  second = second
  Addresses <- MCAddresses
  Numeric <- MCNumeric
  Host <- MCHost
  OwnModule <- MCOwnModule
  DefaultModule = core
  DefaultNode <- MCDefaultNode
  Typed <- MCTyped
  Instance <- MCInstance
  ChannelCount = {1}
  DefaultChannels = 2
  StatusChannels = {1}
  Wrap = 3
  None = None
SYMMETRY Symmetry
CONSTRAINT TwoListed
INVARIANTS
  ListedOnce
PROPERTIES
  ReadyFits
  LatchHolds
