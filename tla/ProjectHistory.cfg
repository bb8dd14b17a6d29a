SPECIFICATION Spec
CONSTANTS
  mixA = mixA
  mixB = mixB
  mixC = mixC
  mixCUnrouted = mixCUnrouted
  Document <- MCDocument
  Normal <- MCNormal
  StepName = {"Pan", "Volume"}
  Unnamed = ""
  DefaultName = "Edit"
  NoSnapshot = NoSnapshot
  MaxDepth = 2
INVARIANTS
  DepthBounded
PROPERTIES
  ImplementsTimeline
