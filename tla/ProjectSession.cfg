SPECIFICATION Spec
CONSTANTS
  untitled = untitled
  mixA = mixA
  mixB = mixB
  Document <- MCDocument
  Normal <- MCNormal
  StepName = {"Volume"}
  Unnamed = ""
  DefaultName = "Edit"
  NoSnapshot = NoSnapshot
  MaxDepth = 1
  song = song
  copy = copy
  Path <- MCPath
  NoPath = NoPath
  DefaultDocument = untitled
  NoFile = NoFile
  Torn = Torn
  IOFaults = TRUE
SYMMETRY Symmetry
CONSTRAINT OneBackup
INVARIANTS
  DirtyIsAutosaved
  LastSaveSurvives
  OwedWorkIsOffered
  CleanMatchesDisk
