SPECIFICATION Spec
CONSTANTS
    Names <- MCNames
    Physical <- MCPhysical
    FadeLength = 4
    RampLength = 2
    ChangeLength = 3
    InputLimit = 5
    TalkLimit = 3
    RemoteLatency = 2
    Docs <- MCDocs
    Opening <- MCOpening
    Settings <- MCSettings
    Touched <- MCTouched
    Sizes <- MCSizes
    Positions <- MCPositions
    Values <- MCValues
    Troubles <- MCTroubles
    PushFrames = 2
    Suppressed = 1
    MaxOps = 3
    MaxReloads = 1
    MaxBlocks = 2
    MaxPushes = 2
CHECK_DEADLOCK FALSE
INVARIANTS
    PlayheadFollows
    StaleInputBounded
    RoutesSound
    Aligned
    HeardAsPlanned
