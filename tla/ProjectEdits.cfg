CONSTANTS
    Base = 10
    Digits = 6
    MinGain = 0
    MaxGain = 3
    ShortFade = 1
    SourceLength <- MCSourceLength
    Family <- MCFamily
    MaxInserts = 3
    MaxRack = 2
    Units = 2
    MinDur = 2
    MaxPitch = 3
    MaxVelocity = 3
    MinTempo = 1
    MaxTempo = 3
    BpmParts = 4
    MinValue = 0
    MaxValue = 2
    Start <- MCStart
    MaxEdits <- MCMaxEdits
    Times <- MCTimes
    Deltas <- MCDeltas
    Gains <- MCGains
    Tempos <- MCTempos
    Targets <- MCTargets
    Peaks <- MCPeaks
    Takes <- MCTakes
    Notation <- MCNotation
    DefaultTempo = 2
    Rate <- MCRate
    ReopenedAfter <- MCReopenedAfter
    ExchangedAfter <- MCExchangedAfter
    StemName <- MCStemName
    Folder <- MCFolder
    Files <- MCFiles
    Output <- MCOutput
SPECIFICATION Spec
CHECK_DEADLOCK FALSE
INVARIANTS ShownIsPlayed NamesResolve TimelineInOrder
PROPERTIES CutsKeepSound LockedUntouched MidiKeepsTime ReopenKeeps ExchangeKeeps MediaKept DeliveriesHold
