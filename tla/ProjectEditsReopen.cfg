CONSTANTS
    Base = 10
    Digits = 6
    MinGain = 0
    MaxGain = 3
    ShortFade = 1
    SourceLength <- MCSourceLength
    Family <- MCFamily
    MaxInserts = 3
    MaxRack = 2
    Units = 2
    MinDur = 2
    MaxPitch = 3
    MaxVelocity = 3
    MinTempo = 1
    MaxTempo = 3
    BpmParts = 4
    MinValue = 0
    MaxValue = 2
    Start <- MCLong
    MaxEdits <- MCLongEdits
    Times <- MCLongTimes
    Deltas <- MCDeltas
    Gains <- MCGains
    Tempos <- MCTempos
    Targets <- MCTargets
    Peaks <- MCPeaks
    Takes <- MCTakes
    Notation <- MCNotation
    DefaultTempo = 2
    Rate <- MCRate
    ReopenedAfter <- MCLongEdits
    ExchangedAfter <- MCNoExchange
    StemName <- MCStemName
    Folder <- MCNoFolder
    Files <- MCFiles
    Output <- MCOutput
SPECIFICATION Spec
CHECK_DEADLOCK FALSE
PROPERTIES ReopenKeeps
