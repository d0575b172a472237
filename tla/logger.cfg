SPECIFICATION UnitsSpec
CONSTANTS
    Names = {n1, n2}
    NoName = NoName
    Producers = {p1, p2}
    QueueLength = 2
    BlockSize = 2
    MaxSamples = 5
    MaxFiles = 2
    MaxCrashes = 1
    MaxFaults = 2
    OtherSpellings = FALSE
    Held = {"speed"}
    Width = 3
    PairAge = 1
    Times = {0, 1, 2, 3}
    MaxRecords = 3
SYMMETRY Symmetry
INVARIANTS NoLoss DropsShow UtcAligned IdleIsDurable ActiveFilesStayPut
    LogsAreWhole RowsAreRight RowsAreTimed
PROPERTY CompletedLogsKept
