SPECIFICATION Spec
CONSTANTS
    Names = {n1, n2, n3}
    NoName = NoName
    Producers = {p1}
    QueueLength = 2
    BlockSize = 2
    MaxSamples = 3
    MaxFiles = 2
    MaxCrashes = 1
    MaxFaults = 2
    OtherSpellings = FALSE
INVARIANT AlwaysAligned
