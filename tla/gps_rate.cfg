SPECIFICATION UnitsSpec
CONSTANTS
    Correction = 8
    MaxError = 3
    StepAfter = 9
    StepRejections = 2
    CountMax = 2
    Period = 4
    MaxDelay = 2
    GpsErrors <- SomeErrors
    Unused = 2
    Parts = 2
    LineMax = 3
    BurstGap = 4
    FastPeriod = 8
    SlowPeriod = 14
    MaxLag = 1
    MaxBursts = 3
    MaxGarbled = 1
    LastYear = 99
    LastMonth = 13
    LastDay = 32
INVARIANT RateOnlyIfQuiet
