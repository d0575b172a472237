SPECIFICATION UnitsSpec
CONSTANTS
    QueueLength = 3
    EventsLength = 2
    MinInterval = 2
    MaxInterval = 2
    StopTimeout = 3
    MaxPause = 2
    MaxTime = 6
    MaxSessions = 2
    MaxBusOffs = 1
    Resolution = 2
    Offsets <- TheOffsets
    MaxBeacons = 1
    Channels = 2
    SamplePeriod = 2
    SampleLength = 2
    LastMoment = 6
    MaxStarts = 2
    Window = 2
    EdgeTimeout = 2
    LastTime = 4
    Travel = 3
    MaxSpins = 2
INVARIANTS UnitTypes PairsTogether RpmMeasured ZeroMeansSilent FewLate ValuesOfTheRound OncePerSlot NewestAreKept AverageIsRight
PROPERTY SentInOrder
\* A node that is not active waits for the next command, and the instance's commands are bounded.
CHECK_DEADLOCK FALSE
