SPECIFICATION UnitsSpec
CONSTANTS
    Signals = {s1}
    Tokens = {t1, t2}
    Lease = 2
    MaxSessions = 2
    MaxLeases = 3
    Tasks = {task1, task2}
    Frames = {f1, f2}
    MaxBusOffs = 3
    MaxFailures = 1
INVARIANTS LiveOnlyWhileRunning FlagsFollowLogger LiveSamplesAreCurrent FrameKept
PROPERTIES ImplementsSession MutexReturned StopTakesEffect BusOffIsLeft RecoveryIsReported
