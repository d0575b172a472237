SPECIFICATION UnitsSpec
CONSTANTS
    Nodes = {n1}
    RxLength = 2
    BurstCount = 2
    NodesFirst = TRUE
    MaxChanges = 3
    MaxResets = 1
    MaxBusOffs = 1
    SlotCount = 3
    SenderIds = {0, 1, 2, 3}
    Expected = {1}
    Timeout = 2
    Width = 2
    MaxLag = 1
INVARIANTS StateMatchesSampler RegistryTypeOK
PROPERTIES StateFollowsMaster NodesFollow SilenceIsNoticed TrafficIsNoticed
