SPECIFICATION FairSpec
CONSTANTS
    Nodes = {n1}
    RxLength = 2
    BurstCount = 2
    NodesFirst = TRUE
    MaxChanges = 2
    MaxResets = 1
    MaxBusOffs = 0
PROPERTY StopReachesNodes
