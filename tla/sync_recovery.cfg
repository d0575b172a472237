SPECIFICATION FairSpec
CONSTANTS
    Nodes = {n1}
    RxLength = 2
    BurstCount = 2
    NodesFirst = TRUE
    MaxChanges = 3
    MaxResets = 0
    MaxBusOffs = 1
PROPERTY RecordingReachesNodes
