SPECIFICATION RegistryFairSpec
CONSTANTS
    SlotCount = 3
    SenderIds = {0,1,2,3}
    Expected = {1}
    Timeout = 2
    Width = 2
    MaxLag = 1
INVARIANT OfflineMeansSilent
