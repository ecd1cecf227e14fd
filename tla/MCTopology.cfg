CONSTANTS
    Coordinator = 0
    Programs = {"nwkTopology", "dataSendRcv"}
    Meshes <- SmallMeshes
    PageSize = 2
    Capacity = 4
    MaxRounds = 2
    MaxData = 1
    MaxSlow <- SlowInSmall
    MaxLoss <- LossInSmall
SPECIFICATION Spec
INVARIANTS EntriesOwn EachRouterOnce EachDeviceAskedOnce InsideNodeList OneTaken
PROPERTY DiscoveryEnds
\* After the last round the program waits at the console, and without an answer
\* displayDevices may wait for ever.
CHECK_DEADLOCK FALSE
