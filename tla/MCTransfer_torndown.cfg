SPECIFICATION FairSpec
CONSTANTS
    WIN = 1
    MSS = 1
    WriteSizes = {2}
    ReadSizes = {1}
    MaxRetrans = 0
    Total = 2
    MaxSegs = 1
    MaxAcks = 1
    MaxLoss = 0
    MaxCallbacks = 1
    Reorder = {}
CHECK_DEADLOCK FALSE
PROPERTY ClosedIsTornDown
