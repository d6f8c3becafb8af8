SPECIFICATION FairSpec
CONSTANTS
    WIN = 1
    MSS = 1
    WriteSizes = {2}
    ReadSizes = {1}
    MaxRetrans = 1
    Total = 2
    MaxSegs = 1
    MaxAcks = 1
    MaxLoss = 1
    MaxCallbacks = 1
    Reorder = {}
CHECK_DEADLOCK FALSE
PROPERTY WrittenIsDelivered
