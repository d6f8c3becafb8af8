SPECIFICATION Spec
CONSTANTS
    WIN = 2
    MSS = 2
    WriteSizes = {4}
    ReadSizes = {1, 2}
    MaxRetrans = 1
    Total = 4
    MaxSegs = 2
    MaxAcks = 1
    MaxLoss = 0
    MaxCallbacks = 1
    Reorder = {"segs"}
CHECK_DEADLOCK FALSE
INVARIANTS
    TypeOK
    StreamPrefix
    FlowInv
    NoOverrun
    InFlightQueued
    RetransmissionArmed
PROPERTIES ImplementsStream WindowEdgeMonotonic
CONSTRAINT Open
