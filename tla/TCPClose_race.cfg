SPECIFICATION Spec
CONSTANTS
    MaxRetrans = 1
    Writers = {1}
    Closers = {1, 2}
    MaxData = 2
    ConcurrentWriter = TRUE
    ProbedBefore = TRUE
    MaxCallbacks = 0
    MaxLoss = 0
    MaxRst = 1
CHECK_DEADLOCK FALSE
INVARIANTS FinAckGenuine
