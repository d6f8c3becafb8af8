SPECIFICATION FairSpec
CONSTANTS
    MaxRetrans = 1
    Writers = {1, 2}
    Closers = {1}
    MaxData = 1
    ConcurrentWriter = FALSE
    ProbedBefore = FALSE
    MaxCallbacks = 1
    MaxLoss = 1
    MaxRst = 0
CHECK_DEADLOCK FALSE
INVARIANTS
    TypeOK
    EndOfStream
PROPERTY PeerLearns
