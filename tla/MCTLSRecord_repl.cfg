SPECIFICATION FairSpec
CONSTANTS
    s1 = s1
    s2 = s2
    r1 = r1
    r2 = r2
    Ends <- TwoEnds
    Peer <- OtherEnd
    Capacity = 1
    Senders = {s1, s2}
    Readers = {r1, r2}
    At <- UserWrites
    Records <- OneEach
    HeaderLen = 1
    FrameLen = 2
    PlainLen = 2
    ReadSizes = {1}
    ReplEnds = {"user", "server"}
    Closers = {"user"}
    MaxResets = 0
CHECK_DEADLOCK FALSE
INVARIANTS Genuine
PROPERTIES CloseReturns
