SPECIFICATION FairSpec
CONSTANTS
    s1 = s1
    s2 = s2
    r1 = r1
    r2 = r2
    Ends <- TwoEnds
    Peer <- OtherEnd
    Capacity = 3
    Senders = {s1}
    Readers = {r1}
    At <- UserWrites
    Records <- ThreeEach
    HeaderLen = 2
    FrameLen = 4
    PlainLen = 2
    ReadSizes = {1, 2}
    ReplEnds = {}
    Closers = {"user", "server"}
    MaxResets = 1
CHECK_DEADLOCK FALSE
INVARIANTS TypeOK EOFMeansWhole
PROPERTIES ImplementsPipe FileArrives
