SPECIFICATION FairSpec
CONSTANTS
    d1 = d1
    d2 = d2
    d3 = d3
    Dialers = {d1, d2}
    Ends <- AllEnds
    Peer <- OtherEnd
    Capacity = 2
    ClientConfigs <- Configs
    ServerSignKey = "server"
    UserVerifyKey = "user"
    MaxResets = 1
CHECK_DEADLOCK FALSE
INVARIANTS TypeOK KeysCrossed Authenticated FirstRecordKept
PROPERTIES RejectedIsTold DialReturns
