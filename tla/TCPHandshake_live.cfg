SPECIFICATION FairSpec
CONSTANTS
    Clients = {c1}
    Entries = {1, 2}
    MaxRetrans = 1
    Backlog = 1
    MaxAccepts = 2
    ListenerCloses = FALSE
    MaxData = 0
    MaxLoss = 1
CHECK_DEADLOCK FALSE
PROPERTIES ConnectReturns HalfOpenEnds EstablishedIsAccepted
