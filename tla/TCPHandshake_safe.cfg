SPECIFICATION Spec
CONSTANTS
    Clients = {c1}
    Entries = {1, 2}
    MaxRetrans = 1
    Backlog = 1
    MaxAccepts = 2
    ListenerCloses = TRUE
    MaxData = 1
    MaxLoss = 1
CHECK_DEADLOCK FALSE
INVARIANTS
    TypeOK
    PassiveAnswered
    HandshakeArmed
