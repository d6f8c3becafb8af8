SPECIFICATION FairSpec
CONSTANTS
    Routers = {"A", "B", "C"}
    Neighbors <- RingNeighbors
    Prefixes = {"lan", "subnet"}
    LocalPrefixes <- RingPrefixes
    Infinity = 16
    RipTimeout = 3
    ConcurrentStart = FALSE
    Switched <- SwitchAC
    MaxFaults = 2
INVARIANT TypeOK
INVARIANT DeadRouteOffline
PROPERTY Converges
