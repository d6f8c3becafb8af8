SPECIFICATION FairSpec
CONSTANTS
    Packets = {1}
    Nodes = {"H1", "H2", "H3", "R1", "R2", "R3"}
    Routers = {"R1", "R2", "R3"}
    Addrs <- AllAddrs
    Owner <- OwnerOf
    Network <- NetworkOf
    Prefixes <- AllPrefixes
    Contains <- ContainsOf
    Announced = {"n2", "n12", "h2only"}
    Bits <- BitsOf
    Default = "any"
    Gateway <- Gateways
    Learned <- Converged
    FilterPairs <- Stakeholders
    Destinations = {"h1", "h2", "h3", "r2r1", "r1h3"}
    Senders = {"H1", "H2", "H3", "R1"}
    TTLNew = 4
    Infinity = 16
    MaxFaults = 2
CHECK_DEADLOCK FALSE
INVARIANTS TypeOK MatchIsLocal NobodyPanics FilteredStays
PROPERTIES ComesToAnEnd Arrives
