SPECIFICATION Spec
CONSTANTS
    h1 = h1
    h2 = h2
    Size = 3
    Hosts = {h1, h2}
    NoName = NoName
    HostOf <- TwoHosts
    Plans <- Programs
    HostRanks = {0}
    MaxCalls = 3
INVARIANTS
    HostsListed
CHECK_DEADLOCK FALSE
