SPECIFICATION LiveSpec
CONSTANTS
    s1 = s1
    s2 = s2
    l1 = l1
    l2 = l2
    p1 = p1
    c1 = c1
    c2 = c2
    c3 = c3
    NoClient = NoClient
    Senders <- TwoSenders
    Loops <- TwoLoops
    Puts <- OnePut
    Clients <- ThreeClients
    MaxFaults = 2
    MaxOutages = 1
    MaxPuts = 1
INVARIANTS
    SingleReconnect
    NoOrphanSession
    ConnectedHasClient
PROPERTIES
    Recovers
