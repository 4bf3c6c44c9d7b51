SPECIFICATION Spec
CONSTANTS
    c1 = c1
    c2 = c2
    c3 = c3
    s1 = s1
    s2 = s2
    NoClient = NoClient
    Clients <- ThreeClients
    Senders <- TwoSenders
INVARIANTS
    ClosedIsForgotten
PROPERTIES
    MissedOnePerDeparture
SYMMETRY Symmetry
