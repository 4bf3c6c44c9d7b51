SPECIFICATION LiveSpec
CONSTANTS
    d1 = d1
    d2 = d2
    w1 = w1
    c1 = c1
    c2 = c2
    c3 = c3
    c4 = c4
    NoClient = NoClient
    NoDriver = NoDriver
    Drivers <- TwoDrivers
    Writers <- OneWriter
    Clients <- FourClients
    Blocks <- OneAndTwo
    MaxGap = 1
    RegisterMaps <- ShortMaps
    RegistersOf <- AcrossAGap
    RetryCount = 2
    MaxFaults = 1
    MaxOutages = 1
    MaxStarts = 3
INVARIANTS
    OneTransaction
    LockIsHeld
    StoppedIsQuiet
    RegistersDecoded
    BlocksMinimal
PROPERTIES
    NoWriteForStopped
    Served
    Recovers
    OutageShown
CHECK_DEADLOCK FALSE
