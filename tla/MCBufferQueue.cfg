SPECIFICATION Spec
CONSTANTS
    Readings <- ThreeReadings
    SensorOf <- ThreeSensors
    Timestamp <- ThreeTimestamps
    NoReading = NoReading
    ApiFlushers = {h1}
    BatchSize = 1
    CleanupScheduled = FALSE
    MaxRows = 3
    MaxFaults = 1
    MaxOutages = 1
    MaxRestarts = 1
INVARIANTS
    NoLoss
    SyncedDelivered
PROPERTIES
    FlushFIFO
    ImplementsStoreAndForward
CHECK_DEADLOCK TRUE
