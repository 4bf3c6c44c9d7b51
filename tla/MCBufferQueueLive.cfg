SPECIFICATION LiveSpec
CONSTANTS
    Readings <- ThreeReadings
    SensorOf <- ThreeSensors
    Timestamp <- ThreeTimestamps
    NoReading = NoReading
    ApiFlushers = {}
    BatchSize = 2
    CleanupScheduled = TRUE
    MaxRows = 3
    MaxFaults = 1
    MaxOutages = 1
    MaxRestarts = 1
INVARIANTS
    NoLoss
PROPERTIES
    EventuallyDelivered
    DirectModeResumes
