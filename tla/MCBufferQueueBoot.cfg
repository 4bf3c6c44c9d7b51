SPECIFICATION LiveSpec
CONSTANTS
    Readings <- TwoReadings
    SensorOf <- TwoSensors
    Timestamp <- TwoTimestamps
    NoReading = NoReading
    ApiFlushers = {}
    BatchSize = 1
    CleanupScheduled = FALSE
    MaxRows = 2
    MaxFaults = 0
    MaxOutages = 1
    MaxRestarts = 1
PROPERTIES
    FlushedOnceRestored
