SPECIFICATION LiveSpec
CONSTANTS
    m = m
    c = c
    Mqtt <- OneMqtt
    Can <- OneCan
    MaxLeaks = 2
INVARIANTS
    StoppedIsSilent
    DeafOnlyIfLost
PROPERTIES
    Hears
    CommandsResume
