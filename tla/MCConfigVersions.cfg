SPECIFICATION Spec
CONSTANTS
    s = s
    t = t
    p = p
    i1 = i1
    i2 = i2
    Absent = Absent
    Names <- TwoNames
    Params <- OneParam
    Requests <- TwoRequests
    Files <- OneFile
    MaxVersions = 2
SYMMETRY Symmetry
INVARIANTS
    NumbersGapless
    TwinsOverlapped
PROPERTIES
    VersionsKeepMeaning
    ImportApplied
CHECK_DEADLOCK FALSE
