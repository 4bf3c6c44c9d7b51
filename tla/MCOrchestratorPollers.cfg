SPECIFICATION Spec
CONSTANTS
    r1 = r1
    r2 = r2
    d1 = d1
    d2 = d2
    d3 = d3
    d4 = d4
    c1 = c1
    c2 = c2
    bad = bad
    f1 = f1
    f2 = f2
    t1 = t1
    NoDriver = NoDriver
    NoRow = NoRow
    NoFormula = NoFormula
    NoTwin = NoTwin
    Requests <- TwoRequests
    Drivers <- FourDrivers
    Confs <- TwoConfs
    BadConfs <- NoBad
    Formulas <- OneFormula
    Twins <- OneTwin
    CommitMayFail = FALSE
INVARIANTS
    SinglePoller
