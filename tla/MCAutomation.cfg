SPECIFICATION LiveSpec
CONSTANTS
    a = a
    b = b
    r1 = r1
    r2 = r2
    NoRule = NoRule
    Sensors <- TwoSensors
    Rules <- TwoRules
    Cooldown = 2
    MaxSpent = 2
INVARIANTS
    TypeOK
    CooldownBound
PROPERTIES
    RuleFires
    DeletedNeverFires
