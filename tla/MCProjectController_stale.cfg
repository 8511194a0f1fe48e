SPECIFICATION Spec
CONSTANTS
    None = None
    p = "p"
    Org = {"a", "b"}
    MaxUid = 1
    MaxLag = 2
    Surroundings <- StaleSurroundings
INVARIANTS
    PresetEnforced
CHECK_DEADLOCK FALSE
