SPECIFICATION PatientSpec
CONSTANTS
    None = None
    Org = {"a", "b"}
    p = "p"
    MaxUid = 2
    MaxLag = 1
    Surroundings <- MCSurroundings
INVARIANTS
    LabelFromLineage

    
CHECK_DEADLOCK FALSE
