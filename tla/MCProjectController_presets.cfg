SPECIFICATION Spec
CONSTANTS
    None = None
    p = "p"
    Org = {"a", "b"}
    MaxUid = 1
    MaxLag = 1
    Surroundings <- PresetSurroundings
INVARIANTS
    TypeOK
    FreshReconcileProvisions
PROPERTIES
    OnlyStaleRemovalsOpen
    ControlledNotOverwritten
CHECK_DEADLOCK FALSE
