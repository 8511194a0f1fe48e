SPECIFICATION Spec
CONSTANTS
    None = None
    p = "p"
    Org = {"a", "b"}
    MaxUid = 1
    MaxLag = 2
    Surroundings <- ForeignSurroundings
PROPERTIES
    ForeignPoliciesKept
CHECK_DEADLOCK FALSE
