SPECIFICATION Spec
CONSTANTS
    None = None
    Org <- ChurnOrgs
    MaxUid = 2
    MaxLag = 1
    Surroundings <- ChurnSurroundings
INVARIANTS
    RootsFromLineage
PROPERTIES
    ProfilesKept
CHECK_DEADLOCK FALSE
