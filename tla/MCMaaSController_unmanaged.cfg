SPECIFICATION Spec
CONSTANTS
    None = None
    o = "a"
    nameSize = 41
    Platforms <- OnePlatform
    MaxUid = 3
    MaxLag = 1
    Surroundings <- CrowdedSurroundings
PROPERTIES
    ForeignNeverDeleted
CHECK_DEADLOCK FALSE
