SPECIFICATION FairSpec
CONSTANTS
    None = None
    o = "a"
    nameSize = 41
    Platforms <- OnePlatform
    MaxUid = 3
    MaxLag = 1
    Surroundings <- EventualSurroundings
PROPERTIES
    DeletionCompletes
    EventuallyRendered
CHECK_DEADLOCK FALSE
