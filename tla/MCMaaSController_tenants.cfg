SPECIFICATION Spec
CONSTANTS
    None = None
    o = "a"
    nameSize = 41
    Platforms <- OnePlatform
    MaxUid = 3
    MaxLag = 1
    Surroundings <- TenantSurroundings
INVARIANTS
    TypeOK
    NoOrphan
PROPERTIES
    FollowsLife
    ForeignNotAdopted
CHECK_DEADLOCK FALSE
