SPECIFICATION FairSpec
CONSTANTS
    None = None
    p = "p"
    Org = {"a", "b"}
    MaxUid = 2
    MaxLag = 1
    Surroundings <- ReadySurroundings
INVARIANTS
    NamespaceFollowsProject
    RevokedRoleUnbound
PROPERTIES
    EventuallyReady
CHECK_DEADLOCK FALSE
