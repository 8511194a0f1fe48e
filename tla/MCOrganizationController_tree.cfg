SPECIFICATION FairSpec
CONSTANTS
    None = None
    Org <- TreeOrgs
    MaxUid = 2
    MaxLag = 1
    Surroundings <- TreeSurroundings
INVARIANTS
    TypeOK
    RootIsCurrent
    ReadyHasRoot
PROPERTIES
    EventuallyReconciled
CHECK_DEADLOCK FALSE
