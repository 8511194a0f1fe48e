SPECIFICATION FairSpec
CONSTANTS
    None = None
    Org <- Orgs
    Project <- Projects
    Subject <- Subjects
    User <- Users
    OPERATOR_NAMESPACE = None
    CLUSTER_ADMIN_GROUPS <- PlatformGroups
    Scenarios <- MCScenarios
INVARIANTS
    TypeOK
    AdmittedOnEvidence
    LineageVerdictWithinDepth
    NoProjectBeforeQuota
    MaaSOnlyForRoots
    OnePerOrganization
PROPERTIES
    ReferencesImmutable
    EveryCallAnswered
CHECK_DEADLOCK FALSE
