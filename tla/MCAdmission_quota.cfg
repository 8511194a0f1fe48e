SPECIFICATION Spec
CONSTANTS
    None = None
    Org <- Orgs
    Project <- Projects
    Subject <- Subjects
    User <- Users
    OPERATOR_NAMESPACE = None
    CLUSTER_ADMIN_GROUPS = None
    Scenarios <- QuotaScenario
INVARIANTS
    MaxProjectsCaps
CHECK_DEADLOCK FALSE
