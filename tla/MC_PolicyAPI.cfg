\* One request at a time: the handlers as atomic operations.
CONSTANTS
    Star = "*"
    NULL = NULL
    Reqs = {"r1"}
    MaxRequests = 3
    Users <- MC_Users
    Orgs <- MC_Orgs
    Names <- MC_Names
    Paths <- MC_Paths
    StmtChoices <- MC_StmtChoices
    PolicyOps <- MC_AllPolicyOps
    NewIds <- MC_NewIds
    InitPolicies <- MC_InitPolicies
    InitGroups <- MC_InitGroups
    InitMembers <- MC_InitMembers
    InitAttached <- MC_InitAttached
SPECIFICATION Spec
INVARIANTS
    TypeOK
    PolicyNameUnique
PROPERTIES
    PolicyStoreRefinement
