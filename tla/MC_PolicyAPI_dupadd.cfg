\* Two concurrent AddPolicy requests.
CONSTANTS
    Star = "*"
    NULL = NULL
    Reqs = {"r1", "r2"}
    MaxRequests = 2
    Users <- MC_Users
    Orgs <- MC_OrgA
    Names <- MC_Names
    Paths <- MC_Paths
    StmtChoices <- MC_StmtChoices
    PolicyOps <- MC_AddOnly
    NewIds <- MC_NewIds
    InitPolicies <- MC_InitPolicies
    InitGroups <- MC_InitGroups
    InitMembers <- MC_InitMembers
    InitAttached <- MC_InitAttached
SPECIFICATION Spec
INVARIANTS
    PolicyNameUnique
