\* One RemoveGroup whose transaction may fail.
CONSTANTS
    Star = "*"
    NULL = NULL
    Reqs = {"r1"}
    MaxRequests = 1
    Users <- MC_Users
    ExternalIds <- MC_ExternalIds
    UserIds <- MC_UserIds
    InitUsers <- MC_InitUsers
    Orgs <- MC_OrgA
    Names <- MC_Names
    GroupNames <- MC_GroupNames
    Paths <- MC_Paths
    StmtChoices <- MC_StmtChoices
    PolicyOps <- MC_NoPolicyOps
    UserOps <- MC_NoUserOps
    GroupOps <- MC_RemoveOnly
    NewIds <- MC_NewIds
    InitPolicies <- MC_InitPolicies
    InitGroups <- MC_InitGroups
    InitMembers <- MC_InitMembers
    InitAttached <- MC_InitAttached
SPECIFICATION Spec
INVARIANTS
    RemoveGroupTruthful
