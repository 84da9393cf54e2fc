\* One request at a time: group and policy handlers as atomic operations
\* over a shared store.
CONSTANTS
    Star = "*"
    NULL = NULL
    Reqs = {"r1"}
    MaxRequests = 4
    Users <- MC_Users
    ExternalIds <- MC_ExternalIds
    UserIds <- MC_UserIds
    InitUsers <- MC_InitUsers
    Orgs <- MC_OrgA
    Names <- MC_Names
    GroupNames <- MC_GroupNames
    Paths <- MC_Paths
    StmtChoices <- MC_StmtChoices
    PolicyOps <- MC_PolicyOps
    UserOps <- MC_UserOps
    GroupOps <- MC_GroupOps
    NewIds <- MC_NewIds
    InitPolicies <- MC_InitPolicies
    InitGroups <- MC_InitGroups
    InitMembers <- MC_InitMembers
    InitAttached <- MC_InitAttached
SPECIFICATION Spec
INVARIANTS
    TypeOK
    GroupNameUnique
    ResolverAvailable
    MembersResolvable
    UserExternalIdUnique
PROPERTIES
    GroupStoreRefinement
