------------------------------ MODULE Foulkon ------------------------------
(***************************************************************************)
(* The policy handlers (PolicyAPI) and the group handlers (GroupAPI) run  *)
(* by concurrent requests over one repository.  They interact through the *)
(* relation tables: the group handlers add and remove memberships and     *)
(* attachments, the policy handlers delete policies and list attachments, *)
(* and the authorization filter of every policy handler resolves the      *)
(* caller's groups and their attached policies (Authorizer).  The user    *)
(* handlers (UserAPI) add users and remove them with their memberships,  *)
(* which the group handlers resolve by external id.                      *)
(***************************************************************************)
EXTENDS Naturals, Sequences, SequencesExt, FiniteSets

CONSTANTS Users, ExternalIds, UserIds, Orgs, Names, GroupNames, Paths, StmtChoices,
          PolicyOps, GroupOps, UserOps, Reqs, MaxRequests, NewIds, InitPolicies,
          InitGroups, InitMembers, InitAttached, InitUsers, Star, NULL

VARIABLES policies, groups, members, attached, users, req, issued, writer

vars == <<policies, groups, members, attached, users, req, issued, writer>>

P == INSTANCE PolicyAPI
G == INSTANCE GroupAPI
UA == INSTANCE UserAPI

(* GroupStore sees the attachments of stored groups: the rows RemoveGroup *)
(* leaves behind are read by no handler (GetAttachedPolicies starts from a *)
(* group's id, and ids are not reused).                                   *)
Groups == INSTANCE GroupStore
    WITH attached <- {a \in attached : \E g \in groups : g.id = a[1]}

(* Each component's steps leave the tables it does not declare alone; the *)
(* history variable writer only tracks policy writers.                    *)
PolicyStart(r) == P!Start(r) /\ UNCHANGED users
PolicyStep(r)  == P!Step(r)  /\ UNCHANGED users
GroupStart(r)  == G!Start(r) /\ UNCHANGED writer
GroupStep(r)   == G!Step(r)  /\ UNCHANGED writer
UserStart(r)   == UA!Start(r) /\ UNCHANGED <<policies, attached, writer>>
UserStep(r)    == UA!Step(r)  /\ UNCHANGED <<policies, attached, writer>>

Quiescent == P!Quiescent /\ UNCHANGED users

Init == P!Init /\ users = InitUsers

Next ==
    \/ \E r \in Reqs : \/ PolicyStart(r) \/ PolicyStep(r)
                      \/ GroupStart(r)  \/ GroupStep(r)
                      \/ UserStart(r)   \/ UserStep(r)
    \/ Quiescent

Spec == Init /\ [][Next]_vars

-----------------------------------------------------------------------------
Ids == {p.id : p \in InitPolicies} \cup {g.id : g \in InitGroups} \cup ToSet(NewIds)

(* Requests name the orgs of Orgs; the store may hold rows of others.     *)
AllOrgs == Orgs \cup {g.org : g \in InitGroups} \cup {p.org : p \in InitPolicies}

TypeOK ==
    /\ \A g \in groups : /\ DOMAIN g = {"id", "org", "name", "path", "urn"}
                          /\ g.id \in Ids /\ g.org \in AllOrgs /\ g.path \in Paths
    /\ \A p \in policies : p.id \in Ids /\ p.org \in AllOrgs /\ p.path \in Paths
    /\ \A u \in users : DOMAIN u = {"id", "externalId", "path"} /\ u.externalId \in ExternalIds
    /\ members  \subseteq ({u.id : u \in InitUsers} \cup ToSet(NewIds)) \X Ids
    /\ attached \subseteq Ids \X Ids
    /\ issued \in 0..MaxRequests

(* Spec 3: a group is unique per (org, name).  AddGroup and UpdateGroup   *)
(* look the name up (GetGroupByName) before they write.                   *)
GroupNameUnique ==
    \A g, h \in groups : g.org = h.org /\ g.name = h.name => g.id = h.id

(* Spec 4.3: the filter can resolve every principal's groups and their   *)
(* attached policies.  GetGroupsByUserID and GetAttachedPolicies fail on *)
(* a relation whose group or policy row is gone, and the filter then     *)
(* refuses every request of that user in that org.                       *)
ResolverAvailable ==
    \A u \in Users, org \in Orgs : ~P!A!ResolveFails(u, org)

(* Spec 2 (lifecycle): deleting a group or a policy removes its           *)
(* membership and attachment relations, so no relation outlives the rows *)
(* it joins.  RemoveGroup in group.go and RemovePolicy are the deletes.   *)
RelationIntegrity ==
    /\ \A m \in members  : \E g \in groups : g.id = m[2]
    /\ \A a \in attached : (\E g \in groups : g.id = a[1]) /\ (\E p \in policies : p.id = a[2])

(* RemoveGroup answers OK only when the group is gone: a request that got *)
(* OK for the group it looked up finds no row with that id afterwards.    *)
RemoveGroupTruthful ==
    \A r \in Reqs :
        req[r].op = "RemoveGroup" /\ req[r].pc = "done" /\ req[r].resp.code = "OK"
            => \A g \in groups : g.id # req[r].obj.id

(* Spec 3 (a group's members are principals): every GroupUserRelation row *)
(* names a stored user.  GetGroupMembers resolves each row with           *)
(* GetUserByID and ListMembers fails on a row whose user is gone; RemoveUser *)
(* deletes the user's rows and AddMember resolves the user first.         *)
MembersResolvable ==
    \A m \in members : \E u \in users : u.id = m[1]

(* A user is identified by its external id (GetUserByExternalId returns   *)
(* one user): AddUser checks the external id before it inserts.           *)
UserExternalIdUnique ==
    \A u, v \in users : u.externalId = v.externalId => u.id = v.id

(* RemoveUserById answers every request: a missing user is               *)
(* USER_BY_EXTERNAL_ID_NOT_FOUND and any other repository error           *)
(* UNKNOWN_API_ERROR, as its two branches say.                            *)
RemoveUserAnswers ==
    \A r \in Reqs : req[r].op = "RemoveUserById" /\ req[r].pc = "done"
                     => req[r].resp.code # "PANIC"

(* UpdateGroup answers OK only when it updated a stored group: the step  *)
(* that writes by id and answers OK leaves a group with that id, the new *)
(* name and the new path.                                                 *)
UpdateGroupTruthful ==
    [][\A r \in Reqs :
         /\ req[r].pc = "UpdateGroup_write"
         /\ req'[r].pc = "done" /\ req'[r].resp.code = "OK"
         => \E g \in groups' : g.id = req[r].obj.id /\ g.name = req[r].newName
                              /\ g.path = req[r].path]_vars

(* Spec 3 identifies a group by (org, name) and every group handler takes *)
(* them (GetGroupByName in group.go): a step that removes or rewrites a   *)
(* group row, or adds a membership or an attachment, is the step of a     *)
(* request that names that group.                                         *)
NamesGroup(r, gid) ==
    \E g \in groups : g.id = gid /\ g.org = req[r].org /\ g.name = req[r].name

GroupWritesNamed ==
    [][\A r \in Reqs : req'[r].pc # req[r].pc =>
         /\ \A g \in groups \ groups'       : NamesGroup(r, g.id)
         /\ \A m \in members' \ members     : NamesGroup(r, m[2])
         /\ \A a \in attached' \ attached   : NamesGroup(r, a[1])]_vars
(* GroupStoreRefinement: every step of the composed handlers is a step of *)
(* GroupStore: the group handlers change groups and their relations only *)
(* by whole operations that find the group, the user and the policy they *)
(* name, and keep names unique and URNs derived.                         *)
GroupStoreRefinement == Groups!Spec
=============================================================================
