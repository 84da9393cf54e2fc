------------------------------ MODULE GroupAPI ------------------------------
(***************************************************************************)
(* The group handlers that src/http/group.go routes to GroupApi, over the  *)
(* group repository of src/database/postgresql/group.go.  The handlers     *)
(* take no authenticated user (group.go passes only org, names and path), *)
(* so nothing here calls the authorization filter.  The API layer between *)
(* them is not in src/: each handler follows spec section 6 (fetch the    *)
(* current state, return the domain error of an early exit, then perform *)
(* the mutation), with the repository reads as one step and each          *)
(* repository write as the next.  Requests share the slots of PolicyAPI.  *)
(***************************************************************************)
EXTENDS Naturals, Sequences, SequencesExt, FiniteSets

CONSTANTS ExternalIds, Orgs, GroupNames, Names, Paths, GroupOps, Reqs, MaxRequests,
          NewIds, InitPolicies, InitGroups, InitMembers, InitAttached, Star, NULL

VARIABLES policies, groups, members, attached, users, req, issued

store == <<policies, groups, members, attached, users>>

LOCAL U == INSTANCE Urn

RESOURCE_GROUP == "group"

Done(r, code) ==
    req' = [req EXCEPT ![r].pc = "done", ![r].resp = [code |-> code, body |-> NULL]]

Answer(r, code, body) ==
    req' = [req EXCEPT ![r].pc = "done", ![r].resp = [code |-> code, body |-> body]]

Goto(r, pc, obj) == req' = [req EXCEPT ![r].pc = pc, ![r].obj = obj]

(* The SQL LIKE of the repository's queries on a name, a sequence of      *)
(* characters: "_" stands for any one character, "%" for any run of them. *)
RECURSIVE Like(_, _)
Like(p, s) ==
    CASE p = <<>>        -> s = <<>>
      [] Head(p) = "%"   -> \/ Like(Tail(p), s)
                            \/ s # <<>> /\ Like(p, Tail(s))
      [] OTHER           -> /\ s # <<>>
                            /\ Head(p) \in {"_", Head(s)}
                            /\ Like(Tail(p), Tail(s))

(* repo GetGroupByName(org, name): Where("org like ? AND name like ?")    *)
(* .First(): one of the rows whose name the requested name matches as a  *)
(* LIKE pattern, in primary-key order (the model picks any).  An org is   *)
(* one symbol with no wildcard character, for which LIKE is equality.    *)
GroupsByName(org, name) == {g \in groups : g.org = org /\ Like(name, g.name)}

(* repo GetGroupsFiltered(org, filter): "org like ?" when an org is given *)
(* and "path like ?" with PathPrefix + "%" when a prefix is given.        *)
GroupsFiltered(org, prefix) ==
    {g \in groups : g.org = org /\ (prefix = <<>> \/ Like(prefix \o <<"%">>, g.path))}

(* repo GetPolicyByName(org, name).                                       *)
PoliciesByName(org, name) == {p \in policies : p.org = org /\ p.name = name}

(* repo GetUserByExternalID(externalID), as UsersAPI.GetUserByExternalId. *)
UsersByExternalId(eid) == {u \in users : u.externalId = eid}

(* repo IsMemberOfGroup(userID, groupID), IsAttachedToGroup(groupID, policyID). *)
IsMemberOfGroup(uid, gid)    == <<uid, gid>> \in members
IsAttachedToGroup(gid, pid)  == <<gid, pid>> \in attached

-----------------------------------------------------------------------------
(* Mutant of AddGroupCheck: the GetGroupByName lookup is skipped.        *)
AddGroupCheckNoLookup(r) ==
    LET q == req[r] IN
    /\ q.pc = "AddGroup"
    /\ Goto(r, "AddGroup_insert",
            [id |-> NewIds[q.n], org |-> q.org, name |-> q.name, path |-> q.path,
             urn |-> U!CreateUrn(q.org, RESOURCE_GROUP, q.path, q.name)])
    /\ UNCHANGED <<store, issued>>

(* AddGroup: a taken (org, name) is GROUP_ALREADY_EXIST, else the new     *)
(* group, with a fresh uuid and its derived URN, is stored.              *)
AddGroupCheck(r) ==
    LET q == req[r] IN
    /\ q.pc = "AddGroup"
    /\ IF GroupsByName(q.org, q.name) # {}
       THEN Done(r, "GROUP_ALREADY_EXIST")
       ELSE Goto(r, "AddGroup_insert",
                 [id |-> NewIds[q.n], org |-> q.org, name |-> q.name, path |-> q.path,
                  urn |-> U!CreateUrn(q.org, RESOURCE_GROUP, q.path, q.name)])
    /\ UNCHANGED <<store, issued>>

(* repo AddGroup(group): Create(groupDB).                                 *)
AddGroup(r) ==
    /\ req[r].pc = "AddGroup_insert"
    /\ groups' = groups \cup {req[r].obj}
    /\ Done(r, "OK")
    /\ UNCHANGED <<policies, members, attached, users, issued>>

(* UpdateGroup: the group must exist and the new name must not belong to  *)
(* another group of the org.                                              *)
UpdateGroupCheck(r) ==
    LET q == req[r] IN
    /\ q.pc = "UpdateGroup"
    /\ IF GroupsByName(q.org, q.name) = {}
       THEN Done(r, "GROUP_BY_ORG_AND_NAME_NOT_FOUND")
       ELSE \E g \in GroupsByName(q.org, q.name) :
              IF \E t \in GroupsByName(q.org, q.newName) : t.id # g.id
              THEN Done(r, "GROUP_ALREADY_EXIST")
              ELSE Goto(r, "UpdateGroup_write", g)
    /\ UNCHANGED <<store, issued>>

(* repo UpdateGroup(group, newName, newPath, urn): Model(&groupDB).Update  *)
(* writes the row with the group's id; RecordNotFound is never set by an  *)
(* update, so a row that is gone is no error and nothing changes.         *)
UpdateGroup(r) ==
    LET q == req[r] IN
    /\ q.pc = "UpdateGroup_write"
    /\ groups' = {IF g.id = q.obj.id
                  THEN [g EXCEPT !.name = q.newName, !.path = q.path,
                                 !.urn  = U!CreateUrn(g.org, RESOURCE_GROUP, q.path, q.newName)]
                  ELSE g : g \in groups}
    /\ Done(r, "OK")
    /\ UNCHANGED <<policies, members, attached, users, issued>>

(* RemoveGroup: the group is looked up by org and name, then removed by id. *)
RemoveGroupCheck(r) ==
    LET q == req[r] IN
    /\ q.pc = "RemoveGroup"
    /\ IF GroupsByName(q.org, q.name) = {}
       THEN Done(r, "GROUP_BY_ORG_AND_NAME_NOT_FOUND")
       ELSE \E g \in GroupsByName(q.org, q.name) : Goto(r, "RemoveGroup_tx", g)
    /\ UNCHANGED <<store, issued>>

(* Mutant of RemoveGroup: the GroupUserRelation rows are not deleted.    *)
RemoveGroupKeepMembers(r) ==
    /\ req[r].pc = "RemoveGroup_tx"
    /\ groups' = {g \in groups : g.id # req[r].obj.id}
    /\ Done(r, "OK")
    /\ UNCHANGED <<policies, members, attached, users, issued>>

(* repo RemoveGroup(id): one transaction deleting the group and its       *)
(* GroupUserRelation rows; GroupPolicyRelation rows are not deleted.  The *)
(* error checks read transaction.Error, which only a failed Begin sets:   *)
(* the result of each Delete is a new handle whose error is dropped.  If  *)
(* a Delete fails the transaction is aborted, Commit rolls it back, its   *)
(* error is dropped too, and nil is returned.                             *)
RemoveGroup(r) ==
    LET id == req[r].obj.id IN
    /\ req[r].pc = "RemoveGroup_tx"
    /\ \/ /\ groups'  = {g \in groups : g.id # id}          \* commit
          /\ members' = {m \in members : m[2] # id}
          /\ Done(r, "OK")
       \/ /\ UNCHANGED <<groups, members>>                 \* a Delete fails
          /\ Done(r, "OK")
       \/ /\ UNCHANGED <<groups, members>>                 \* Begin fails
          /\ Done(r, "UNKNOWN_API_ERROR")
    /\ UNCHANGED <<policies, attached, users, issued>>

(* AddMember(user, group, org): the user is resolved by external id, the  *)
(* group by org and name, and the user must not be a member yet.          *)
AddMemberCheck(r) ==
    LET q == req[r] IN
    /\ q.pc = "AddMember"
    /\ CASE UsersByExternalId(q.user) = {}
              -> Done(r, "USER_BY_EXTERNAL_ID_NOT_FOUND")
         [] GroupsByName(q.org, q.name) = {}
              -> Done(r, "GROUP_BY_ORG_AND_NAME_NOT_FOUND")
         [] OTHER ->
              \E u \in UsersByExternalId(q.user), g \in GroupsByName(q.org, q.name) :
                 IF IsMemberOfGroup(u.id, g.id)
                 THEN Done(r, "USER_IS_ALREADY_A_MEMBER_OF_GROUP")
                 ELSE Goto(r, "AddMember_insert", <<u.id, g.id>>)
    /\ UNCHANGED <<store, issued>>

(* Mutant of AddMember: the relation is built with its ids swapped.      *)
AddMemberSwapped(r) ==
    /\ req[r].pc = "AddMember_insert"
    /\ members' = members \cup {<<req[r].obj[2], req[r].obj[1]>>}
    /\ Done(r, "OK")
    /\ UNCHANGED <<policies, groups, attached, users, issued>>

(* repo AddMember(userID, groupID): Create(relation).                     *)
AddMember(r) ==
    /\ req[r].pc = "AddMember_insert"
    /\ members' = members \cup {req[r].obj}
    /\ Done(r, "OK")
    /\ UNCHANGED <<policies, groups, attached, users, issued>>

(* RemoveMember(user, group, org): user and group are resolved as for    *)
(* AddMember and the user must be a member.                               *)
RemoveMemberCheck(r) ==
    LET q == req[r] IN
    /\ q.pc = "RemoveMember"
    /\ CASE UsersByExternalId(q.user) = {}
              -> Done(r, "USER_BY_EXTERNAL_ID_NOT_FOUND")
         [] GroupsByName(q.org, q.name) = {}
              -> Done(r, "GROUP_BY_ORG_AND_NAME_NOT_FOUND")
         [] OTHER ->
              \E u \in UsersByExternalId(q.user), g \in GroupsByName(q.org, q.name) :
                 IF ~IsMemberOfGroup(u.id, g.id)
                 THEN Done(r, "USER_IS_NOT_A_MEMBER_OF_GROUP")
                 ELSE Goto(r, "RemoveMember_delete", <<u.id, g.id>>)
    /\ UNCHANGED <<store, issued>>

(* Mutant of RemoveMember: the delete is filtered by the user id only.    *)
RemoveMemberAllGroups(r) ==
    /\ req[r].pc = "RemoveMember_delete"
    /\ members' = {m \in members : m[1] # req[r].obj[1]}
    /\ Done(r, "OK")
    /\ UNCHANGED <<policies, groups, attached, users, issued>>

(* repo RemoveMember(userID, groupID): delete the relation.               *)
RemoveMember(r) ==
    /\ req[r].pc = "RemoveMember_delete"
    /\ members' = members \ {req[r].obj}
    /\ Done(r, "OK")
    /\ UNCHANGED <<policies, groups, attached, users, issued>>

(* AttachPolicyToGroup(org, groupName, policyName): group and policy must  *)
(* exist and not be attached yet.  newName carries the policy name.       *)
AttachPolicyCheck(r) ==
    LET q == req[r] IN
    /\ q.pc = "AttachPolicyToGroup"
    /\ CASE GroupsByName(q.org, q.name) = {}
              -> Done(r, "GROUP_BY_ORG_AND_NAME_NOT_FOUND")
         [] PoliciesByName(q.org, q.newName) = {}
              -> Done(r, "POLICY_BY_ORG_AND_NAME_NOT_FOUND")
         [] OTHER ->
              \E g \in GroupsByName(q.org, q.name), p \in PoliciesByName(q.org, q.newName) :
                 IF IsAttachedToGroup(g.id, p.id)
                 THEN Done(r, "POLICY_IS_ALREADY_ATTACHED_TO_GROUP")
                 ELSE Goto(r, "AttachPolicy_insert", <<g.id, p.id>>)
    /\ UNCHANGED <<store, issued>>

(* repo AttachPolicy(groupID, policyID): Create(relation).                *)
AttachPolicy(r) ==
    /\ req[r].pc = "AttachPolicy_insert"
    /\ attached' = attached \cup {req[r].obj}
    /\ Done(r, "OK")
    /\ UNCHANGED <<policies, groups, members, users, issued>>

(* ListMembers(org, group): repo GetGroupMembers resolves every relation  *)
(* of the group with GetUserByID and fails with INTERNAL_ERROR on a user  *)
(* row that is gone.                                                      *)
ListMembersStep(r) ==
    LET q == req[r] IN
    /\ q.pc = "ListMembers"
    /\ IF GroupsByName(q.org, q.name) = {}
       THEN Done(r, "GROUP_BY_ORG_AND_NAME_NOT_FOUND")
       ELSE \E g \in GroupsByName(q.org, q.name) :
              IF \E m \in members : m[2] = g.id /\ ~\E u \in users : u.id = m[1]
              THEN Done(r, "UNKNOWN_API_ERROR")
              ELSE Done(r, "OK")
    /\ UNCHANGED <<store, issued>>

(* handleGetGroup: GetGroupByName(org, name), NOT_FOUND mapped to        *)
(* GROUP_BY_ORG_AND_NAME_NOT_FOUND; the group found is the answer.       *)
GetGroupByNameStep(r) ==
    LET q == req[r] IN
    /\ q.pc = "GetGroupByName"
    /\ IF GroupsByName(q.org, q.name) = {}
       THEN Done(r, "GROUP_BY_ORG_AND_NAME_NOT_FOUND")
       ELSE \E g \in GroupsByName(q.org, q.name) : Answer(r, "OK", g.id)
    /\ UNCHANGED <<store, issued>>

(* handleListGroups: GetListGroups(org, pathPrefix) answers the ids of    *)
(* the groups GetGroupsFiltered returns.                                  *)
GetListGroupsStep(r) ==
    /\ req[r].pc = "GetListGroups"
    /\ Answer(r, "OK", {g.id : g \in GroupsFiltered(req[r].org, req[r].path)})
    /\ UNCHANGED <<store, issued>>

-----------------------------------------------------------------------------
(* Arguments of each handler: user is the member, name the group, newName *)
(* the new group name or the policy to attach.                            *)
GroupArgSet == [op \in {"AddGroup", "UpdateGroup", "RemoveGroup", "AddMember",
                        "RemoveMember", "AttachPolicyToGroup", "ListMembers",
                        "GetGroupByName", "GetListGroups"} |->
    CASE op = "AddGroup" ->
              [user: {NULL}, name: GroupNames, newName: {NULL}, path: Paths]
      [] op = "UpdateGroup" ->
              [user: {NULL}, name: GroupNames, newName: GroupNames, path: Paths]
      [] op \in {"AddMember", "RemoveMember"} ->
              [user: ExternalIds, name: GroupNames, newName: {NULL}, path: {NULL}]
      [] op = "AttachPolicyToGroup" ->
              [user: {NULL}, name: GroupNames, newName: Names, path: {NULL}]
      [] op = "GetListGroups" ->
              [user: {NULL}, name: {NULL}, newName: {NULL}, path: Paths \cup {<<>>}]
      [] OTHER ->
              [user: {NULL}, name: GroupNames, newName: {NULL}, path: {NULL}]]

Start(r) ==
    /\ req[r].pc \in {"idle", "done"}
    /\ issued < MaxRequests
    /\ \E op \in GroupOps, org \in Orgs : \E a \in GroupArgSet[op] :
         req' = [req EXCEPT ![r] = [op |-> op, pc |-> op, user |-> a.user, org |-> org,
                                    n |-> issued + 1, name |-> a.name, newName |-> a.newName,
                                    path |-> a.path, stmts |-> NULL, obj |-> NULL, resp |-> NULL]]
    /\ issued' = issued + 1
    /\ UNCHANGED store

Step(r) ==
    \/ AddGroupCheck(r)     \/ AddGroup(r)
    \/ UpdateGroupCheck(r)  \/ UpdateGroup(r)
    \/ RemoveGroupCheck(r)  \/ RemoveGroup(r)
    \/ AddMemberCheck(r)    \/ AddMember(r)
    \/ RemoveMemberCheck(r) \/ RemoveMember(r)
    \/ AttachPolicyCheck(r) \/ AttachPolicy(r)
    \/ ListMembersStep(r)
    \/ GetGroupByNameStep(r) \/ GetListGroupsStep(r)
=============================================================================
