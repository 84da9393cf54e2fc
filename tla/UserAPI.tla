------------------------------ MODULE UserAPI ------------------------------
(***************************************************************************)
(* The user handlers of src/api/user.go (UsersAPI) over the user table     *)
(* and the GroupUserRelation table.  The user repository is not in src/;  *)
(* what it does is pinned down by src/database/postgresql/user_test.go:   *)
(* GetUserByExternalID and GetUserByID answer USER_NOT_FOUND for a        *)
(* missing row, AddUser stores the row it is given (only the id is a     *)
(* key), RemoveUser deletes the user and its GroupUserRelation rows.      *)
(* As in PolicyAPI, a repository write is one step and the reads before  *)
(* it are the step before.                                                *)
(***************************************************************************)
EXTENDS Naturals, Sequences, SequencesExt, FiniteSets

CONSTANTS ExternalIds, UserIds, Paths, UserOps, Reqs, MaxRequests, NewIds, NULL

VARIABLES users, members, groups, req, issued

LOCAL A == INSTANCE Authorizer WITH policies <- {}, attached <- {}, Star <- NULL

Done(r, code, body) ==
    req' = [req EXCEPT ![r].pc = "done", ![r].resp = [code |-> code, body |-> body]]

Goto(r, pc, obj) == req' = [req EXCEPT ![r].pc = pc, ![r].obj = obj]

(* repo GetUserByExternalID(externalID): USER_NOT_FOUND when no row has it. *)
UsersByExternalId(eid) == {u \in users : u.externalId = eid}

(* repo GetUsersFiltered(pathPrefix): path LIKE prefix%.                  *)
UsersFiltered(prefix) == {u \in users : IsPrefix(prefix, u.path)}

-----------------------------------------------------------------------------
(* GetUserByExternalId: the repository lookup, USER_NOT_FOUND mapped to   *)
(* USER_BY_EXTERNAL_ID_NOT_FOUND.                                          *)
GetUserByExternalIdStep(r) ==
    LET q == req[r] IN
    /\ q.pc = "GetUserByExternalId"
    /\ IF UsersByExternalId(q.user) = {}
       THEN Done(r, "USER_BY_EXTERNAL_ID_NOT_FOUND", NULL)
       ELSE \E u \in UsersByExternalId(q.user) : Done(r, "OK", u)
    /\ UNCHANGED <<users, members, groups, issued>>

(* GetListUsers: the users whose path starts with the prefix.             *)
GetListUsersStep(r) ==
    /\ req[r].pc = "GetListUsers"
    /\ Done(r, "OK", {u.externalId : u \in UsersFiltered(req[r].path)})
    /\ UNCHANGED <<users, members, groups, issued>>

(* Mutant of AddUserCheck: the existence check is skipped.                *)
AddUserCheckNoLookup(r) ==
    LET q == req[r] IN
    /\ q.pc = "AddUser"
    /\ Goto(r, "AddUser_insert", [id |-> NewIds[q.n], externalId |-> q.user, path |-> q.path])
    /\ UNCHANGED <<users, members, groups, issued>>

(* AddUser: an external id already stored is USER_ALREADY_EXIST; a        *)
(* USER_NOT_FOUND answer lets the insert go ahead.                         *)
AddUserCheck(r) ==
    LET q == req[r] IN
    /\ q.pc = "AddUser"
    /\ IF UsersByExternalId(q.user) # {}
       THEN Done(r, "USER_ALREADY_EXIST", NULL)
       ELSE Goto(r, "AddUser_insert",
                 [id |-> NewIds[q.n], externalId |-> q.user, path |-> q.path])
    /\ UNCHANGED <<users, members, groups, issued>>

(* repo AddUser(user): the row is stored under its id.                    *)
AddUserInsert(r) ==
    /\ req[r].pc = "AddUser_insert"
    /\ users' = users \cup {req[r].obj}
    /\ Done(r, "OK", req[r].obj)
    /\ UNCHANGED <<members, groups, issued>>

(* Mutant of RemoveUserById: the GroupUserRelation rows are kept.         *)
RemoveUserByIdKeepRelations(r) ==
    LET id == req[r].user IN
    /\ req[r].pc = "RemoveUserById"
    /\ \E u \in users : u.id = id
    /\ users' = {u \in users : u.id # id}
    /\ Done(r, "OK", NULL)
    /\ UNCHANGED <<members, groups, issued>>

(* RemoveUserById(id): repo RemoveUser deletes the user and its group     *)
(* relations.  On any repository error (a missing user is USER_NOT_FOUND, *)
(* or the database fails) the handler asserts err.(database.Error), but   *)
(* the repository returns *database.Error: the assertion panics and the   *)
(* request ends without an answer.                                        *)
RemoveUserById(r) ==
    LET id == req[r].user IN
    /\ req[r].pc = "RemoveUserById"
    /\ \/ /\ \E u \in users : u.id = id
          /\ users'   = {u \in users : u.id # id}
          /\ members' = {m \in members : m[1] # id}
          /\ Done(r, "OK", NULL)
       \/ /\ UNCHANGED <<users, members>>                  \* repository error
          /\ Done(r, "PANIC", NULL)
    /\ UNCHANGED <<groups, issued>>

(* GetGroupsByUserId(id): the repository result is returned as it is; a   *)
(* relation whose group is gone fails with INTERNAL_ERROR (user_test.go), *)
(* a database.Error that is not translated into an api.Error.             *)
GetGroupsByUserIdStep(r) ==
    /\ req[r].pc = "GetGroupsByUserId"
    /\ IF A!GroupsByUserIDFails(req[r].user)
       THEN Done(r, "INTERNAL_ERROR", NULL)
       ELSE Done(r, "OK", {g.id : g \in A!GroupsByUserID(req[r].user)})
    /\ UNCHANGED <<users, members, groups, issued>>

-----------------------------------------------------------------------------
(* Arguments: user is the external id, or the user id for RemoveUserById *)
(* and GetGroupsByUserId; path the user's path or the listing prefix.     *)
UserArgSet == [op \in {"GetUserByExternalId", "GetListUsers", "AddUser", "RemoveUserById",
                       "GetGroupsByUserId"} |->
    CASE op = "GetListUsers"   -> [user: {NULL}, path: Paths \cup {<<>>}]
      [] op = "AddUser"        -> [user: ExternalIds, path: Paths]
      [] op \in {"RemoveUserById", "GetGroupsByUserId"}
                               -> [user: UserIds, path: {NULL}]
      [] OTHER                 -> [user: ExternalIds, path: {NULL}]]

Start(r) ==
    /\ req[r].pc \in {"idle", "done"}
    /\ issued < MaxRequests
    /\ \E op \in UserOps : \E a \in UserArgSet[op] :
         req' = [req EXCEPT ![r] = [op |-> op, pc |-> op, user |-> a.user, org |-> NULL,
                                    n |-> issued + 1, name |-> NULL, newName |-> NULL,
                                    path |-> a.path, stmts |-> NULL, obj |-> NULL, resp |-> NULL]]
    /\ issued' = issued + 1
    /\ UNCHANGED <<users, members, groups>>

Step(r) ==
    \/ GetUserByExternalIdStep(r)
    \/ GetListUsersStep(r)
    \/ AddUserCheck(r) \/ AddUserInsert(r)
    \/ RemoveUserById(r)
    \/ GetGroupsByUserIdStep(r)
=============================================================================
