------------------------------ MODULE PolicyAPI ------------------------------
(***************************************************************************)
(* The policy handlers of src/api/policy.go run by concurrent requests.    *)
(* Each request occupies a slot of Reqs (a goroutine of the HTTP server);  *)
(* every repository write is one atomic step and the reads that precede   *)
(* it (repository reads and GetPoliciesAuthorized calls, in the order of   *)
(* the handler, with its early returns) form one step before it.  A       *)
(* handler that only reads is a single step.                               *)
(***************************************************************************)
EXTENDS Naturals, Sequences, SequencesExt, FiniteSets

CONSTANTS
    Users,          \* authenticated principals
    Orgs,           \* organizations requests name
    Names,          \* policy names requests use
    Paths,          \* valid paths requests use
    StmtChoices,    \* statement lists requests submit (already validated)
    PolicyOps,      \* the handlers clients call in this model
    Reqs,           \* request slots (concurrent HTTP requests)
    MaxRequests,    \* bound on the number of requests issued
    NewIds,         \* NewIds[k]: the uuid createPolicy draws in request k
    InitPolicies, InitGroups, InitMembers, InitAttached,
    Star,
    NULL

ASSUME Len(NewIds) >= MaxRequests

VARIABLES
    policies, groups, members, attached,  \* the repository
    req,        \* req[r]: the request in slot r
    issued,     \* requests issued so far
    writer      \* history: the user whose request last changed the store

store == <<policies, groups, members, attached>>
vars  == <<policies, groups, members, attached, req, issued, writer>>

LOCAL U == INSTANCE Urn
A == INSTANCE Authorizer

RESOURCE_POLICY == "policy"
PolicyAction(verb) == <<"policy", ":", verb>>
POLICY_ACTION_GET_POLICY            == PolicyAction("get")
POLICY_ACTION_LIST_POLICIES         == PolicyAction("list")
POLICY_ACTION_CREATE_POLICY         == PolicyAction("create")
POLICY_ACTION_UPDATE_POLICY         == PolicyAction("update")
POLICY_ACTION_DELETE_POLICY         == PolicyAction("delete")
POLICY_ACTION_LIST_ATTACHED_GROUPS  == PolicyAction("listAttachedGroups")

Done(r, code, body) ==
    req' = [req EXCEPT ![r].pc = "done", ![r].resp = [code |-> code, body |-> body]]

Goto(r, pc, obj) == req' = [req EXCEPT ![r].pc = pc, ![r].obj = obj]

(* History only: a write that changes the store records its requester.    *)
RecordWriter(r) ==
    writer' = IF policies' = policies /\ attached' = attached THEN writer ELSE req[r].user

(* createPolicy: a fresh uuid and the URN derived from org, path, name.   *)
createPolicy(id, name, path, org, stmts) ==
    [id |-> id, name |-> name, path |-> path, org |-> org,
     urn |-> U!CreateUrn(org, RESOURCE_POLICY, path, name), stmts |-> stmts]

(* repo GetPolicyByName(org, name): First() among the matching rows.      *)
PoliciesByName(org, name) == {p \in policies : p.org = org /\ p.name = name}

(* AuthAPI.GetPolicyByName: the possible [code, pol] results.  The repo   *)
(* lookup comes first, so a missing policy is NOT_FOUND whoever asks;    *)
(* then the filter is called with GET on the policy's URN.                *)
GetPolicyByName(u, org, name) ==
    IF PoliciesByName(org, name) = {}
    THEN {[code |-> "POLICY_BY_ORG_AND_NAME_NOT_FOUND", pol |-> NULL]}
    ELSE {[code |-> A!AuthCode(u, p.urn, POLICY_ACTION_GET_POLICY, <<p>>),
           pol  |-> p] : p \in PoliciesByName(org, name)}

-----------------------------------------------------------------------------
(* Handler steps.  req[r] holds the handler, its arguments, its pc, the   *)
(* policy it carries between steps and the response once done.           *)

GetPolicyByNameStep(r) ==
    LET q == req[r] IN
    /\ q.pc = "GetPolicyByName"
    /\ \E o \in GetPolicyByName(q.user, q.org, q.name) :
          Done(r, o.code, IF o.code = "OK" THEN o.pol.id ELSE NULL)
    /\ UNCHANGED <<store, issued, writer>>

(* GetListPolicies: an empty prefix means "/"; the repository returns the *)
(* org's policies whose path starts with the prefix; the filter is asked  *)
(* with LIST on the URN prefix.                                           *)
GetListPoliciesStep(r) ==
    LET q      == req[r]
        prefix == IF q.path = <<>> THEN <<"/">> ELSE q.path
        found  == SetToSeq({p \in policies : p.org = q.org /\ IsPrefix(prefix, p.path)})
        ref    == U!GetUrnPrefix(q.org, RESOURCE_POLICY, prefix)
    IN
    /\ q.pc = "GetListPolicies"
    /\ IF A!ResolveFails(q.user, q.org)
       THEN Done(r, "UNKNOWN_API_ERROR", NULL)
       ELSE Done(r, "OK", {<<p.org, p.name>> :
                     p \in ToSet(A!Authorize(q.user, ref, POLICY_ACTION_LIST_POLICIES, found))})
    /\ UNCHANGED <<store, issued, writer>>

(* Mutant of AddPolicyCheck: the result of the CREATE check is ignored.  *)
AddPolicyCheckNoAuth(r) ==
    LET q   == req[r]
        pol == createPolicy(NewIds[q.n], q.name, q.path, q.org, q.stmts)
    IN
    /\ q.pc = "AddPolicy"
    /\ IF PoliciesByName(q.org, q.name) # {}
       THEN Done(r, "POLICY_ALREADY_EXIST", NULL)
       ELSE Goto(r, "AddPolicy_insert", pol)
    /\ UNCHANGED <<store, issued, writer>>

(* AddPolicy up to the insert: authorize CREATE on the new policy, then   *)
(* look the name up; only a missing name lets the insert happen.          *)
AddPolicyCheck(r) ==
    LET q   == req[r]
        pol == createPolicy(NewIds[q.n], q.name, q.path, q.org, q.stmts)
        auth == A!AuthCode(q.user, pol.urn, POLICY_ACTION_CREATE_POLICY, <<pol>>)
    IN
    /\ q.pc = "AddPolicy"
    /\ CASE auth # "OK"                       -> Done(r, auth, NULL)
         [] PoliciesByName(q.org, q.name) # {} -> Done(r, "POLICY_ALREADY_EXIST", NULL)
         [] OTHER                              -> Goto(r, "AddPolicy_insert", pol)
    /\ UNCHANGED <<store, issued, writer>>

(* repo AddPolicy(policy).                                                *)
AddPolicyInsert(r) ==
    /\ req[r].pc = "AddPolicy_insert"
    /\ policies' = policies \cup {req[r].obj}
    /\ Done(r, "OK", req[r].obj.id)
    /\ UNCHANGED <<groups, members, attached, issued>>
    /\ RecordWriter(r)

(* Mutant of UpdatePolicyCheck: the lookup of the new name only passes   *)
(* its errors on; a different policy holding the name is not a conflict.  *)
UpdatePolicyCheckNoConflict(r) ==
    LET q == req[r] IN
    /\ q.pc = "UpdatePolicy"
    /\ \E o \in GetPolicyByName(q.user, q.org, q.name),
          t \in GetPolicyByName(q.user, q.org, q.newName) :
         LET policyDB == o.pol
             toUpdate == createPolicy(NewIds[q.n], q.newName, q.path, q.org, q.stmts)
             authOld  == A!AuthCode(q.user, policyDB.urn, POLICY_ACTION_UPDATE_POLICY, <<policyDB>>)
             authNew  == A!AuthCode(q.user, toUpdate.urn, POLICY_ACTION_UPDATE_POLICY, <<toUpdate>>)
         IN  CASE o.code # "OK"   -> Done(r, o.code, NULL)
               [] authOld # "OK"  -> Done(r, authOld, NULL)
               [] t.code \in {"UNAUTHORIZED_RESOURCES_ERROR", "UNKNOWN_API_ERROR"}
                                  -> Done(r, t.code, NULL)
               [] authNew # "OK"  -> Done(r, authNew, NULL)
               [] OTHER           -> Goto(r, "UpdatePolicy_write", policyDB)
    /\ UNCHANGED <<store, issued, writer>>

(* UpdatePolicy up to the repository write: GetPolicyByName (GET on the   *)
(* old URN), UPDATE on the old URN, GetPolicyByName of the new name (a    *)
(* different policy there is a conflict, UNAUTHORIZED or UNKNOWN from it  *)
(* is returned, NOT_FOUND goes on), UPDATE on the URN the new name and    *)
(* path give.                                                             *)
UpdatePolicyCheck(r) ==
    LET q == req[r] IN
    /\ q.pc = "UpdatePolicy"
    /\ \E o \in GetPolicyByName(q.user, q.org, q.name),
          t \in GetPolicyByName(q.user, q.org, q.newName) :
         LET policyDB == o.pol
             toUpdate == createPolicy(NewIds[q.n], q.newName, q.path, q.org, q.stmts)
             authOld  == A!AuthCode(q.user, policyDB.urn, POLICY_ACTION_UPDATE_POLICY, <<policyDB>>)
             authNew  == A!AuthCode(q.user, toUpdate.urn, POLICY_ACTION_UPDATE_POLICY, <<toUpdate>>)
         IN  CASE o.code # "OK"   -> Done(r, o.code, NULL)
               [] authOld # "OK"  -> Done(r, authOld, NULL)
               [] t.code = "OK" /\ t.pol.id # policyDB.id
                                  -> Done(r, "POLICY_ALREADY_EXIST", NULL)
               [] t.code \in {"UNAUTHORIZED_RESOURCES_ERROR", "UNKNOWN_API_ERROR"}
                                  -> Done(r, t.code, NULL)
               [] authNew # "OK"  -> Done(r, authNew, NULL)
               [] OTHER           -> Goto(r, "UpdatePolicy_write", policyDB)
    /\ UNCHANGED <<store, issued, writer>>

(* Mutant of UpdatePolicyWrite: new name and new path passed swapped.     *)
UpdatePolicyWriteSwapped(r) ==
    LET q == req[r] IN
    /\ q.pc = "UpdatePolicy_write"
    /\ policies' = {IF p.id = q.obj.id
                    THEN [p EXCEPT !.name  = q.path, !.path = q.newName,
                                   !.urn   = U!CreateUrn(q.org, RESOURCE_POLICY, q.path, q.newName),
                                   !.stmts = q.stmts]
                    ELSE p : p \in policies}
    /\ Done(r, "OK", q.obj.id)
    /\ UNCHANGED <<groups, members, attached, issued>>
    /\ RecordWriter(r)

(* repo UpdatePolicy(policyDB, newName, newPath, urn, statements): the row *)
(* with policyDB's id gets the new name, path, URN and statements; as     *)
(* with UpdateGroup, a row that is gone is left alone without an error.   *)
UpdatePolicyWrite(r) ==
    LET q == req[r] IN
    /\ q.pc = "UpdatePolicy_write"
    /\ policies' = {IF p.id = q.obj.id
                    THEN [p EXCEPT !.name  = q.newName, !.path = q.path,
                                   !.urn   = U!CreateUrn(q.org, RESOURCE_POLICY, q.path, q.newName),
                                   !.stmts = q.stmts]
                    ELSE p : p \in policies}
    /\ Done(r, "OK", q.obj.id)
    /\ UNCHANGED <<groups, members, attached, issued>>
    /\ RecordWriter(r)

(* DeletePolicy up to the removal: GetPolicyByName, then DELETE.          *)
DeletePolicyCheck(r) ==
    LET q == req[r] IN
    /\ q.pc = "DeletePolicy"
    /\ \E o \in GetPolicyByName(q.user, q.org, q.name) :
         LET auth == A!AuthCode(q.user, o.pol.urn, POLICY_ACTION_DELETE_POLICY, <<o.pol>>)
         IN  CASE o.code # "OK" -> Done(r, o.code, NULL)
               [] auth # "OK"   -> Done(r, auth, NULL)
               [] OTHER         -> Goto(r, "DeletePolicy_write", o.pol)
    /\ UNCHANGED <<store, issued, writer>>

(* repo RemovePolicy(id): the policy and its group relations go in one    *)
(* transaction (spec 3, Lifecycle: deletion cascades).                    *)
RemovePolicy(r) ==
    LET id == req[r].obj.id IN
    /\ req[r].pc = "DeletePolicy_write"
    /\ policies' = {p \in policies : p.id # id}
    /\ attached' = {a \in attached : a[2] # id}
    /\ Done(r, "OK", NULL)
    /\ UNCHANGED <<groups, members, issued>>
    /\ RecordWriter(r)

(* GetPolicyAttachedGroups: GetPolicyByName, LIST_ATTACHED_GROUPS, then   *)
(* GetAllPolicyGroupRelation, which resolves every relation to its group  *)
(* and fails when one is gone (as GetAttachedPolicies does).              *)
GetPolicyAttachedGroupsStep(r) ==
    LET q == req[r] IN
    /\ q.pc = "GetPolicyAttachedGroups"
    /\ \E o \in GetPolicyByName(q.user, q.org, q.name) :
         LET auth == A!AuthCode(q.user, o.pol.urn, POLICY_ACTION_LIST_ATTACHED_GROUPS, <<o.pol>>)
             rels == {a \in attached : a[2] = o.pol.id}
         IN  CASE o.code # "OK" -> Done(r, o.code, NULL)
               [] auth # "OK"   -> Done(r, auth, NULL)
               [] \E a \in rels : ~\E g \in groups : g.id = a[1]
                                -> Done(r, "UNKNOWN_API_ERROR", NULL)
               [] OTHER         -> Done(r, "OK", {<<g.org, g.name>> :
                                         g \in {h \in groups : <<h.id, o.pol.id>> \in rels}})
    /\ UNCHANGED <<store, issued, writer>>

-----------------------------------------------------------------------------
(* Arguments of each handler; input validation is not modelled, every    *)
(* argument is valid.  An empty path prefix is allowed for listing.       *)
ArgSet == [op \in {"GetPolicyByName", "GetListPolicies", "AddPolicy", "UpdatePolicy",
                   "DeletePolicy", "GetPolicyAttachedGroups"} |->
    CASE op = "GetListPolicies" ->
              [name: {NULL}, newName: {NULL}, path: Paths \cup {<<>>}, stmts: {NULL}]
      [] op = "AddPolicy" ->
              [name: Names, newName: {NULL}, path: Paths, stmts: StmtChoices]
      [] op = "UpdatePolicy" ->
              [name: Names, newName: Names, path: Paths, stmts: StmtChoices]
      [] OTHER ->
              [name: Names, newName: {NULL}, path: {NULL}, stmts: {NULL}]]

Idle(r) == req[r].pc \in {"idle", "done"}

(* A client sends a request to a free slot.                               *)
Start(r) ==
    /\ Idle(r)
    /\ issued < MaxRequests
    /\ \E op \in PolicyOps, u \in Users, org \in Orgs : \E a \in ArgSet[op] :
         req' = [req EXCEPT ![r] = [op |-> op, pc |-> op, user |-> u, org |-> org, n |-> issued + 1,
                                    name |-> a.name, newName |-> a.newName,
                                    path |-> a.path, stmts |-> a.stmts,
                                    obj |-> NULL, resp |-> NULL]]
    /\ issued' = issued + 1
    /\ UNCHANGED <<store, writer>>

(* Every request issued has been answered: nothing more happens.           *)
Quiescent ==
    /\ issued = MaxRequests
    /\ \A r \in Reqs : Idle(r)
    /\ UNCHANGED vars

EmptyReq == [op |-> NULL, pc |-> "idle", user |-> NULL, org |-> NULL, n |-> 0, name |-> NULL,
             newName |-> NULL, path |-> NULL, stmts |-> NULL, obj |-> NULL, resp |-> NULL]

Init ==
    /\ policies = InitPolicies
    /\ groups   = InitGroups
    /\ members  = InitMembers
    /\ attached = InitAttached
    /\ req      = [r \in Reqs |-> EmptyReq]
    /\ issued   = 0
    /\ writer   = NULL

Step(r) ==
    \/ GetPolicyByNameStep(r)
    \/ GetListPoliciesStep(r)
    \/ AddPolicyCheck(r)
    \/ AddPolicyInsert(r)
    \/ UpdatePolicyCheck(r)
    \/ UpdatePolicyWrite(r)
    \/ DeletePolicyCheck(r)
    \/ RemovePolicy(r)
    \/ GetPolicyAttachedGroupsStep(r)

Next ==
    \/ \E r \in Reqs : Start(r) \/ Step(r)
    \/ Quiescent

Spec == Init /\ [][Next]_vars

-----------------------------------------------------------------------------
TypeOK ==
    /\ \A p \in policies : /\ DOMAIN p = {"id", "org", "name", "path", "urn", "stmts"}
                            /\ p.org \in Orgs /\ p.path \in Paths
    /\ members  \subseteq Users \X {g.id : g \in InitGroups}
    /\ attached \subseteq {g.id : g \in InitGroups} \X
                          ({p.id : p \in InitPolicies} \cup ToSet(NewIds))
    /\ \A r \in Reqs : req[r].pc \in
          {"idle", "done", "AddPolicy_insert", "UpdatePolicy_write", "DeletePolicy_write"}
          \cup DOMAIN ArgSet
    /\ issued \in 0..MaxRequests

(* Spec 3: a policy is unique per (org, name).  AddPolicy and UpdatePolicy *)
(* look the name up before they write; this says the lookups are enough, *)
(* whatever other requests do in between.                                  *)
PolicyNameUnique ==
    \A p, q \in policies : p.org = q.org /\ p.name = q.name => p.id = q.id

(* Spec 6: the policy handlers implement PolicyStore, in which every       *)
(* AddPolicy, UpdatePolicy and DeletePolicy is one atomic change,          *)
(* authorized against the store at the moment the change is made and      *)
(* leaving names unique; the lookups and filter calls the handlers make   *)
(* before their repository write must add up to those guards.             *)
Store == INSTANCE PolicyStore
PolicyStoreRefinement == Store!Spec
=============================================================================
