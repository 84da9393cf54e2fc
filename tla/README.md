# TLA+ models of foulkon

Model-checked specifications of the authorization core of foulkon: the policy
handlers (`src/api/policy.go`), the user handlers (`src/api/user.go`), the
group repository (`src/database/postgresql/group.go`), the HTTP group handlers
(`src/http/group.go`), and the policy engine they call.  The engine is the
wildcard matcher, the policy resolver, the decision evaluator and the
authorization filter.  It is described in `spec.md` but is not under `src/`.

## The system

| Part | Source | State | Operations |
|---|---|---|---|
| Policy API | `src/api/policy.go` | the policy table (repository not in `src/`) | GetPolicyByName, GetListPolicies, AddPolicy, UpdatePolicy, DeletePolicy, GetPolicyAttachedGroups |
| Group repository | `src/database/postgresql/group.go` | group table, GroupUserRelation, GroupPolicyRelation | AddGroup, GetGroupByName, GetGroupsFiltered, UpdateGroup, RemoveGroup (transaction), AddMember, RemoveMember, IsMemberOfGroup, AttachPolicy, IsAttachedToGroup, GetAttachedPolicies |
| HTTP group handlers | `src/http/group.go` | none | create, get, list, update and delete a group; add and remove a member; list members; attach a policy (each calls GroupApi) |
| User repository tests | `src/database/postgresql/user_test.go` | user table, GroupUserRelation | pin down the user repository: lookups answer USER_NOT_FOUND, only the id is a key, RemoveUser deletes the user's relations, GetGroupsByUserID fails when a relation's group is gone (lines 640-655) |
| User API | `src/api/user.go` | user table | GetUserByExternalId, GetListUsers, AddUser, RemoveUserById, GetGroupsByUserId |
| Core wiring | `src/authorizr/core.go` | none | NewCore |
| Engine (spec 4) | not in `src/` | none | Matches, resolver, evaluator, GetPoliciesAuthorized |

How the parts interact:

- Every policy handler calls `GetPoliciesAuthorized`.
- That filter resolves the caller's groups (GetGroupsByUserID).
- It then resolves the policies attached to those groups (GetAttachedPolicies).
- It evaluates their statements with the wildcard matcher.
- The group handlers change exactly the relations that this resolution reads.
- AddMember and RemoveMember resolve the user by external id in the user
  table, and RemoveUserById deletes the user's memberships.

So a group operation can change what a later policy operation is allowed to
do. It can also make that operation fail.

The HTTP server runs each request in its own goroutine, and no handler takes a
lock. Handlers therefore interleave at every repository call.

## Modules

| Module | Models | Kind |
|---|---|---|
| `Wildcard` | the pattern matcher (spec 4.2): `Segments`, `InOrder`, `Matches`, and the reference `MatchesRef` | pure operators (RECURSIVE) |
| `Urn` | `CreateUrn`, `GetUrnPrefix` (spec 3) | pure operators |
| `Authorizer` | the resolver over the store, with its failure on a dangling relation (group.go 332-363, user_test.go 577-656); the evaluator (deny overrides, default deny) and the filter (`AuthCode` is how policy.go handles its result) | operators over the store variables |
| `PolicyAPI` | the six policy handlers as steps of concurrent requests | state machine |
| `PolicyStore` | what the policy API promises: atomic, authorized Create, Update and Delete that keep names unique | abstract spec |
| `GroupAPI` | the six mutating group handlers, each a check step and a repository write, and the reads ListMembers, GetGroupByName and GetListGroups; the repository's SQL `LIKE` (`Like`) | state machine |
| `GroupStore` | what the group handlers promise: whole Create, Update, Delete, Join, Leave and Attach operations that keep names unique and URNs derived | abstract spec |
| `UserAPI` | the five UsersAPI operations over the user table (repository behaviour from user_test.go) | state machine |
| `Foulkon` | PolicyAPI, GroupAPI and UserAPI over one store and shared request slots | composition |
| `MC_Wildcard`, `MC_PolicyAPI`, `MC_Foulkon` | constants for TLC, and MC_Wildcard's enumeration | model instances |

### Correspondence with the code

- **Data.** Strings are sequences of symbols. An organization, a resource type
  or a name is one symbol, so `urn:A:policy:/x/dev` is
  `<<"urn",":","A",":","policy",":","/","x","/","dev">>`.
- **Statements.** A statement is `[effect, actions, resources]`, where actions
  and resources are sets of patterns.
- **Request slots.** `req[r]` is the request in slot `r`: the handler, its
  arguments, its `pc`, the object carried between its steps, and its response.
  `issued` counts requests, bounded by `MaxRequests`. `NewIds[n]` is the uuid
  drawn by the n-th request.
- **Steps.** Each repository write is one step. The reads before it are merged
  into the preceding step, together with the filter calls and the early
  returns, in the handler's order. These are AddPolicyCheck, UpdatePolicyCheck,
  DeletePolicyCheck, AddGroupCheck and so on. A handler that only reads is a
  single step.
- **Why that split is enough.** Merging the reads is sound for the properties
  checked. Every hazard found lies between the last read and the write, and
  that gap is kept.
- **Group names and LIKE.** The repository looks groups up with
  `org like ? AND name like ?` and lists them with `path like ?` on the
  prefix followed by `%`. A group name is therefore spelled out as a sequence
  of characters (`<<"d","e","v","s">>`), and `Like` is SQL's LIKE: `_` stands
  for one character, `%` for any run. First() returns the first matching row
  by primary key; the model lets the lookup return any matching row. Orgs
  stay single symbols without wildcard characters, for which LIKE is
  equality. The validators that decide whether `_` may appear in a name are
  not in `src/`, and spec 3 leaves the character set open.
- **GroupAPI is spec-modelled.** The GroupAPI layer between `src/http/group.go`
  and the repository is not in `src/`. Its checks follow spec 6 (look the
  objects up, return the domain error, then mutate) and the error codes the
  HTTP handlers expect. These definitions are marked `spec_modelled` in
  PROJECT.json. The repository writes are translated from group.go.
- **`RemoveGroup` has three outcomes.** It is one transaction with two
  deletes, and the model gives it three results:
  - the commit removes the group and its memberships (its attachments stay);
  - a failed delete changes nothing, yet still answers OK;
  - a failed `Begin` answers with an error.
- **`UpdateGroup` on a vanished row.** It writes by id. When the row has gone
  meanwhile it changes nothing and still answers OK, because the code's
  `RecordNotFound` check after `Update` never fires.
- **Users.** A user row is `[id, externalId, path]`. The stored users alice
  and bob have ids equal to the principals the policy requests run as.
  Memberships hold user ids. AddMember and RemoveMember take an external id,
  as the HTTP handler passes it, and resolve it first.
- **`RemoveUserById` panics on every repository error.** It asserts
  `err.(database.Error)`, but the repository returns `*database.Error`. The
  model gives a repository error (a missing user, or a database failure) the
  outcome `PANIC`: no answer, no change.
- **`ListMembers`** fails when one of the group's relations names a user row
  that is gone, because GetGroupMembers calls GetUserByID for each member.
- **No group authorization.** The group handlers pass no authenticated user,
  so no group step calls the filter.
- **`writer` is a history variable.** It records the user whose request last
  changed the policies. It exists only for the refinement mapping to
  `PolicyStore`.
- **Refinement mapping to `GroupStore`.** Groups, memberships, users and
  policies map to themselves. Attachments map to those of stored groups: the
  rows RemoveGroup leaves behind are read by no handler, because
  GetAttachedPolicies starts from a group id and ids are never reused. (That
  RemoveGroup leaves them is the separate finding of remove_group_relations.)
  Steps of the user and policy handlers are GroupStore's `UsersChange` and
  `PoliciesChange`.
- **`Quiescent`.** It is the stutter step taken once every request has been
  answered. Deadlock is checked in every run except MC_Wildcard, whose
  enumeration of inputs ends.

## Runs

| Run | cfg | Expect | Checks |
|---|---|---|---|
| matcher | `MC_Wildcard.cfg` | pass | `Matches` agrees with the reference glob definition on every pattern and literal over {a, b, *} up to length 5 |
| policy_sequential | `MC_PolicyAPI.cfg` | pass | with one request at a time in orgs A and B, the policy handlers keep (org, name) unique and refine `PolicyStore` |
| policy_dup_add | `MC_PolicyAPI_dupadd.cfg` | violation | two concurrent AddPolicy requests both insert the same name |
| policy_stale_auth | `MC_PolicyAPI_staleauth.cfg` | violation | a concurrent UpdatePolicy writes a policy its requester could not update at the time of the write |
| all_sequential | `MC_Foulkon.cfg` | pass | policy, group and user handlers, one at a time: refine `GroupStore`; group names and external ids unique, every member's user stored, every principal resolvable |
| remove_group_relations | `MC_Foulkon_relint.cfg` | violation | RemoveGroup leaves its policy attachments behind |
| remove_group_masked | `MC_Foulkon_masked.cfg` | violation | RemoveGroup answers OK while the group is still there |
| member_vs_remove | `MC_Foulkon_lockout.cfg` | violation | AddMember racing RemoveGroup leaves a membership of a deleted group, after which every authorization of that user fails |
| update_vs_remove | `MC_Foulkon_updremove.cfg` | violation | an UpdateGroup whose group is removed between its lookup and its write answers OK |
| attach_vs_delete | `MC_Foulkon_attachdelete.cfg` | violation | AttachPolicyToGroup racing DeletePolicy leaves an attachment of a deleted policy, which locks out the group's members |
| like_remove | `MC_Foulkon_like.cfg` | violation | RemoveGroup of the name `dev_` removes the group `devs` and its memberships |
| remove_user_panic | `MC_Foulkon_rmuser.cfg` | violation | RemoveUserById panics on a repository error instead of answering |

### What the violations show

The findings in PROJECT.json give the details.

- AddPolicy, AddUser and AddGroup are check-then-insert. policy_dup_add shows
  the race; AddUser's and AddGroup's are the same shape and have no run of
  their own.
- A group name is a LIKE pattern to the repository. A request naming `dev_`
  removes, renames, adds members to or attaches policies to the group `devs`
  of the same org.
- UpdatePolicy authorizes against a read it does not hold.
- RemoveGroup does not cascade to attachments, which spec 2 requires.
- RemoveGroup cannot see statement errors: it reads `transaction.Error` and
  ignores Commit.
- A membership inserted after its group is deleted locks the user out. So
  does an attachment inserted after its policy is deleted. A membership
  inserted after its user is deleted, which is the same stale insert, breaks
  ListMembers (`MembersResolvable`).
- UpdateGroup reports success for a group that is gone: the `RecordNotFound`
  check after `Update` never fires.
- RemoveUserById panics on every repository error.

### Properties

- **`PolicyStoreRefinement`** (`Store!Spec`) is the central property. Each
  change to the policies must be a `PolicyStore` step by the user who made it,
  and that user must be allowed to make it against the store at that moment.
- **`ResolverAvailable`** says the filter can resolve every user's groups and
  their policies. When it fails, that user can do nothing.
- **`UpdateGroupTruthful`** is an action property, checked only in
  update_vs_remove. A step that answers OK to an UpdateGroup leaves a group
  with that id, the new name and the new path. With one request at a time
  the row cannot vanish before the write, so it says nothing there.
- **`GroupStoreRefinement`** (`Groups!Spec`) says every step changes the
  groups and their relations by one whole `GroupStore` operation.
- **`GroupWritesNamed`** is an action property. A step that removes or
  rewrites a group row, or adds a membership or attachment, belongs to a
  request that names that group's org and name. It is checked only in
  like_remove: without a `_` in a name, LIKE is equality and the property
  restates the lookup.
- **`MembersResolvable`** says every membership names a stored user.
- **`RelationIntegrity`** and **`RemoveGroupTruthful`** state what spec 2 and
  the RemoveGroup API say of deletion.

Each property of a passing run has a mutant in PROJECT.json: a plausible bug
in the mapped definition that the property catches.

## Bounds

The store is organization A with two groups and two policies:

- `admins` (alice) has a policy allowing everything;
- `devs` (bob) has a policy allowing policy actions under `/x/`, with a deny
  on deleting itself.

In policy_sequential, alice's statement covers `urn:*`, every org. A second
organization, B, has a group `admins` of bob with a policy allowing
everything in B. Requests name either org. alice's statement matches every
URN of B, so only the filter's scoping by org keeps her out of B. The
filter is modelled from the spec, so that scoping is an assumption of the
model rather than something it checks. The race runs keep to org A.

The composed runs (MC_Foulkon) also store org B, with a group `admins` of
bob and a policy `adm` allowing everything in B. These have the same names
as org A's rows. Requests name only org A, so every lookup by org and name
passes over a row with the same name in another org. This is a check of
`GroupStoreRefinement`, `GroupNameUnique` and `ResolverAvailable` with
foreign rows present. Letting requests name B
as well multiplies all_sequential to 6.3 million states and 11.5 minutes,
and adds no handler path: the group handlers take the org only as a lookup
key.

Requests use:

- the policy names adm, dev and m;
- the group names admins, devs and ops, and in like_remove `dev_`;
- the paths `/` and `/x/`;
- the external ids ealice, ebob and ecarol (the last not stored yet);
- two statement lists.

This is enough for a request to create, rename onto, or move a policy across
the boundary of the permission that governs it. It also lets a request delete
the policy that grants that permission.

| Runs | Requests (`MaxRequests`) | Slots |
|---|---|---|
| sequential runs | 3 (policy) or 4 (groups) | 1 |
| race runs | 2 | 2 |

Every race found needs two requests. The sequential runs reach every handler
outcome: policy_sequential reaches 742961 distinct states and all_sequential
807704.

## Fairness

None is assumed, and no liveness property is checked. The handlers contain no
loops, locks or retries, so every request ends after at most two steps in
every behaviour. The useful question is what state a request leaves behind,
and that is a safety question.

## Not modelled

- **`DetachPolicy` and the other stub handlers.** `handleDetachGroupPolicy`,
  `handleListAttachedGroupPolicies` and `handleListAllGroups` have empty
  bodies.
- **Pagination** (offset and limit).
- **JSON decoding and HTTP status mapping.** This is plumbing, out of scope in
  spec 1.
- **Input validators.** Every argument in the model is valid.
- **Paths with `_`.** Listings are checked with the paths `/` and `/x/`. A
  `_` in a prefix would show the LIKE defect of like_remove again, on
  listings.
- **`GetGroupById` and `DetachPolicy`** of the group repository. Nothing in
  `src/` calls them.
- **`UpdateUser` and `GetUserByID` of the user repository.** No handler in
  `src/` calls them.
- **`GetGroupsByUserId` returns an untranslated `*database.Error`.** No
  caller is in `src/`, so it is listed as a hazard only.
- **NewCore.** It runs once at start-up. It leaves GroupApi and Policyapi nil,
  which is listed as a hazard.

## Further work

- **Requests in two orgs in the composed runs.** This needs a state-space
  reduction first, for example a symmetry between the orgs once the initial
  rows are made symmetric.
- **The existence leak of GetPolicyByName** (policy.go:60). This is a
  property of two behaviours: the answer differs by whether the name exists,
  for a caller allowed neither. TLC checks one behaviour at a time. A
  self-composed model, with two stores differing in one policy, could check
  it.

## Properties left out

Some candidate properties only restate one line of the model in the runs
that can check them, so no run checks them:

- **URNs derived from org, path and name** (policies and groups). Each write
  sets the URN with `CreateUrn`. Only editing that line can break it.
- **Cross-org isolation of policy changes.** It follows from
  `PolicyStoreRefinement` and the spec-modelled filter's own org clause.
- **No attachment across orgs.** Both lookups filter by the request's org.
  Orgs are single symbols, for which LIKE is equality.
- **Exact listings by prefix.** The paths hold no `_`, so `path like
  prefix%` is a prefix test.
