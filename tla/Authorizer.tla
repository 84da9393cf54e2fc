----------------------------- MODULE Authorizer -----------------------------
(***************************************************************************)
(* The Effective-Permission Resolver, the Decision Evaluator and the       *)
(* Authorization Filter (spec sections 4.3 - 4.5), evaluated over the      *)
(* store that the repository exposes.  GetPoliciesAuthorized, the filter   *)
(* that src/api/policy.go calls, is not in src/; the resolver's reads go   *)
(* through repository functions, of which GetAttachedPolicies is in        *)
(* src/database/postgresql/group.go and GetGroupsByUserID is pinned down   *)
(* by src/database/postgresql/user_test.go.                                *)
(*                                                                         *)
(* Store:  groups    set of [id, org, name, path, urn]                     *)
(*         policies  set of [id, org, name, path, urn, stmts]              *)
(*         members   set of <<userId, groupId>>  (GroupUserRelation)       *)
(*         attached  set of <<groupId, policyId>> (GroupPolicyRelation)    *)
(* A statement is [effect, actions, resources] with sets of patterns.      *)
(***************************************************************************)
EXTENDS Sequences, SequencesExt

CONSTANT Star

VARIABLES policies, groups, members, attached

LOCAL W == INSTANCE Wildcard

(* The organization a URN or a URN prefix is scoped to.                   *)
OrgOf(urn) == urn[3]

(* GetGroupsByUserID: every relation of the user is resolved with         *)
(* GetGroupById; a relation whose group is gone makes the whole call fail *)
(* with INTERNAL_ERROR (user_test.go, "ErrorCase").                        *)
GroupsByUserIDFails(u) ==
    \E m \in members : m[1] = u /\ ~\E g \in groups : g.id = m[2]

GroupsByUserID(u) == {g \in groups : <<u, g.id>> \in members}

(* GetAttachedPolicies(groupID): every relation is resolved with           *)
(* GetPolicyById; a relation whose policy is gone fails with               *)
(* INTERNAL_ERROR.                                                         *)
AttachedPoliciesFails(gid) ==
    \E a \in attached : a[1] = gid /\ ~\E p \in policies : p.id = a[2]

AttachedPolicies(gid) == {p \in policies : <<gid, p.id>> \in attached}

(* Resolver (4.3): the statements of the policies attached to the groups  *)
(* the principal belongs to within org; it fails if a repository read     *)
(* fails.                                                                  *)
ResolveFails(u, org) ==
    \/ GroupsByUserIDFails(u)
    \/ \E g \in GroupsByUserID(u) : g.org = org /\ AttachedPoliciesFails(g.id)

EffectiveStatements(u, org) ==
    UNION {p.stmts : p \in UNION {AttachedPolicies(g.id) :
                                     g \in {h \in GroupsByUserID(u) : h.org = org}}}

(* Decision Evaluator (4.4): deny overrides, default deny.                 *)
Evaluate(stmts, action, urn) ==
    LET applicable == {s \in stmts : /\ \E a \in s.actions : W!Matches(a, action)
                                     /\ \E q \in s.resources : W!Matches(q, urn)}
    IN  IF \E s \in applicable : s.effect = "Deny" THEN "Deny"
        ELSE IF \E s \in applicable : s.effect = "Allow" THEN "Allow"
        ELSE "Deny"

(* A reference ending in Star is a listing prefix and is what statements  *)
(* are compared with; otherwise each candidate's own URN is.               *)
CompareUrn(ref, c) == IF ref[Len(ref)] = Star THEN ref ELSE c.urn

(* Authorization Filter (4.5): the candidates allowed, in input order.     *)
Authorize(u, ref, action, cands) ==
    LET stmts == EffectiveStatements(u, OrgOf(ref))
    IN  SelectSeq(cands, LAMBDA c : Evaluate(stmts, action, CompareUrn(ref, c)) = "Allow")

(* How a caller in src/api/policy.go reads a call of the filter: its error *)
(* is returned as is, an empty result is UNAUTHORIZED_RESOURCES_ERROR.     *)
AuthCode(u, ref, action, cands) ==
    CASE ResolveFails(u, OrgOf(ref))           -> "UNKNOWN_API_ERROR"
      [] Authorize(u, ref, action, cands) = <<>> -> "UNAUTHORIZED_RESOURCES_ERROR"
      [] OTHER                                  -> "OK"
=============================================================================
