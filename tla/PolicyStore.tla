----------------------------- MODULE PolicyStore -----------------------------
(***************************************************************************)
(* What the policy API promises (spec section 6, Domain API surface):     *)
(* every change to the policies is one atomic operation, authorized by    *)
(* the filter against the store as it is when the change happens, and    *)
(* keeps (org, name) unique.  The store changes only by                   *)
(*   Create  a policy whose name is free, with CREATE on its URN;         *)
(*   Update  a policy with GET and UPDATE on its URN and UPDATE on the    *)
(*           URN of its new name and path, the new name being free;       *)
(*   Delete  a policy with GET and DELETE on its URN, with its relations. *)
(***************************************************************************)
EXTENDS Sequences, SequencesExt

CONSTANTS Users, Orgs, Names, Paths, StmtChoices, NewIds,
          InitPolicies, InitGroups, InitMembers, InitAttached, Star, NULL

VARIABLES policies, groups, members, attached,
          writer  \* the user whose operation made the last change

LOCAL U == INSTANCE Urn
LOCAL A == INSTANCE Authorizer

Allowed(u, action, urn) == A!AuthCode(u, urn, action, <<[urn |-> urn]>>) = "OK"

Act(verb) == <<"policy", ":", verb>>

NameFree(org, name, self) ==
    \A q \in policies : q.org = org /\ q.name = name => q.id = self

Create(u, org, name, path, st) ==
    LET urn == U!CreateUrn(org, "policy", path, name) IN
    /\ \E id \in ToSet(NewIds) \ {p.id : p \in policies} :
          policies' = policies \cup {[id |-> id, org |-> org, name |-> name, path |-> path,
                                      urn |-> urn, stmts |-> st]}
    /\ UNCHANGED attached
    /\ writer' = u
    /\ NameFree(org, name, NULL)
    /\ Allowed(u, Act("create"), urn)

Update(u, p, name, path, st) ==
    LET urn == U!CreateUrn(p.org, "policy", path, name) IN
    /\ policies' = (policies \ {p}) \cup
                   {[p EXCEPT !.name = name, !.path = path, !.urn = urn, !.stmts = st]}
    /\ UNCHANGED attached
    /\ writer' = u
    /\ NameFree(p.org, name, p.id)
    /\ Allowed(u, Act("get"), p.urn)
    /\ Allowed(u, Act("update"), p.urn)
    /\ Allowed(u, Act("update"), urn)

Delete(u, p) ==
    /\ policies' = policies \ {p}
    /\ attached' = {a \in attached : a[2] # p.id}
    /\ writer' = u
    /\ Allowed(u, Act("get"), p.urn)
    /\ Allowed(u, Act("delete"), p.urn)

Init ==
    /\ policies = InitPolicies
    /\ groups   = InitGroups
    /\ members  = InitMembers
    /\ attached = InitAttached
    /\ writer   = NULL

(* Every operation changes the policies; the groups are not the policy  *)
(* API's.                                                                 *)
Next ==
    /\ policies' # policies
    /\ UNCHANGED <<groups, members>>
    /\ \/ \E org \in Orgs, name \in Names, path \in Paths, st \in StmtChoices :
            \E u \in Users : Create(u, org, name, path, st)
       \/ \E p \in policies, name \in Names, path \in Paths, st \in StmtChoices :
            \E u \in Users : Update(u, p, name, path, st)
       \/ \E p \in policies : \E u \in Users : Delete(u, p)

Spec == Init /\ [][Next]_<<policies, groups, members, attached, writer>>
=============================================================================
