----------------------------- MODULE GroupStore -----------------------------
(***************************************************************************)
(* What the group handlers promise (spec 3 and the lifecycle of spec 2):  *)
(* the groups and their relations change only by whole operations, each  *)
(* on the state as it is when it happens:                                 *)
(*   Create  a group whose (org, name) is free, with a fresh id and the  *)
(*           derived URN;                                                 *)
(*   Update  a group's name and path, the new name free in its org, the  *)
(*           URN regenerated, the id and org kept;                        *)
(*   Delete  a group with its memberships and attachments;                *)
(*   Join, Leave  a stored user to or from a stored group;                *)
(*   Attach  a stored policy to a stored group.                           *)
(* The user and policy tables belong to other handlers: when they change *)
(* the groups stay, and the relations of a removed user or policy go.    *)
(***************************************************************************)
EXTENDS Sequences, SequencesExt

CONSTANTS Orgs, GroupNames, Paths, NewIds,
          InitGroups, InitMembers, InitAttached, InitUsers, InitPolicies

VARIABLES groups, members, attached, users, policies

gvars == <<groups, members, attached, users, policies>>

LOCAL U == INSTANCE Urn WITH Star <- "*"

NameFree(org, name, self) ==
    \A g \in groups : g.org = org /\ g.name = name => g.id = self

Create(org, name, path) ==
    /\ NameFree(org, name, "none")
    /\ \E id \in ToSet(NewIds) \ {g.id : g \in groups} :
          groups' = groups \cup {[id |-> id, org |-> org, name |-> name, path |-> path,
                                  urn |-> U!CreateUrn(org, "group", path, name)]}
    /\ UNCHANGED <<members, attached, users, policies>>

Update(g, name, path) ==
    /\ NameFree(g.org, name, g.id)
    /\ groups' = (groups \ {g}) \cup
                 {[g EXCEPT !.name = name, !.path = path,
                            !.urn = U!CreateUrn(g.org, "group", path, name)]}
    /\ UNCHANGED <<members, attached, users, policies>>

Delete(g) ==
    /\ groups'   = groups \ {g}
    /\ members'  = {m \in members : m[2] # g.id}
    /\ attached' = {a \in attached : a[1] # g.id}
    /\ UNCHANGED <<users, policies>>

Join(u, g) ==
    /\ members' = members \cup {<<u.id, g.id>>}
    /\ UNCHANGED <<groups, attached, users, policies>>

Leave(m) ==
    /\ members' = members \ {m}
    /\ UNCHANGED <<groups, attached, users, policies>>

Attach(g, p) ==
    /\ attached' = attached \cup {<<g.id, p.id>>}
    /\ UNCHANGED <<groups, members, users, policies>>

(* A step of the user handlers: the memberships of removed users go.     *)
UsersChange ==
    /\ members' = {m \in members : \E u \in users' : u.id = m[1]}
    /\ UNCHANGED <<groups, attached, policies>>

(* A step of the policy handlers: the attachments of removed policies go. *)
PoliciesChange ==
    /\ attached' = {a \in attached : \E p \in policies' : p.id = a[2]}
    /\ UNCHANGED <<groups, members, users>>

Init ==
    /\ groups   = InitGroups
    /\ members  = InitMembers
    /\ attached = InitAttached
    /\ users    = InitUsers
    /\ policies = InitPolicies

Next ==
    \/ \E org \in Orgs, name \in GroupNames, path \in Paths : Create(org, name, path)
    \/ \E g \in groups, name \in GroupNames, path \in Paths : Update(g, name, path)
    \/ \E g \in groups : Delete(g)
    \/ \E u \in users, g \in groups : Join(u, g)
    \/ \E m \in members : Leave(m)
    \/ \E g \in groups, p \in policies : Attach(g, p)
    \/ UsersChange
    \/ PoliciesChange

Spec == Init /\ [][Next]_gvars
=============================================================================
