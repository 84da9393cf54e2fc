---------------------------- MODULE MC_Foulkon ------------------------------
(***************************************************************************)
(* The store of MC_PolicyAPI: in organization A, group "admins" (alice)   *)
(* holds a policy allowing everything, group "devs" (bob) a policy        *)
(* allowing policy actions under /x/.  Group requests create, rename,    *)
(* remove the groups, change their members and attach the policies;     *)
(* policy requests delete policies and list their attached groups, so    *)
(* the two sets of handlers meet on the relation tables.  alice and bob  *)
(* are stored users (external ids ealice, ebob); ecarol may be added.    *)
(* Organization B has its own group "admins" (bob) and policy "adm", so  *)
(* the same names live in two orgs and requests name either org.         *)
(***************************************************************************)
EXTENDS Foulkon

MC_Root  == <<"/">>
MC_X     == <<"/", "x", "/">>

AdminStmt == [effect |-> "Allow", actions |-> {<<Star>>},
              resources |-> {<<"urn", ":", "A", ":", Star>>}]
DevAllow  == [effect |-> "Allow", actions |-> {<<"policy", ":", Star>>},
              resources |-> {<<"urn", ":", "A", ":", "policy", ":">> \o MC_X \o <<Star>>}]
DevDeny   == [effect |-> "Deny", actions |-> {<<"policy", ":", "delete">>},
              resources |-> {<<"urn", ":", "A", ":", "policy", ":">> \o MC_X \o <<"dev">>}]
ReadOnly  == [effect |-> "Allow",
              actions |-> {<<"policy", ":", "get">>, <<"policy", ":", "list">>},
              resources |-> {<<"urn", ":", "A", ":", "policy", ":", "/", Star>>}]

BAdmin    == [effect |-> "Allow", actions |-> {<<Star>>},
              resources |-> {<<"urn", ":", "B", ":", Star>>}]

MC_PolicyIn(org, id, name, path, stmts) ==
    [id |-> id, org |-> org, name |-> name, path |-> path,
     urn |-> <<"urn", ":", org, ":", "policy", ":">> \o path \o <<name>>, stmts |-> stmts]
MC_Policy(id, name, path, stmts) == MC_PolicyIn("A", id, name, path, stmts)
(* Group names are spelled out: the repository matches them with LIKE.  *)
Admins  == <<"a", "d", "m", "i", "n", "s">>
Devs    == <<"d", "e", "v", "s">>
Ops     == <<"o", "p", "s">>
DevsLike == <<"d", "e", "v", "_">>

MC_GroupIn(org, id, name) ==
    [id |-> id, org |-> org, name |-> name, path |-> MC_Root,
     urn |-> <<"urn", ":", org, ":", "group", ":", "/", name>>]
MC_Group(id, name) == MC_GroupIn("A", id, name)

MC_Users        == {"alice", "bob"}
MC_Orgs         == {"A", "B"}
MC_OrgA         == {"A"}
MC_ExternalIds  == {"ealice", "ebob", "ecarol"}
MC_UserIds      == {"alice", "bob"}
MC_InitUsers    == {[id |-> "alice", externalId |-> "ealice", path |-> MC_Root],
                    [id |-> "bob",   externalId |-> "ebob",   path |-> MC_X]}
MC_Names        == {"adm", "dev"}
MC_GroupNames   == {Admins, Devs, Ops}
MC_LikeNames    == {Devs, DevsLike}
MC_Paths        == {MC_Root, MC_X}
MC_StmtChoices  == {{DevAllow}, {ReadOnly}}
MC_NewIds       == <<"i1", "i2", "i3", "i4">>
MC_InitPolicies == {MC_Policy("p0", "adm", MC_Root, {AdminStmt}),
                    MC_Policy("p1", "dev", MC_X, {DevAllow, DevDeny}),
                    MC_PolicyIn("B", "p2", "adm", MC_Root, {BAdmin})}
MC_InitGroups   == {MC_Group("g0", Admins), MC_Group("g1", Devs),
                    MC_GroupIn("B", "g2", Admins)}
MC_InitMembers  == {<<"alice", "g0">>, <<"bob", "g1">>, <<"bob", "g2">>}
MC_InitAttached == {<<"g0", "p0">>, <<"g1", "p1">>, <<"g2", "p2">>}
MC_GroupOps     == {"AddGroup", "UpdateGroup", "RemoveGroup", "AddMember",
                    "RemoveMember", "AttachPolicyToGroup", "ListMembers",
                    "GetGroupByName", "GetListGroups"}
MC_UserOps      == {"GetUserByExternalId", "GetListUsers", "AddUser", "RemoveUserById",
                    "GetGroupsByUserId"}
MC_NoUserOps    == {}
MC_PolicyOps    == {"DeletePolicy", "GetPolicyAttachedGroups"}
MC_NoPolicyOps  == {}
MC_RemoveOnly   == {"RemoveGroup"}
MC_AddGroupOnly == {"AddGroup"}
MC_MemberVsRemove == {"AddMember", "RemoveGroup"}
MC_UpdateVsRemove == {"UpdateGroup", "RemoveGroup"}
MC_AttachOnly   == {"AttachPolicyToGroup"}
MC_DeleteOnly   == {"DeletePolicy"}
MC_AddMemberOnly == {"AddMember"}
MC_NoGroupOps   == {}
MC_AddUserOnly  == {"AddUser"}
MC_RemoveUserOnly == {"RemoveUserById"}
=============================================================================
