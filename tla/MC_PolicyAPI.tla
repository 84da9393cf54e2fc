---------------------------- MODULE MC_PolicyAPI ----------------------------
(***************************************************************************)
(* A store in organization A with two groups: "admins" (alice) holds a    *)
(* policy allowing everything in A; "devs" (bob) holds a policy allowing  *)
(* policy actions under path /x/ but denying the deletion of the devs     *)
(* policy itself.  Requests use the names adm, dev and m and the paths    *)
(* / and /x/, so that they create, rename onto, move across the /x/      *)
(* boundary and delete the policies that grant the permissions.           *)
(***************************************************************************)
EXTENDS PolicyAPI

MC_Root  == <<"/">>
MC_X     == <<"/", "x", "/">>

AdminStmt == [effect |-> "Allow", actions |-> {<<Star>>},
              resources |-> {<<"urn", ":", Star>>}]
BAdmin    == [effect |-> "Allow", actions |-> {<<Star>>},
              resources |-> {<<"urn", ":", "B", ":", Star>>}]
DevAllow  == [effect |-> "Allow", actions |-> {<<"policy", ":", Star>>},
              resources |-> {<<"urn", ":", "A", ":", "policy", ":">> \o MC_X \o <<Star>>}]
DevDeny   == [effect |-> "Deny", actions |-> {<<"policy", ":", "delete">>},
              resources |-> {<<"urn", ":", "A", ":", "policy", ":">> \o MC_X \o <<"dev">>}]
ReadOnly  == [effect |-> "Allow",
              actions |-> {<<"policy", ":", "get">>, <<"policy", ":", "list">>},
              resources |-> {<<"urn", ":", "A", ":", "policy", ":", "/", Star>>}]

MC_PolicyIn(org, id, name, path, stmts) ==
    [id |-> id, org |-> org, name |-> name, path |-> path,
     urn |-> <<"urn", ":", org, ":", "policy", ":">> \o path \o <<name>>, stmts |-> stmts]
MC_Policy(id, name, path, stmts) == MC_PolicyIn("A", id, name, path, stmts)
MC_GroupIn(org, id, name) ==
    [id |-> id, org |-> org, name |-> name, path |-> MC_Root,
     urn |-> <<"urn", ":", org, ":", "group", ":", "/", name>>]
MC_Group(id, name) == MC_GroupIn("A", id, name)

MC_Users        == {"alice", "bob"}
MC_Orgs         == {"A", "B"}
MC_OrgA         == {"A"}
MC_Names        == {"adm", "dev", "m"}
MC_DevOnly      == {"dev"}
MC_Paths        == {MC_Root, MC_X}
MC_StmtChoices  == {{DevAllow}, {ReadOnly}}
MC_NewIds       == <<"i1", "i2", "i3", "i4">>
MC_InitPolicies == {MC_Policy("p0", "adm", MC_Root, {AdminStmt}),
                    MC_Policy("p1", "dev", MC_X, {DevAllow, DevDeny}),
                    MC_PolicyIn("B", "p2", "adm", MC_Root, {BAdmin})}
MC_InitGroups   == {MC_Group("g0", "admins"), MC_Group("g1", "devs"),
                    MC_GroupIn("B", "g2", "admins")}
MC_InitMembers  == {<<"alice", "g0">>, <<"bob", "g1">>, <<"bob", "g2">>}
MC_InitAttached == {<<"g0", "p0">>, <<"g1", "p1">>, <<"g2", "p2">>}
MC_AddOnly      == {"AddPolicy"}
MC_UpdateOnly   == {"UpdatePolicy"}
MC_AllPolicyOps == {"GetPolicyByName", "GetListPolicies", "AddPolicy", "UpdatePolicy",
                    "DeletePolicy", "GetPolicyAttachedGroups"}
=============================================================================
