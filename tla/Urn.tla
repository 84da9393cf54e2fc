-------------------------------- MODULE Urn --------------------------------
(***************************************************************************)
(* The URN Model (spec section 4.1).  CreateUrn is called by createPolicy  *)
(* in src/api/policy.go and GetUrnPrefix by GetListPolicies, but both are  *)
(* defined outside src/, so they are modelled from the spec.               *)
(*                                                                         *)
(* A URN is a sequence of symbols "urn:<org>:<type>:<path><name>"; an      *)
(* organization, a resource type and a name are one symbol each, a path   *)
(* is a sequence of symbols starting and ending with "/".                  *)
(***************************************************************************)
EXTENDS Sequences

CONSTANT Star

UrnHead(org, resourceType) == <<"urn", ":", org, ":", resourceType, ":">>

(* CreateUrn(org, resourceType, path, name)                               *)
CreateUrn(org, resourceType, path, name) ==
    UrnHead(org, resourceType) \o path \o <<name>>

(* GetUrnPrefix(org, resourceType, pathPrefix): the listing pattern       *)
(* "...<pathPrefix>*".                                                     *)
GetUrnPrefix(org, resourceType, pathPrefix) ==
    UrnHead(org, resourceType) \o pathPrefix \o <<Star>>
=============================================================================
