---------------------------- MODULE MCSourcesApi ----------------------------
(***************************************************************************)
(* Two tenants with concurrent requests on the same source ids: each      *)
(* tenant creates a source, so which tenant owns id 1 depends on the order *)
(* of the creates; an update by one tenant and a delete and a read by the *)
(* other race with them on id 1, one request lists a tenant's sources,   *)
(* and one comes without a tenant_id header.                               *)
(***************************************************************************)
EXTENDS SourcesApi, TLC

CONSTANTS t1, t2, none, c1, c2, up2, del1, rd1, all2, bad

Conf(h) == [host |-> h, password |-> "secret"]

MCReq ==
     (c1   :> [op |-> "create",   tenant |-> t1, id |-> 0, name |-> "a", config |-> Conf("h1")])
  @@ (c2   :> [op |-> "create",   tenant |-> t2, id |-> 0, name |-> "b", config |-> Conf("h2")])
  @@ (up2  :> [op |-> "update",   tenant |-> t2, id |-> 1, name |-> "c", config |-> Conf("h3")])
  @@ (del1 :> [op |-> "delete",   tenant |-> t1, id |-> 1, name |-> "", config |-> Conf("")])
  @@ (rd1  :> [op |-> "read",     tenant |-> t1, id |-> 1, name |-> "", config |-> Conf("")])
  @@ (all2 :> [op |-> "read_all", tenant |-> t2, id |-> 0, name |-> "", config |-> Conf("")])
  @@ (bad  :> [op |-> "read",     tenant |-> none, id |-> 1, name |-> "", config |-> Conf("")])

MCRequests == DOMAIN MCReq
\* A request without a tenant_id header beside a create.
MCRequestsBad == {bad, c1}
=============================================================================
