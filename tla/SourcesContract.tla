--------------------------- MODULE SourcesContract ---------------------------
(***************************************************************************)
(* What the /v1/sources endpoints promise, each request answered in one    *)
(* atomic step against the tenant's sources:                               *)
(*  - every path is scoped by the tenant_id header; without one the        *)
(*    request is a bad request (400) and nothing changes;                  *)
(*  - POST /sources creates a source under a fresh id and returns the id;  *)
(*  - GET /sources/{id} returns the source, its config without the         *)
(*    password (StrippedSourceConfig), or 404 when the tenant has no such  *)
(*    source; POST and DELETE /sources/{id} update or delete it, or 404;   *)
(*  - GET /sources returns exactly the tenant's sources;                   *)
(*  - a failure is a 500 that changes nothing and whose message never      *)
(*    carries database detail ("Do not expose internal database details"). *)
(*  - every request is eventually answered.                                *)
(***************************************************************************)
EXTENDS Integers

CONSTANTS Tenants, NoTenant, Requests, Req, MaxId

VARIABLES
  sources,   \* id -> [tenant, name, config], or None
  next_id,   \* the next fresh id
  resp       \* per request: its response, or NoResp until answered

vars == <<sources, next_id, resp>>

None == [kind |-> "none"]
NoResp == [status |-> 0, body |-> [kind |-> "none"]]

Ok(b) == [status |-> 200, body |-> b]
Error(status, text) == [status |-> status, body |-> [kind |-> "error", error |-> [text |-> text]]]

BadTenant == Error(400, [kind |-> "TenantId"])
NotFound(r) == Error(404, [kind |-> "SourceNotFound", id |-> Req[r].id])

\* The 500s a client may see: the generic text, or the text of an error that
\* is not the database's (a config that fails to encrypt or decrypt).
Failures == {Error(500, [kind |-> "internal server error"]),
             Error(500, [kind |-> "SourcesDb", err |-> "Encryption"])}

Mine(t) == {id \in 1..MaxId : sources[id] # None /\ sources[id].tenant = t}

View(id) == [kind |-> "source", id |-> id, tenant_id |-> sources[id].tenant,
             name |-> sources[id].name, config |-> [host |-> sources[id].config.host]]

Row(q) == [tenant |-> q.tenant, name |-> q.name, config |-> q.config]

Init ==
  /\ sources = [id \in 1..MaxId |-> None]
  /\ next_id = 1
  /\ resp = [r \in Requests |-> NoResp]

Answer(r, x) == resp' = [resp EXCEPT ![r] = x]

\* The request succeeds: its effect and its 200 (or 404) response.
Succeed(r) ==
  LET q == Req[r]  found == q.id \in Mine(q.tenant) IN
  CASE q.op = "create" ->
         /\ sources' = [sources EXCEPT ![next_id] = Row(q)]
         /\ next_id' = next_id + 1
         /\ Answer(r, Ok([kind |-> "created", id |-> next_id]))
    [] q.op = "read" ->
         Answer(r, IF found THEN Ok(View(q.id)) ELSE NotFound(r))
         /\ UNCHANGED <<sources, next_id>>
    [] q.op = "update" ->
         /\ sources' = IF found THEN [sources EXCEPT ![q.id] = Row(q)] ELSE sources
         /\ Answer(r, IF found THEN Ok([kind |-> "empty"]) ELSE NotFound(r))
         /\ UNCHANGED next_id
    [] q.op = "delete" ->
         /\ sources' = IF found THEN [sources EXCEPT ![q.id] = None] ELSE sources
         /\ Answer(r, IF found THEN Ok([kind |-> "empty"]) ELSE NotFound(r))
         /\ UNCHANGED next_id
    [] q.op = "read_all" ->
         Answer(r, Ok([kind |-> "sources", sources |-> {View(id) : id \in Mine(q.tenant)}]))
         /\ UNCHANGED <<sources, next_id>>

Serve(r) ==
  /\ resp[r] = NoResp
  /\ \/ Req[r].tenant = NoTenant /\ Answer(r, BadTenant) /\ UNCHANGED <<sources, next_id>>
     \/ Req[r].tenant \in Tenants /\ Succeed(r)
     \/ Req[r].tenant \in Tenants /\ \E f \in Failures : Answer(r, f)
                                  /\ UNCHANGED <<sources, next_id>>

Next == \E r \in Requests : Serve(r)

SafetySpec == Init /\ [][Next]_vars

Spec == SafetySpec /\ \A r \in Requests : WF_vars(Serve(r))
=============================================================================
