----------------------------- MODULE SourcesApi -----------------------------
(***************************************************************************)
(* The sources HTTP handlers (api/src/routes/sources.rs).  Every request   *)
(* is one actix handler future; handlers of different requests run         *)
(* concurrently and interleave at their single `.await`, the call into     *)
(* db::sources.  A handler is two steps: the call step extracts the tenant *)
(* id (answering 400 at once when it is missing) and performs the db call, *)
(* whose effect on the store is atomic (one SQL statement); the reply step *)
(* resumes the future and maps the db result to the HTTP response.         *)
(*                                                                         *)
(* db::sources is not in this repository: the store is a function from     *)
(* source ids to rows, ids come from a sequence that is never reused, each *)
(* statement is scoped by tenant_id, and any statement may fail with a     *)
(* database error; encrypting or decrypting a config may fail.            *)
(***************************************************************************)
EXTENDS Integers, FiniteSets

CONSTANTS
  Tenants,    \* tenant ids
  NoTenant,   \* a request without a valid tenant_id header
  Requests,   \* the concurrent requests
  Req,        \* Req[r]: [op, tenant, id, name, config]
  MaxId       \* the sequence's last value: at least the number of creates

Ops == {"create", "read", "update", "delete", "read_all"}
Ids == 1..MaxId

ASSUME NoTenant \notin Tenants
ASSUME \A r \in Requests : Req[r].op \in Ops /\ Req[r].tenant \in Tenants \cup {NoTenant}
ASSUME Cardinality({r \in Requests : Req[r].op = "create"}) <= MaxId

VARIABLES
  sources,   \* the sources table: id -> row, or None
  next_id,   \* the id sequence
  pc,        \* per request: "call" | "await" | "done"
  dbres,     \* per request: the Result the awaited db call returned
  resp       \* per request: the HTTP response, or NoResp

vars == <<sources, next_id, pc, dbres, resp>>

None == [kind |-> "none"]
Some(id) == [kind |-> "some", id |-> id]
NoResp == [status |-> 0, body |-> [kind |-> "none"]]

\* db::sources results: Ok(value) or Err(SourcesDbError).
DbOk(v) == [ok |-> TRUE, val |-> v]
DbErr(e) == [ok |-> FALSE, err |-> e]
DbErrors == {"Database", "Encryption"}

-----------------------------------------------------------------------------
(* db::sources, spec-modelled. *)

SourceRow(r) == [tenant |-> Req[r].tenant, name |-> Req[r].name,
                 config |-> Req[r].config]

\* A statement filtered by `where tenant_id = $1 and id = $2`.
Owned(t, id) == id \in Ids /\ sources[id] # None /\ sources[id].tenant = t

\* The row as read back: [id, tenant_id, name, config].
Stored(id) == [id |-> id, tenant_id |-> sources[id].tenant,
               name |-> sources[id].name, config |-> sources[id].config]

\* A failed statement changes nothing.
DbFails(r, errs) ==
  /\ \E e \in errs : dbres' = [dbres EXCEPT ![r] = DbErr(e)]
  /\ UNCHANGED <<sources, next_id>>

\* insert into app.sources ... returning id (the config is encrypted first).
DbCreate(r) ==
  \/ /\ sources' = [sources EXCEPT ![next_id] = SourceRow(r)]
     /\ next_id' = next_id + 1
     /\ dbres' = [dbres EXCEPT ![r] = DbOk(next_id)]
  \/ DbFails(r, DbErrors)

\* select ... where tenant_id = $1 and id = $2, then decrypt the config.
DbRead(r) ==
  LET t == Req[r].tenant  id == Req[r].id IN
  \/ /\ dbres' = [dbres EXCEPT ![r] = DbOk(IF Owned(t, id) THEN Stored(id) ELSE None)]
     /\ UNCHANGED <<sources, next_id>>
  \/ DbFails(r, IF Owned(t, id) THEN DbErrors ELSE {"Database"})

\* update app.sources set ... where tenant_id = $3 and id = $4 returning id
DbUpdate(r) ==
  LET t == Req[r].tenant  id == Req[r].id IN
  \/ /\ sources' = IF Owned(t, id) THEN [sources EXCEPT ![id] = SourceRow(r)]
                                   ELSE sources
     /\ dbres' = [dbres EXCEPT ![r] = DbOk(IF Owned(t, id) THEN Some(id) ELSE None)]
     /\ UNCHANGED next_id
  \/ DbFails(r, DbErrors)

\* delete from app.sources where tenant_id = $1 and id = $2 returning id
DbDelete(r) ==
  LET t == Req[r].tenant  id == Req[r].id IN
  \/ /\ sources' = IF Owned(t, id) THEN [sources EXCEPT ![id] = None] ELSE sources
     /\ dbres' = [dbres EXCEPT ![r] = DbOk(IF Owned(t, id) THEN Some(id) ELSE None)]
     /\ UNCHANGED next_id
  \/ DbFails(r, {"Database"})

\* select ... where tenant_id = $1, decrypting every config.
DbReadAll(r) ==
  LET mine == {id \in Ids : Owned(Req[r].tenant, id)} IN
  \/ /\ dbres' = [dbres EXCEPT ![r] = DbOk({Stored(id) : id \in mine})]
     /\ UNCHANGED <<sources, next_id>>
  \/ DbFails(r, IF mine # {} THEN DbErrors ELSE {"Database"})

-----------------------------------------------------------------------------
(* The handlers. *)

\* SourceError: SourceNotFound(id), TenantId(_), SourcesDb(_).
SourceNotFound(id) == [kind |-> "SourceNotFound", id |-> id]
TenantIdError == [kind |-> "TenantId"]
SourcesDbError(e) == [kind |-> "SourcesDb", err |-> e]

\* The Display text of an error; the `#[error(...)]` strings and the
\* wrapped errors' own texts, which for a database error carry its detail.
Display(e) == [text |-> e]
InternalServerError == [text |-> [kind |-> "internal server error"]]

\* Mutant: to_message forgets the database case and returns e.to_string().
ToMessage_Transparent(e) == Display(e)

\* SourceError::to_message
ToMessage(e) ==
  IF e.kind = "SourcesDb" /\ e.err = "Database" THEN InternalServerError
  ELSE Display(e)

\* ResponseError::status_code
StatusCode(e) ==
  CASE e.kind = "SourcesDb"      -> 500
    [] e.kind = "SourceNotFound" -> 404
    [] e.kind = "TenantId"       -> 400

\* ResponseError::error_response: the status and an ErrorMessage body.
ErrorResponse(e) ==
  [status |-> StatusCode(e), body |-> [kind |-> "error", error |-> ToMessage(e)]]

Json(b) == [status |-> 200, body |-> b]
EmptyOk == [status |-> 200, body |-> [kind |-> "empty"]]

\* impl From<SourceConfig> for StrippedSourceConfig: the password is dropped.
Stripped(c) == [host |-> c.host]

\* ReadSourceResponse built from a stored source.
ReadSourceResponse(s) ==
  [kind |-> "source", id |-> s.id, tenant_id |-> s.tenant_id, name |-> s.name,
   config |-> Stripped(s.config)]

\* A handler's `?` on the awaited db call: Err(e) returns SourcesDb(e).
OnDb(res, okResponse) ==
  IF res.ok THEN okResponse ELSE ErrorResponse(SourcesDbError(res.err))

\* The rest of each handler after its `.await`.
CreateReply(r, res) == OnDb(res, Json([kind |-> "created", id |-> res.val]))

ReadReply(r, res) ==
  OnDb(res, IF res.val = None THEN ErrorResponse(SourceNotFound(Req[r].id))
                                ELSE Json(ReadSourceResponse(res.val)))

\* update_source and delete_source: `.ok_or(SourceNotFound(source_id))?`
OkOrNotFound(r, res) ==
  OnDb(res, IF res.val = None THEN ErrorResponse(SourceNotFound(Req[r].id))
                                ELSE EmptyOk)

UpdateReply(r, res) == OkOrNotFound(r, res)
DeleteReply(r, res) == OkOrNotFound(r, res)

\* read_all_sources: one ReadSourceResponse per source returned.
ReadAllReply(r, res) ==
  OnDb(res, Json([kind |-> "sources",
                   sources |-> {ReadSourceResponse(s) : s \in res.val}]))

Reply(r, res) ==
  CASE Req[r].op = "create"   -> CreateReply(r, res)
    [] Req[r].op = "read"     -> ReadReply(r, res)
    [] Req[r].op = "update"   -> UpdateReply(r, res)
    [] Req[r].op = "delete"   -> DeleteReply(r, res)
    [] Req[r].op = "read_all" -> ReadAllReply(r, res)

-----------------------------------------------------------------------------
Init ==
  /\ sources = [id \in Ids |-> None]
  /\ next_id = 1
  /\ pc = [r \in Requests |-> "call"]
  /\ dbres = [r \in Requests |-> None]
  /\ resp = [r \in Requests |-> NoResp]

\* `let tenant_id = extract_tenant_id(&req)?;` fails: 400 before any db call.
RejectTenant(r) ==
  /\ pc[r] = "call" /\ Req[r].tenant = NoTenant
  /\ resp' = [resp EXCEPT ![r] = ErrorResponse(TenantIdError)]
  /\ pc' = [pc EXCEPT ![r] = "done"]
  /\ UNCHANGED <<sources, next_id, dbres>>

\* A handler of `op` runs up to its db call, which takes effect; the future
\* is suspended at the `.await`.
CallDb(r, op, dbCall) ==
  /\ pc[r] = "call" /\ Req[r].op = op /\ Req[r].tenant \in Tenants
  /\ dbCall
  /\ pc' = [pc EXCEPT ![r] = "await"]
  /\ UNCHANGED resp

CreateSource(r)   == CallDb(r, "create", DbCreate(r))
ReadSource(r)     == CallDb(r, "read", DbRead(r))
UpdateSource(r)   == CallDb(r, "update", DbUpdate(r))
DeleteSource(r)   == CallDb(r, "delete", DbDelete(r))
ReadAllSources(r) == CallDb(r, "read_all", DbReadAll(r))

\* The future resumes with the db result and returns its response; the
\* future, and the result it held, are dropped.
Respond(r) ==
  /\ pc[r] = "await"
  /\ resp' = [resp EXCEPT ![r] = Reply(r, dbres[r])]
  /\ pc' = [pc EXCEPT ![r] = "done"]
  /\ dbres' = [dbres EXCEPT ![r] = None]
  /\ UNCHANGED <<sources, next_id>>

\* Every request has been answered; the server idles.
Served == (\A r \in Requests : pc[r] = "done") /\ UNCHANGED vars

Handle(r) ==
  \/ RejectTenant(r)
  \/ CreateSource(r) \/ ReadSource(r) \/ UpdateSource(r) \/ DeleteSource(r)
  \/ ReadAllSources(r)
  \/ Respond(r)

Next == (\E r \in Requests : Handle(r)) \/ Served

\* actix polls every ready future; a db call returns or fails (the pool
\* times out) rather than hang.
Spec == Init /\ [][Next]_vars /\ \A r \in Requests : WF_vars(Handle(r))

-----------------------------------------------------------------------------
(***************************************************************************)
(* Refinement.  The db call is the step at which a request takes effect:  *)
(* from then on its response is determined, although the future sends it *)
(* only when it resumes, after other requests may have changed the store.  *)
(* A suspended request is mapped to the response its reply step will      *)
(* return, so the call step is the contract's Serve and the reply step a  *)
(* stutter.                                                                *)
(***************************************************************************)
AnsweredResp ==
  [r \in Requests |-> IF pc[r] = "await" THEN Reply(r, dbres[r]) ELSE resp[r]]

Contract == INSTANCE SourcesContract WITH resp <- AnsweredResp

(***************************************************************************)
(* Refinement (the OpenAPI annotations of the five handlers, the comment   *)
(* of SourceError::to_message, StrippedSourceConfig): however the handler  *)
(* futures of concurrent requests interleave at their db call, every       *)
(* response is the one the contract gives for the store at that call: the *)
(* tenant's own source or a 404, never another tenant's, configs without  *)
(* passwords, and 500s without database detail.  (That every request is    *)
(* answered needs no check: a handler is two steps that never wait.)       *)
(***************************************************************************)
ContractSpec == Contract!SafetySpec

\* The statuses each endpoint's #[utoipa::path] annotation documents.
Documented ==
  [op \in Ops |->
     CASE op = "create"   -> {200, 400, 500}
       [] op = "read_all" -> {200, 500}
       [] OTHER           -> {200, 404, 500}]

(***************************************************************************)
(* Safety (the `responses(...)` lists of the OpenAPI annotations): every   *)
(* response a handler returns has a status its endpoint documents.         *)
(***************************************************************************)
DocumentedStatus ==
  \A r \in Requests : resp[r] # NoResp => resp[r].status \in Documented[Req[r].op]

=============================================================================
