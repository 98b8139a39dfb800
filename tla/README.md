# TLA+ models of pg_replicate's row conversion and telemetry

This directory holds TLA+ models of the parts of this repository whose behaviour
depends on control flow, ordering or concurrency. TLC checks them.

## 1. Inventory

| Component | Source | State it keeps | Operations | Status |
|---|---|---|---|---|
| Row Parser | `etl/src/conversions/table_row.rs` `TableRowConverter::try_from` (89-178) | Per call only: the `chars` iterator, the reused `val_str` buffer, `in_escape`, `row_terminated`, `done`, `column_schemas_iter`, `values` | One call: UTF-8 check, character loop, per-field block, return | modelled |
| Row Container and errors | same file, `TableRow`, `TableRowConversionError` (12-21, 67-83) | the `values` vector | built by the parser | modelled |
| Wire Encoder | same file, `impl prost::Message for TableRow` (23-65) | a `tag` counter per loop, the `len` accumulator, the output buffer | `encoded_len`, `encode_raw`, `clear`, `merge_field` (`unimplemented!`) | partly |
| Field Decoder | `TextFormatConverter::try_from_str` (not in the repository) | none | decode one field | abstracted |
| Column Schema | `postgres::schema::ColumnSchema` (not in the repository) | none | supplies `[name, typ]` | abstracted |
| Telemetry | `telemetry/src/lib.rs` | Process-global: the `log` logger, the global subscriber, the panic hook, `APP_ENVIRONMENT`, the `INIT_TEST_TRACING` Once | `init_test_tracing`, `init_tracing`, `configure_prod_tracing`, `configure_dev_tracing`, `set_tracing_panic_hook`, `panic_hook` | modelled |
| Sources API | `api/src/routes/sources.rs` | None in this file; each handler makes one call into `db::sources` | create, read, update, delete, read all; `SourceError` to status and message | modelled |
| Sources store | `db::sources` (not in the repository) | the `app.sources` table and its id sequence | one SQL statement per handler | abstracted |

**How the parts interact.** A pipeline task reads COPY output and calls
`try_from` once per record with the table's column schemas. `try_from` calls the
Field Decoder once per non-NULL field. The decoder is a pure function, and a
decode error is logged and then propagated. With the `bigquery` feature, prost
frames each `TableRow` by calling `encoded_len` (as the length prefix or the
capacity) and then `encode_raw`. Telemetry is process state that every component
logs through. `init_tracing` is called once by a binary's `main`. Tests call
`init_test_tracing`, possibly from several threads at once. The panic hook it
installs runs on any thread that panics. The Sources API is separate: actix runs
one handler future per HTTP request, concurrently. Each future extracts the
tenant id, awaits one `db::sources` statement, and maps the result to a
response.

**What is hard.**
- The parser reproduces PostgreSQL's COPY TEXT escaping in a single pass with
  mutable flags and one reused buffer. Its correctness depends on the order in
  which the flags are set and reset, and on what is checked when input ends.
- The encoder's two loops must agree byte for byte. They only disagree visibly
  once a tag reaches 16, because the protobuf key then grows to two bytes.
- Telemetry has process-global state written by racing threads. The hook
  installation is two separate lock acquisitions. The `Once` can be poisoned
  by a panic, and a failure part-way through `init_tracing` leaves earlier steps
  done. The `LogFlusher` that keeps the file writer alive is dropped at the end
  of the test closure.
- The Sources API's concurrent handlers interleave at their `.await`. Each
  handler builds its response from the awaited result alone. Tenant scoping
  and atomicity belong to `db::sources`, which is outside the repository. What
  the handlers themselves can get wrong is the result mapping: any statement
  may fail, and a failure must not leak database detail.

**What makes each part correct.**
- Parser: what COPY TO writes for a row parses back to that row. The result
  follows the grammar of spec 4.1. A successful row has exactly one value per
  column. A truncated read is reported as `UnterminatedRow`. A decode error is
  logged with its column.
- Encoder: `encoded_len` equals the number of bytes `encode_raw` writes.
- Telemetry: the set-up behaves as one atomic install done at most once
  (`TracingSetup`). Every panic, whenever it is raised, reaches stderr exactly
  once and last, and reaches the tracing subscriber once some init has
  succeeded.
  A test thread leaving `init_test_tracing` finds a terminal subscriber. A file subscriber
  always has a live flusher.
- Sources API: each response is the one a single atomic step against the
  tenant's sources would give (`SourcesContract`): tenant-scoped, passwords
  stripped, 500s without database detail. Every response status is documented.

The hazards each property targets are listed, one per line of source, under
`hazards` in `PROJECT.json`.

## 2. Modules

| Module | Role |
|---|---|
| `CopyText` | Pure operators. The parser's escape table (`ControlOf`, `UnescapeChar`) and UTF-8 validation and decoding (`Utf8Valid`, `Utf8Decode`) are mapped to the source. Two references sit beside them: `CopyEncode`, PostgreSQL's COPY TO text output, and `RefLex`/`RefFields`/`SingleRecord`, the grammar of spec 4.1 with its own escape table `SpecEscape`. |
| `RowParser` | One `try_from` call as a state machine. `Init` picks the arguments from `Calls`. Each step is one turn of the inner loop (`ScanEscaped`, `ScanTab`, `ScanNewline`, `ScanBackslash`, `ScanPlain`, `EndOfInput`) or one branch of the per-field block (`NoColumnLeft`, `PushField`, `DecodeFailed`). Variables keep the names of the Rust locals. |
| `MCRowParserGrammar` | Instantiates `RowParser` with every byte string of up to `MaxLen` bytes over `1 N n \ TAB LF LEAD CONT` and every schema of up to `MaxCols` int/text columns. |
| `MCRowParserRoundTrip` | Instantiates `RowParser` with what `CopyEncode` writes for every row of `MinCols..MaxCols` columns, optionally also with every proper prefix of it. The history variable `source` remembers the encoded row. |
| `RowEncoder` | prost's framing of a row: the `encoded_len` loop (`LenStep`, `LenReturn`), then the `encode_raw` loop (`EncodeStep`, `EncodeReturn`). |
| `MCRowEncoder` | Rows of 0-3 columns with every NULL/value mix, and rows of 15-17 columns whose last 3 cells take every mix. |
| `Telemetry` | Threads with role `app` (calls `init_tracing`) or `test` (calls `init_test_tracing`). Each library call is one atomic step: `CallOnce`, `WaitOnce`/`Park`, `SetEnvDev`, `LogTracerInit`, `LoadEnv`, `ConfigureProd`/`ConfigureDev`, `TakeHook`, `SetHook`. `Panic` is a panic of other code; a failed `expect` in the closure and `call_once` on a poisoned Once also panic. Each runs the installed chain (`RunHooks`: `PanicHook`, the one `tracing::error!` event of `panic_hook`, goes to the subscriber's writer; the default hook to stderr) and is recorded in `panics`. |
| `MCTelemetry` | One app thread and three test threads. `ENABLE_TRACING` may be set or not, and `APP_ENVIRONMENT` may be unset, dev, prod or invalid. |
| `TracingSetup` | The abstract set-up (spec 9): tracing is installed at most once, in one step, and every panic runs the chain that install prescribes (the subscriber's writer, then stderr). `Telemetry` maps onto it through `Setup == INSTANCE TracingSetup WITH installed <- InstalledWriter`; `panics` maps to itself. |
| `SourcesContract` | The abstract API: one atomic `Serve(r)` per request against a table of sources. It states the documented responses, the tenant scoping, the stripped config and the failure messages. |
| `SourcesApi` | The handlers. `RejectTenant` is the early 400. `CreateSource`, `ReadSource`, `UpdateSource`, `DeleteSource` and `ReadAllSources` each run a handler up to its awaited db call; the statement's effect happens in that step. `Respond` resumes the future and maps the result through `ToMessage`, `StatusCode`, `ErrorResponse` and `Stripped`. The `Db*` operators are the store, spec-modelled. `Contract == INSTANCE SourcesContract WITH resp <- AnsweredResp` is the refinement. |
| `MCSourcesApi` | Two tenants and seven concurrent requests: two creates racing for id 1, an update by one tenant, and a delete and a read by the other, all on id 1; a list; and a request with no tenant header. |

**Abstraction.** Bytes and characters are symbols (`"1"`, `"N"`, `BSL`, `TAB`,
`LF`, `BS`, ...). A non-ASCII character is `WIDE`, and its two UTF-8 bytes are
`LEAD` and `CONT`. That is enough to represent a read cut inside a character.
The Field Decoder accepts any text for `text` and a non-empty string of `1`s for
`int`. A cell's payload in the encoder is a size. Logging and formatting are left
out, except the content of the decode-error log.

Definitions named `X_Something` next to an action `X` are mutants: plausible bugs
in `X`. Each mutant is checked to break a property, which shows the property
constrains the code.

## 3. Runs

| Run | Config | Expect | Shows |
|---|---|---|---|
| parser_grammar | `MCRowParserGrammar.cfg` (MaxLen 5, MaxCols 2) | pass | Type invariant, and `ParseFollowsGrammar`: for a well-formed single record with at least as many fields as columns, the result and the decode-error log are exactly what the grammar prescribes. |
| parser_roundtrip | `MCRowParserRoundTrip.cfg` (1-2 columns, texts up to 2 characters over `1 N \ TAB LF BS FF CR VT WIDE`) | pass | `RoundTrip`: COPY TO output parses back to the row. The only exception is a text value `\N`, which becomes NULL. |
| parser_truncated_ascii | `MCRowParserTruncatedAscii.cfg` (same, no `WIDE`, with all prefixes) | pass | `TruncatedReadIsUnterminated` holds for ASCII data. |
| parser_row_width | `MCRowParser_RowWidthMatchesSchema.cfg` | violation | `"\n"` against two columns gives Ok with one value. |
| parser_one_record | `MCRowParser_OkOnlyForOneRecord.cfg` | violation | `"\n\\"` is accepted. More generally, after the LF every tab-terminated stretch of input becomes an extra field, and the text after the last tab is dropped. |
| parser_truncated_utf8 | `MCRowParser_Truncated.cfg` | violation | A cut between `LEAD` and `CONT` gives `InvalidString`. |
| parser_zero_columns | `MCRowParser_ZeroColumns.cfg` | violation | A zero-column row (a lone LF) gives `NumColsMismatch`. |
| encoder_frame | `MCRowEncoder.cfg` | pass | `FrameLengthMatches` holds across the tag-16 boundary. |
| telemetry_init | `MCTelemetry.cfg` | pass | `SetupSpec`: `Telemetry` refines `TracingSetup` (one atomic install; every panic runs the prescribed chain). `TestTracingReadyOnReturn` and `FileWriterFlushed` hold. |
| sources_contract | `MCSourcesApi.cfg` | pass | `ContractSpec`: the handlers implement `SourcesContract!SafetySpec` under every interleaving and every db failure. |
| sources_documented_status | `MCSourcesApi_DocumentedStatus.cfg` | violation | A read without a tenant header is answered 400, which its annotation does not list. |

The findings are recorded in `PROJECT.json` under `findings`. In summary, the
violation runs show five disagreements with the spec, PostgreSQL or the API's
own annotations: four in the parser and one in the API.
1. The column count is never checked on success (table_row.rs:177).
2. Parsing continues after the terminator (table_row.rs:141).
3. UTF-8 is validated before the terminator is searched for, so a truncated
   read can look like invalid data (table_row.rs:95).
4. Zero-column tables cannot be parsed (table_row.rs:151).
5. Four of the five source endpoints return an undocumented 400 when the
   tenant header is missing (sources.rs:180).

The NULL test on unescaped text (table_row.rs:155) turns a text value `\N`
into NULL. Spec 4.1 step 3 and spec 8 prescribe exactly this, so it is not a
finding. `RoundTrip` pins it with its `Collapse` exception.

**Bounds.**
- Grammar run: 5 bytes are enough for every pair of adjacent grammar events,
  such as an escape followed by a separator, a separator followed by the end of
  input, and a UTF-8 pair inside a field. The inputs include records of one to
  three fields against schemas of zero to two columns, so fewer, equal and more
  fields than columns all occur. This is about 880k states in about 1.5 minutes.
- Round trip: two columns of up to two characters, over an alphabet holding
  every character the escape table produces, give every pair of adjacent
  escaped characters within a field and across a field boundary. This is about
  180k states in about 15 seconds.
- Encoder: the widths straddle 16, where the key length changes. The
  NULL/value mixes in the last three cells put a NULL before and after tag 16.
- Telemetry: one app thread and three test threads let the Once's three
  roles, the runner, a waiter and a late caller, occur in one behaviour. They also cover a competing direct
  call of `init_tracing`. Two panics of other code (`MaxPanics`), on top of
  the panics of the test threads themselves, put a panic before, inside and
  after each installer's take/set window.
- Sources: two creates give both orders of id assignment. With requests of
  both tenants on id 1, every request meets the id absent, owned by its own
  tenant, or owned by the other. Every statement may also fail. Seven requests
  give about 180k states in about 2 minutes.

**Fairness.**
- `RowParser` and `RowEncoder` are sequential function calls: `WF_vars(Next)`
  only says that a running call keeps running.
- `Telemetry` has weak fairness per thread on its non-blocking steps, which the
  OS scheduler provides. A waiter in `call_once` parks (`Park`, a stutter) until
  the Once completes or is poisoned. Std's Once wakes all waiters in both cases.
  Panics of other code have no fairness: nothing makes them happen.
  No liveness property is checked for `Telemetry`. Every step of the
  repository's code is straight-line and never blocks, so that every caller
  finishes follows from std's Once waking its waiters, not from this code.
- `SourcesApi` has weak fairness per request: actix polls every ready future,
  and a db call returns or fails (a pool timeout) rather than hang. The
  refinement is checked against the contract's safety part only. A handler is
  two steps that never wait, so every request is answered trivially, and
  checking the contract's fairness through the mapping costs minutes for
  nothing.

## 4. Not modelled, and why

- `Cell::clear`, `Cell::encode_prost` and `TextFormatConverter` are outside the
  repository. The encoder takes a cell's key-plus-payload length as its only
  property.
- `merge_field` (`unimplemented!()`) and decoding in general are out of
  contract (spec 4.3).
- `panic_hook` is modelled by where its event goes. Its backtrace, payload and
  location formatting are left out.
- Each read or write of the process environment is one atomic step. The torn
  read that makes `std::env::set_var` unsafe next to concurrent readers is
  below the model's granularity.
- `db::sources` is outside the repository. Its statements are spec-modelled as
  atomic and tenant-scoped, with ids that are never reused and failures that
  change nothing.
- A retried `create_source` after a lost response creates a second source.
  Nothing states what should happen, so there are no client retries in the
  model; this is listed as a hazard.

## 5. Plan

Done in the first sitting:
1. `CopyText` and `RowParser`, the core, with the grammar and round-trip
   instances.
2. `RowEncoder`.
3. `Telemetry`.

Done in the second sitting:
- Item 6 below: the Sources API, its contract and the refinement.
- The `LogFlusher` lifetime of item 7 (`FileWriterFlushed`).
- Item 8: PostgreSQL's `\f \r \v` escapes are added to `CopyEncode`, and the
  characters FF, CR and VT to the round-trip run. Every arm of the parser's
  escape table is now exercised. A wrong entry, for example `r` mapped to LF,
  breaks `RoundTrip`.

Done in the third sitting:
- Panics as events: every panic the process can raise runs the hook chain
  installed at that instant, and a property over those panics replaces the invariant on
  the chain's shape. `TestTracingReadyOnReturn` now requires the terminal
  subscriber the doc comment promises. A third test thread is added.

Done in the fourth sitting:
- `TracingSetup`, the abstract set-up, and the refinement `SetupSpec`. It
  replaces the invariant over recorded panics. Because set_hook comes after
  the last step that can fail, no failure part-way through `init_tracing`
  leaves a tracing hook without a subscriber. The mutant
  `ConfigureProd_HookFirst` installs the hook earlier, and it breaks the
  refinement. This covers the partial-failure hazard at lib.rs:62.

Done in the fifth sitting (review):
- `RoundTripExact` and its run are removed. The collision it showed is what
  spec 4.1 step 3 and spec 8 prescribe, and `RoundTrip` already pins it.
- `AllCallersFinish` is removed. It held by std's Once semantics, whatever the
  repository's code did.
- `TracingSetup`'s panic records lost the `after_init` field. That field
  equalled "installed" on both sides by definition.
- `RefParse` is written with disjoint alternatives.
- Hazards that this code cannot meet are off the list.

Still open:
4. **RowParser refinement.** An abstract `RowConversion` in which one atomic
   step maps the input to the grammar's result, with `RowParser` mapped onto it
   through `INSTANCE ... WITH` that hides the loop state. Findings 1, 2 and 5
   make the code disagree with the grammar outside the hypothesis of
   `ParseFollowsGrammar`. Inside that hypothesis, the refinement would add only
   that `result` is written once, at the end. So it is low priority.
5. **Pipeline composition** (judged not worth a run). Spec 8 asks for
   `FrameLengthMatches` on rows produced by `parse`. A parsed row is a sequence
   of NULL and value cells, and `encoder_frame` already frames every NULL/value
   mix. The encoder's loops only disagree visibly from tag 16 on, and parsed
   rows within TLC's reach have at most three columns. A composed run would
   check a subset of what `encoder_frame` checks, and no mutant of the encoder
   could break it.
7. **Telemetry.** Whether a retry of `init_tracing` after a partial failure
   should succeed. It cannot, because the logger stays installed. Nothing
   states what it should do.
