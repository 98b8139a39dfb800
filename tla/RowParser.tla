----------------------------- MODULE RowParser -----------------------------
(***************************************************************************)
(* TableRowConverter::try_from (etl/src/conversions/table_row.rs): one     *)
(* call parses one COPY TEXT record against a column schema.  A state of   *)
(* this module is a point inside that call: the remaining characters of    *)
(* the `chars` iterator, the reused `val_str` buffer, the `in_escape` and  *)
(* `row_terminated` flags, the position of `column_schemas_iter`, and the  *)
(* `values` built so far.  One step is one turn of the inner loop (one     *)
(* character or the end of input) or the per-field block after it.        *)
(*                                                                         *)
(* The call's arguments are chosen by Init from the constant Calls; the    *)
(* Field Decoder (TextFormatConverter::try_from_str, not in this           *)
(* repository) is the pure operator TryFromStr.                            *)
(***************************************************************************)
EXTENDS Integers, Sequences, CopyText

CONSTANTS
  Types,   \* column type tags
  Calls    \* set of <<row bytes, column schemas>> the caller may pass

Column == [name : Nat, typ : Types]

ASSUME \A call \in Calls : call[2] \in Seq(Column)

VARIABLES
  input,          \* the `row` argument: a sequence of bytes
  schema,         \* the `column_schemas` argument
  pc,             \* "utf8" | "scan" | "field" | "done"
  chars,          \* characters not yet returned by `chars.next()`
  colIdx,         \* index of the next entry of `column_schemas_iter`
  val_str,        \* the reused field buffer
  in_escape,
  row_terminated,
  values,         \* cells pushed so far
  result,         \* the returned Result, or kind "none" while running
  log             \* the `error!` record emitted before a decode error

vars == <<input, schema, pc, chars, colIdx, val_str, in_escape,
          row_terminated, values, result, log>>

\* Characters of a &str: never a lone byte of a multi-byte sequence.
Char == STRING \ {LEAD, CONT}
Cell == [kind : {"null", "value"}, typ : Types, text : Seq(Char)]
NullCell(t) == [kind |-> "null", typ |-> t, text |-> <<>>]

Ok(row)  == [kind |-> "Ok", row |-> row]
Err(k)   == [kind |-> k, row |-> <<>>]
ErrorKinds == {"InvalidString", "NumColsMismatch", "UnterminatedRow",
               "InvalidValue"}
NoLog == [col |-> 0, typ |-> "none", text |-> <<>>]

(***************************************************************************)
(* The Field Decoder: a "text" column accepts any text, an "int" column a  *)
(* non-empty run of digits; anything else is a FromTextError.              *)
(***************************************************************************)
Decodes(typ, s) ==
  \/ typ = "text"
  \/ typ = "int" /\ s # <<>> /\ \A i \in DOMAIN s : s[i] = "1"
TryFromStr(typ, s) == [kind |-> "value", typ |-> typ, text |-> s]

-----------------------------------------------------------------------------
\* try_from(row, column_schemas) is entered.
InitCall(row, column_schemas) ==
    /\ input = row
    /\ schema = column_schemas
    /\ pc = "utf8"
    /\ chars = <<>>
    /\ colIdx = 1
    /\ val_str = <<>>
    /\ in_escape = FALSE
    /\ row_terminated = FALSE
    /\ values = <<>>
    /\ result = [kind |-> "none", row |-> <<>>]
    /\ log = NoLog

Init == \E call \in Calls : InitCall(call[1], call[2])

\* Mutant: the bytes are scanned as they are, not decoded to characters.
FromUtf8_Bytes ==
  /\ pc = "utf8"
  /\ IF Utf8Valid(input)
       THEN /\ chars' = input
            /\ pc' = "scan"
            /\ UNCHANGED result
       ELSE /\ result' = Err("InvalidString")
            /\ pc' = "done"
            /\ UNCHANGED chars
  /\ UNCHANGED <<input, schema, colIdx, val_str, in_escape, row_terminated,
                 values, log>>

\* let row_str = str::from_utf8(row)?;
FromUtf8 ==
  /\ pc = "utf8"
  /\ IF Utf8Valid(input)
       THEN /\ chars' = Utf8Decode(input)
            /\ pc' = "scan"
            /\ UNCHANGED result
       ELSE /\ result' = Err("InvalidString")
            /\ pc' = "done"
            /\ UNCHANGED chars
  /\ UNCHANGED <<input, schema, colIdx, val_str, in_escape, row_terminated,
                 values, log>>

\* Mutant: `in_escape = false` is missing.
ScanEscaped_StayEscaped ==
  /\ pc = "scan" /\ chars # <<>> /\ in_escape
  /\ val_str' = val_str \o UnescapeChar(Head(chars))
  /\ chars' = Tail(chars)
  /\ UNCHANGED <<input, schema, pc, colIdx, in_escape, row_terminated, values,
                 result, log>>

\* Inner loop, `Some(c)` with `in_escape`: the escape table, then
\* `in_escape = false`.
ScanEscaped ==
  /\ pc = "scan" /\ chars # <<>> /\ in_escape
  /\ val_str' = val_str \o UnescapeChar(Head(chars))
  /\ in_escape' = FALSE
  /\ chars' = Tail(chars)
  /\ UNCHANGED <<input, schema, pc, colIdx, row_terminated, values, result, log>>

\* Mutant: the '\t' arm also marks the row terminated.
ScanTab_Terminates ==
  /\ pc = "scan" /\ chars # <<>> /\ ~in_escape /\ Head(chars) = TAB
  /\ chars' = Tail(chars)
  /\ row_terminated' = TRUE
  /\ pc' = "field"
  /\ UNCHANGED <<input, schema, colIdx, val_str, in_escape, values, result, log>>

\* '\t' => break: the field is complete.
ScanTab ==
  /\ pc = "scan" /\ chars # <<>> /\ ~in_escape /\ Head(chars) = TAB
  /\ chars' = Tail(chars)
  /\ pc' = "field"
  /\ UNCHANGED <<input, schema, colIdx, val_str, in_escape, row_terminated,
                 values, result, log>>

\* '\n' => { row_terminated = true; break }
ScanNewline ==
  /\ pc = "scan" /\ chars # <<>> /\ ~in_escape /\ Head(chars) = LF
  /\ chars' = Tail(chars)
  /\ row_terminated' = TRUE
  /\ pc' = "field"
  /\ UNCHANGED <<input, schema, colIdx, val_str, in_escape, values, result, log>>

\* '\\' => in_escape = true
ScanBackslash ==
  /\ pc = "scan" /\ chars # <<>> /\ ~in_escape /\ Head(chars) = BSL
  /\ chars' = Tail(chars)
  /\ in_escape' = TRUE
  /\ UNCHANGED <<input, schema, pc, colIdx, val_str, row_terminated, values,
                 result, log>>

\* c => val_str.push(c)
ScanPlain ==
  /\ pc = "scan" /\ chars # <<>> /\ ~in_escape
  /\ Head(chars) \notin {TAB, LF, BSL}
  /\ chars' = Tail(chars)
  /\ val_str' = Append(val_str, Head(chars))
  /\ UNCHANGED <<input, schema, pc, colIdx, in_escape, row_terminated, values,
                 result, log>>

\* None => an error unless a '\n' was seen; otherwise `done`, the outer loop
\* exits and Ok(TableRow { values }) is returned.
EndOfInput ==
  /\ pc = "scan" /\ chars = <<>>
  /\ result' = IF row_terminated THEN Ok(values) ELSE Err("UnterminatedRow")
  /\ pc' = "done"
  /\ UNCHANGED <<input, schema, chars, colIdx, val_str, in_escape,
                 row_terminated, values, log>>

\* `if !done`: take the next column schema or fail with NumColsMismatch.
NoColumnLeft ==
  /\ pc = "field" /\ colIdx > Len(schema)
  /\ result' = Err("NumColsMismatch")
  /\ pc' = "done"
  /\ UNCHANGED <<input, schema, chars, colIdx, val_str, in_escape,
                 row_terminated, values, log>>

\* Mutant: `val_str.clear()` is missing.
PushField_NoClear ==
  /\ pc = "field" /\ colIdx <= Len(schema)
  /\ LET col == schema[colIdx] IN
       /\ val_str = NullText \/ Decodes(col.typ, val_str)
       /\ values' = Append(values,
                           IF val_str = NullText THEN NullCell(col.typ)
                                                 ELSE TryFromStr(col.typ, val_str))
  /\ colIdx' = colIdx + 1
  /\ pc' = "scan"
  /\ UNCHANGED <<input, schema, chars, val_str, in_escape, row_terminated,
                 result, log>>

\* The field is NULL or decodes: push the cell, clear the buffer.
PushField ==
  /\ pc = "field" /\ colIdx <= Len(schema)
  /\ LET col == schema[colIdx] IN
       /\ val_str = NullText \/ Decodes(col.typ, val_str)
       /\ values' = Append(values,
                           IF val_str = NullText THEN NullCell(col.typ)
                                                 ELSE TryFromStr(col.typ, val_str))
  /\ val_str' = <<>>
  /\ colIdx' = colIdx + 1
  /\ pc' = "scan"
  /\ UNCHANGED <<input, schema, chars, in_escape, row_terminated, result, log>>

\* The decoder fails: log column name, type and text, return InvalidValue.
DecodeFailed ==
  /\ pc = "field" /\ colIdx <= Len(schema)
  /\ LET col == schema[colIdx] IN
       /\ val_str # NullText
       /\ ~Decodes(col.typ, val_str)
       /\ log' = [col |-> col.name, typ |-> col.typ, text |-> val_str]
  /\ result' = Err("InvalidValue")
  /\ pc' = "done"
  /\ UNCHANGED <<input, schema, chars, colIdx, val_str, in_escape,
                 row_terminated, values>>

\* The call has returned; the model stutters.
Returned == pc = "done" /\ UNCHANGED vars

Next ==
  \/ FromUtf8
  \/ ScanEscaped \/ ScanTab \/ ScanNewline \/ ScanBackslash \/ ScanPlain
  \/ EndOfInput
  \/ NoColumnLeft \/ PushField \/ DecodeFailed
  \/ Returned

Spec == Init /\ [][Next]_vars /\ WF_vars(Next)

-----------------------------------------------------------------------------
Finished == pc = "done"

TypeOK ==
  /\ pc \in {"utf8", "scan", "field", "done"}
  /\ colIdx \in 1..Len(schema) + 1
  /\ chars \in Seq(Char)
  /\ values \in Seq(Cell)
  /\ in_escape \in BOOLEAN /\ row_terminated \in BOOLEAN
  /\ result.kind \in {"none", "Ok"} \cup ErrorKinds

(***************************************************************************)
(* The result the grammar of spec 4.1 prescribes for the field texts fs of *)
(* a record and the schema sc: fields are consumed in lockstep with the    *)
(* columns, a text equal to \N is NULL, the first field the decoder        *)
(* rejects is logged and fails the row, and a count mismatch is an error.  *)
(***************************************************************************)
RECURSIVE RefParse(_, _, _, _)
RefParse(fs, sc, i, acc) ==
  IF i > Len(fs) \/ i > Len(sc)
    THEN [res |-> IF Len(fs) = Len(sc) THEN Ok(acc) ELSE Err("NumColsMismatch"),
          log |-> NoLog]
    ELSE CASE fs[i] = NullText ->
                RefParse(fs, sc, i + 1, Append(acc, NullCell(sc[i].typ)))
           [] fs[i] # NullText /\ Decodes(sc[i].typ, fs[i]) ->
                RefParse(fs, sc, i + 1, Append(acc, TryFromStr(sc[i].typ, fs[i])))
           [] fs[i] # NullText /\ ~Decodes(sc[i].typ, fs[i]) ->
                [res |-> Err("InvalidValue"),
                 log |-> [col |-> sc[i].name, typ |-> sc[i].typ, text |-> fs[i]]]

\* The input is valid UTF-8 text holding exactly one LF-terminated record.
WellFormedRecord ==
  Utf8Valid(input) /\ SingleRecord(Utf8Decode(input))

(***************************************************************************)
(* Safety: for a well-formed record with at least as many fields as the    *)
(* schema has columns, the character-at-a-time loop of try_from (escape    *)
(* flag, reused val_str buffer, column iterator, \N test on the unescaped  *)
(* text) returns exactly what the grammar prescribes, and a decode error   *)
(* is logged with the name, type and text of the first failing column.     *)
(***************************************************************************)
ParseFollowsGrammar ==
  Finished /\ WellFormedRecord
  /\ Len(RecordFields(Utf8Decode(input))) >= Len(schema)
  => [res |-> result, log |-> log] = RefParse(RecordFields(Utf8Decode(input)), schema, 1, <<>>)

(***************************************************************************)
(* Safety (spec 3, 4.1 step 4, 8): a row that parses has one value per     *)
(* column of the schema; try_from never checks that column_schemas_iter    *)
(* is exhausted when the input ends.                                       *)
(***************************************************************************)
RowWidthMatchesSchema ==
  Finished /\ result.kind = "Ok" => Len(result.row) = Len(schema)

(***************************************************************************)
(* Safety (spec 4.1, 6: one record per call, terminated by a single LF):   *)
(* a successful parse consumed exactly one record; try_from keeps reading  *)
(* fields after the terminating '\n'.                                      *)
(***************************************************************************)
OkOnlyForOneRecord ==
  Finished /\ result.kind = "Ok" => WellFormedRecord
=============================================================================
