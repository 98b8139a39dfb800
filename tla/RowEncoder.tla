----------------------------- MODULE RowEncoder -----------------------------
(***************************************************************************)
(* The prost::Message implementation of TableRow (feature "bigquery",      *)
(* etl/src/conversions/table_row.rs), as prost drives it when it frames a  *)
(* row (encode_length_delimited, encode_to_vec): encoded_len() is computed *)
(* first and written as the length prefix or used as the capacity, then    *)
(* encode_raw() writes the fields.  Each loop keeps its own `tag` counter, *)
(* starting at 1 and incremented once per cell.                            *)
(*                                                                         *)
(* Cell::encode_prost / Cell::encoded_len_prost are not in this            *)
(* repository: a NULL cell writes nothing, a value cell writes the varint  *)
(* key (tag << 3 | wire type) and a payload of `size` bytes.               *)
(***************************************************************************)
EXTENDS Integers, Sequences, SequencesExt

CONSTANTS
  Rows     \* rows the encoder may be given: sequences of cells

CellKind == [null : BOOLEAN, size : Nat]

ASSUME Rows \subseteq Seq(CellKind)

VARIABLES
  row,     \* the TableRow being encoded
  pc,      \* "len" | "encode" | "done"
  tag,     \* the `tag` local of the running loop
  idx,     \* position of the running `for cell in &self.values`
  len,     \* the `len` accumulator of encoded_len
  prefix,  \* encoded_len() as written into the frame's length prefix
  buf      \* fields written by encode_raw: [col, tag, bytes]

vars == <<row, pc, tag, idx, len, prefix, buf>>

\* prost::encoding::encoded_len_varint
RECURSIVE VarintLen(_)
VarintLen(v) == IF v < 128 THEN 1 ELSE 1 + VarintLen(v \div 128)

\* Length-delimited wire type for every value cell.
WireType == 2

KeyLen(t) == VarintLen(t * 8 + WireType)

\* Cell::encoded_len_prost(tag)
CellEncodedLen(cell, t) == IF cell.null THEN 0 ELSE KeyLen(t) + cell.size

\* Cell::encode_prost(tag, buf): the bytes it appends (Cell's own two
\* functions are taken to agree with each other).
CellBytes(cell, t) == CellEncodedLen(cell, t)

-----------------------------------------------------------------------------
Init ==
  /\ row \in Rows
  /\ pc = "len"
  /\ tag = 1
  /\ idx = 1
  /\ len = 0
  /\ prefix = 0
  /\ buf = <<>>

\* Mutant: encoded_len advances `tag` only past value cells.
LenStep_SkipNullTag ==
  /\ pc = "len" /\ idx <= Len(row)
  /\ len' = len + CellEncodedLen(row[idx], tag)
  /\ tag' = IF row[idx].null THEN tag ELSE tag + 1
  /\ idx' = idx + 1
  /\ UNCHANGED <<row, pc, prefix, buf>>

\* encoded_len: `len += cell.encoded_len_prost(tag); tag += 1;`
LenStep ==
  /\ pc = "len" /\ idx <= Len(row)
  /\ len' = len + CellEncodedLen(row[idx], tag)
  /\ tag' = tag + 1
  /\ idx' = idx + 1
  /\ UNCHANGED <<row, pc, prefix, buf>>

\* encoded_len returns `len`; the caller writes it as the prefix and calls
\* encode_raw, whose `tag` starts again at 1.
LenReturn ==
  /\ pc = "len" /\ idx > Len(row)
  /\ prefix' = len
  /\ pc' = "encode"
  /\ tag' = 1
  /\ idx' = 1
  /\ UNCHANGED <<row, len, buf>>

\* encode_raw: `cell.encode_prost(tag, buf); tag += 1;`
EncodeStep ==
  /\ pc = "encode" /\ idx <= Len(row)
  /\ buf' = IF row[idx].null THEN buf
            ELSE Append(buf, [col |-> idx, tag |-> tag,
                              bytes |-> CellBytes(row[idx], tag)])
  /\ tag' = tag + 1
  /\ idx' = idx + 1
  /\ UNCHANGED <<row, pc, len, prefix>>

EncodeReturn ==
  /\ pc = "encode" /\ idx > Len(row)
  /\ pc' = "done"
  /\ UNCHANGED <<row, tag, idx, len, prefix, buf>>

\* The frame is complete; the model stutters.
Framed == pc = "done" /\ UNCHANGED vars

Next == LenStep \/ LenReturn \/ EncodeStep \/ EncodeReturn \/ Framed

Spec == Init /\ [][Next]_vars /\ WF_vars(Next)

-----------------------------------------------------------------------------
BodyLen == FoldLeft(LAMBDA acc, f : acc + f.bytes, 0, buf)

(***************************************************************************)
(* Safety (spec 4.3, 6: encoded_len(row) = len(encode(row))): the length   *)
(* prefix written from encoded_len equals the number of bytes encode_raw   *)
(* then writes.  The two loops number cells independently, and the key of  *)
(* a field grows from one byte to two at tag 16, so a disagreement between *)
(* the loops only shows in rows of sixteen or more columns.                *)
(***************************************************************************)
FrameLengthMatches ==
  pc = "done" => prefix = BodyLen

=============================================================================
