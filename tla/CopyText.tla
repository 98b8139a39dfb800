------------------------------ MODULE CopyText ------------------------------
(***************************************************************************)
(* The COPY TEXT wire grammar the row parser consumes, as pure operators.  *)
(*                                                                         *)
(* Bytes and characters are abstract symbols: "1", "N", "n", "b" stand     *)
(* for themselves, BSL for the backslash, TAB and LF for 0x09 and 0x0A,    *)
(* BS for 0x08, FF CR VT for 0x0C 0x0D 0x0B, and WIDE for a              *)
(* non-ASCII character whose UTF-8 form is the two bytes LEAD CONT.        *)
(*                                                                         *)
(* The operators here are used in two roles: UnescapeChar, Utf8Valid and *)
(* Utf8Decode are what the parser does (they are mapped to its source);  *)
(* CopyEncode (PostgreSQL's COPY TO) and the Ref* operators (the grammar  *)
(* of spec 4.1) are the references the parser's state machine is checked *)
(* against.                                                                *)
(***************************************************************************)
EXTENDS Integers, Sequences, SequencesExt

BSL  == "BSL"
TAB  == "TAB"
LF   == "LF"
LEAD == "LEAD"
CONT == "CONT"
WIDE == "WIDE"

\* The text a NULL field carries: the two characters backslash and N.
NullText == <<BSL, "N">>

(***************************************************************************)
(* What the parser appends to its buffer for the character after a         *)
(* backslash: \N keeps both characters, b f n r t v become control         *)
(* characters, anything else is kept as is.                                *)
(***************************************************************************)
ControlOf == ("b" :> "BS") @@ ("f" :> "FF") @@ ("n" :> LF) @@ ("r" :> "CR")
               @@ ("t" :> TAB) @@ ("v" :> "VT")

UnescapeChar(c) ==
  IF c = "N" THEN NullText
  ELSE IF c \in DOMAIN ControlOf THEN <<ControlOf[c]>>
  ELSE <<c>>

(***************************************************************************)
(* str::from_utf8: a LEAD byte must be followed by a CONT byte and a CONT  *)
(* byte must follow a LEAD byte; the pair decodes to one WIDE character.   *)
(***************************************************************************)
RECURSIVE Utf8Valid(_)
Utf8Valid(bs) ==
  \/ bs = <<>>
  \/ /\ Head(bs) = LEAD
     /\ Len(bs) >= 2 /\ bs[2] = CONT
     /\ Utf8Valid(Tail(Tail(bs)))
  \/ /\ Head(bs) \notin {LEAD, CONT}
     /\ Utf8Valid(Tail(bs))

RECURSIVE Utf8Decode(_)
Utf8Decode(bs) ==
  IF bs = <<>> THEN <<>>
  ELSE IF Head(bs) = LEAD THEN <<WIDE>> \o Utf8Decode(Tail(Tail(bs)))
  ELSE <<Head(bs)>> \o Utf8Decode(Tail(bs))

Utf8Encode(cs) ==
  FlattenSeq([i \in DOMAIN cs |-> IF cs[i] = WIDE THEN <<LEAD, CONT>>
                                                   ELSE <<cs[i]>>])

-----------------------------------------------------------------------------
(***************************************************************************)
(* Reference: PostgreSQL's COPY TO text output (CopyAttributeOutText).     *)
(* A NULL field is written \N; in a value the backslash, the control       *)
(* characters and the delimiter are escaped; fields are joined by TAB and  *)
(* the record ends with LF.  A cell is "null" or a value with its text.    *)
(***************************************************************************)
EscapeOut(c) ==
  CASE c = BSL  -> <<BSL, BSL>>
    [] c = "BS" -> <<BSL, "b">>
    [] c = "FF" -> <<BSL, "f">>
    [] c = LF   -> <<BSL, "n">>
    [] c = "CR" -> <<BSL, "r">>
    [] c = TAB  -> <<BSL, "t">>
    [] c = "VT" -> <<BSL, "v">>
    [] OTHER    -> <<c>>

FieldOut(cell) ==
  IF cell.kind = "null" THEN NullText
  ELSE FlattenSeq([i \in DOMAIN cell.text |-> EscapeOut(cell.text[i])])

RECURSIVE JoinFields(_)
JoinFields(fs) ==
  IF Len(fs) <= 1 THEN FlattenSeq(fs)
  ELSE Head(fs) \o <<TAB>> \o JoinFields(Tail(fs))

CopyEncode(row) ==
  Utf8Encode(JoinFields([i \in DOMAIN row |-> FieldOut(row[i])]) \o <<LF>>)

(***************************************************************************)
(* Reference lexer of the grammar of spec 4.1: a character stream becomes  *)
(* a sequence of tokens, each a separator (TAB or LF) or a piece of field  *)
(* text; a backslash with nothing after it is a dangling escape.           *)
(***************************************************************************)
\* The escape table of spec 4.1 step 2.
SpecEscape(c) ==
  CASE c = "b" -> <<"BS">>
    [] c = "f" -> <<"FF">>
    [] c = "n" -> <<LF>>
    [] c = "r" -> <<"CR">>
    [] c = "t" -> <<TAB>>
    [] c = "v" -> <<"VT">>
    [] c = "N" -> NullText
    [] OTHER   -> <<c>>

Sep(c)   == [sep |-> c, text |-> <<>>]
Piece(s) == [sep |-> "none", text |-> s]
Dangling == [sep |-> "dangling", text |-> <<>>]

RECURSIVE RefLex(_)
RefLex(cs) ==
  CASE cs = <<>> -> <<>>
    [] Head(cs) = BSL /\ Len(cs) = 1 -> <<Dangling>>
    [] Head(cs) = BSL -> <<Piece(SpecEscape(cs[2]))>> \o RefLex(Tail(Tail(cs)))
    [] Head(cs) \in {TAB, LF} -> <<Sep(Head(cs))>> \o RefLex(Tail(cs))
    [] OTHER -> <<Piece(<<Head(cs)>>)>> \o RefLex(Tail(cs))

\* The unescaped texts of the fields of a token sequence, split at separators.
RECURSIVE RefFields(_, _)
RefFields(toks, cur) ==
  IF toks = <<>> THEN <<cur>>
  ELSE IF Head(toks).sep \in {TAB, LF}
       THEN <<cur>> \o RefFields(Tail(toks), <<>>)
       ELSE RefFields(Tail(toks), cur \o Head(toks).text)

\* A character stream that is exactly one record: one unescaped LF, last.
SingleRecord(cs) ==
  LET toks == RefLex(cs)
  IN /\ toks # <<>>
     /\ Last(toks) = Sep(LF)
     /\ \A i \in 1..Len(toks) - 1 : toks[i].sep \in {"none", TAB}

\* The unescaped field texts of a single record (the empty text after the
\* terminating LF dropped).
RecordFields(cs) == Front(RefFields(RefLex(cs), <<>>))
=============================================================================
