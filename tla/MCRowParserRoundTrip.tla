------------------------ MODULE MCRowParserRoundTrip ------------------------
(***************************************************************************)
(* try_from on what PostgreSQL's COPY TO writes for a row: every row of    *)
(* MinCols..MaxCols columns whose cells are NULL or a value of up to       *)
(* MaxText characters, each encoded by CopyEncode.  With Truncate, every   *)
(* proper prefix of each encoded record is passed as well, as a caller     *)
(* whose read stopped mid-record would.                                    *)
(***************************************************************************)
EXTENDS RowParser

CONSTANTS MinCols, MaxCols, MaxText, Truncate,
  TextChars  \* characters a text value may hold

MCTypes == {"int", "text"}

ValuesOf(t) ==
  {TryFromStr(t, s) :
     s \in {s \in SeqOf(IF t = "text" THEN TextChars ELSE {"1"}, MaxText) :
              Decodes(t, s)}}

CellsOf(t) == {NullCell(t)} \cup ValuesOf(t)

MCRows ==
  UNION {UNION {{r \in [1..k -> UNION {CellsOf(t) : t \in MCTypes}] :
                   \A i \in 1..k : r[i].typ = ts[i]} : ts \in [1..k -> MCTypes]}
         : k \in MinCols..MaxCols}

SchemaOf(r) == [i \in DOMAIN r |-> [name |-> i, typ |-> r[i].typ]]

Prefixes_(bs) == IF Truncate THEN {SubSeq(bs, 1, k) : k \in 0..Len(bs)} ELSE {bs}

MCCalls == UNION {{<<p, SchemaOf(r)>> : p \in Prefixes_(CopyEncode(r))} : r \in MCRows}

\* History variable: the row COPY TO encoded, and whether the whole record
\* (not a proper prefix of it) is passed to try_from.
VARIABLE source

MCInit ==
  \E r \in MCRows : \E p \in Prefixes_(CopyEncode(r)) :
    /\ InitCall(p, SchemaOf(r))
    /\ source = [row |-> r, whole |-> p = CopyEncode(r)]

MCSpec == MCInit /\ [][Next /\ UNCHANGED source]_<<vars, source>>
            /\ WF_<<vars, source>>(Next /\ UNCHANGED source)

\* A value whose text is exactly \N comes back as NULL (spec 9).
Collapse(r) ==
  [i \in DOMAIN r |-> IF r[i].kind = "value" /\ r[i].text = NullText
                        THEN NullCell(r[i].typ) ELSE r[i]]

(***************************************************************************)
(* Safety (spec 8, first property): parsing what COPY TO wrote for a row   *)
(* gives that row back, except that a text value equal to \N becomes       *)
(* NULL; exercises the escape table, the reset of in_escape, the clearing  *)
(* of val_str between fields and the NULL test on unescaped text.          *)
(***************************************************************************)
RoundTrip ==
  Finished /\ source.whole => result = Ok(Collapse(source.row))

(***************************************************************************)
(* Safety (spec 7: UnterminatedRecord signals a truncated read, to be      *)
(* treated as "need more bytes"): every proper prefix of an encoded record *)
(* is reported as UnterminatedRow.  try_from runs str::from_utf8 on the    *)
(* whole buffer before scanning it.                                        *)
(***************************************************************************)
TruncatedReadIsUnterminated ==
  Finished /\ ~source.whole => result = Err("UnterminatedRow")
=============================================================================
