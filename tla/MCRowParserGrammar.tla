------------------------- MODULE MCRowParserGrammar -------------------------
(***************************************************************************)
(* try_from on every byte string up to MaxLen bytes over a small alphabet  *)
(* (each grammar-relevant byte, one escape letter, both halves of a        *)
(* two-byte UTF-8 character) against every schema of up to MaxCols        *)
(* columns.                                                                *)
(***************************************************************************)
EXTENDS RowParser

CONSTANTS MaxLen, MaxCols

MCTypes == {"int", "text"}

MCBytes == {"1", "N", "n", BSL, TAB, LF, LEAD, CONT}

MCSchemas ==
  UNION {[1..k -> MCTypes] : k \in 0..MaxCols}

MCCalls ==
  {<<bs, [i \in DOMAIN ts |-> [name |-> i, typ |-> ts[i]]]>> :
     bs \in SeqOf(MCBytes, MaxLen), ts \in MCSchemas}
=============================================================================
