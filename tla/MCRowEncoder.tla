---------------------------- MODULE MCRowEncoder ----------------------------
(***************************************************************************)
(* Rows of every width in Widths.  Rows of up to SmallWidth columns have   *)
(* every combination of NULL and value cells; wider rows have value cells  *)
(* up to their last Tail_ columns, which take every combination, so that   *)
(* NULLs and values both sit on either side of tag 16.                     *)
(***************************************************************************)
EXTENDS RowEncoder

CONSTANTS Widths, SmallWidth, Tail_

Kinds == {[null |-> TRUE, size |-> 0], [null |-> FALSE, size |-> 1]}
Value == [null |-> FALSE, size |-> 1]

MCRows ==
  UNION {IF w <= SmallWidth THEN [1..w -> Kinds]
         ELSE {[i \in 1..w |-> IF i <= w - Tail_ THEN Value ELSE t[i - (w - Tail_)]] :
                 t \in [1..Tail_ -> Kinds]}
         : w \in Widths}
=============================================================================
