---------------------------- MODULE TracingSetup ----------------------------
(***************************************************************************)
(* What the process-wide tracing set-up promises (spec 9; telemetry        *)
(* lib.rs 145-148): tracing is installed at most once and at once, a       *)
(* subscriber writing to a file or to the terminal together with a panic   *)
(* hook that wraps the previous one; every panic of the process is logged  *)
(* to that subscriber when one is installed and is then reported on stderr *)
(* by the default hook.  Callers, failures and the Once are not visible    *)
(* here: they only decide whether and when Install happens.                *)
(***************************************************************************)
EXTENDS Sequences

VARIABLES
  installed,  \* "none", or the writer of the installed subscriber
  panics      \* every panic so far: what its hooks wrote

vars == <<installed, panics>>

Writers == {"file", "stdout"}

\* The chain a panic runs: the tracing hook first, if any, then stderr.
Report == IF installed = "none" THEN <<"stderr">> ELSE <<installed, "stderr">>

Init ==
  /\ installed = "none"
  /\ panics = <<>>

Install ==
  /\ installed = "none"
  /\ \E w \in Writers : installed' = w
  /\ UNCHANGED panics

Panic ==
  /\ panics' = Append(panics, [report |-> Report])
  /\ UNCHANGED installed

Next == Install \/ Panic

Spec == Init /\ [][Next]_vars
=============================================================================
