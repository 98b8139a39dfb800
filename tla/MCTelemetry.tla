---------------------------- MODULE MCTelemetry ----------------------------
(***************************************************************************)
(* One application thread and three test threads in one process.           *)
(***************************************************************************)
EXTENDS Telemetry, TLC

CONSTANTS app1, test1, test2, test3

MCThreads == {app1, test1, test2, test3}
MCRole == (app1 :> "app") @@ (test1 :> "test") @@ (test2 :> "test") @@ (test3 :> "test")
=============================================================================
