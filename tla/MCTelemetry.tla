---------------------------- MODULE MCTelemetry -----------------------------
(***************************************************************************)
(* The acquisition task's packets as bytes, with the values of MCAdcTask.  *)
(***************************************************************************)
EXTENDS MCAdcTask, WireLayout
=============================================================================
