------------------------------ MODULE MCTelemetry ------------------------------
(***************************************************************************)
(* Telemetry on a few events and small batches.                            *)
(***************************************************************************)
EXTENDS Telemetry
===============================================================================
