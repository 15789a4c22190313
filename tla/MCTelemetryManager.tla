------------------------- MODULE MCTelemetryManager -------------------------
(* TelemetryManager for TLC. *)
EXTENDS TelemetryManager
=============================================================================
