------------------------- MODULE MCTelemetryService -------------------------
(* TelemetryService for TLC. *)
EXTENDS TelemetryService
=============================================================================
