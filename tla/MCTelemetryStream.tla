------------------------- MODULE MCTelemetryStream --------------------------
(* TelemetryStream for TLC. *)
EXTENDS TelemetryStream
=============================================================================
