-------------------------- MODULE MCTelemetrySocket --------------------------
(* TelemetrySocket for TLC. *)
EXTENDS TelemetrySocket
=============================================================================
