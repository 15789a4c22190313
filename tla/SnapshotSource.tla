--------------------------- MODULE SnapshotSource ---------------------------
(***************************************************************************)
(* What the telemetry manager promises to those who read it: a lifecycle   *)
(* and a latest snapshot.  TelemetryManager implements it with a worker    *)
(* thread, a lock and a stop event; TelemetryService is built on it.       *)
(*                                                                         *)
(* A provider that fails to open or to close breaks the source for good,   *)
(* and how a source ends tells whether it was broken.                      *)
(***************************************************************************)
EXTENDS Naturals

VARIABLES status,       \* "stopped", "starting", "running" or "failed"
          latest,       \* sequence of the latest snapshot, 0 if there is none
          fault         \* the provider has failed since the source began

vars == <<status, latest, fault>>

Init == status = "stopped" /\ latest = 0 /\ fault = FALSE

Off == status \in {"stopped", "failed"}

(* A start is accepted when nothing runs; it may fail on the spot. *)
Begin ==
    /\ Off
    /\ status' = "starting"
    /\ UNCHANGED <<latest, fault>>

Refuse ==
    /\ Off
    /\ status' = "failed"
    /\ UNCHANGED <<latest, fault>>

Run ==
    /\ status = "starting" /\ ~fault
    /\ status' = "running"
    /\ UNCHANGED <<latest, fault>>

Publish ==
    /\ status = "running" /\ ~fault
    /\ latest' = latest + 1
    /\ UNCHANGED <<status, fault>>

Break ==
    /\ ~Off /\ ~fault
    /\ fault' = TRUE
    /\ UNCHANGED <<status, latest>>

(* What was broken ends as failed, and nothing else does. *)
End ==
    /\ \/ fault /\ ~Off /\ status' = "failed"
       \/ ~fault /\ status = "running" /\ status' = "stopped"
    /\ fault' = FALSE
    /\ UNCHANGED latest

Next == Begin \/ Refuse \/ Run \/ Publish \/ Break \/ End

Spec == Init /\ [][Next]_vars
=============================================================================
