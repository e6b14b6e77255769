----------------------- MODULE MCIncidentLifecycle -------------------------
(* Instances of IncidentLifecycle for TLC. *)
EXTENDS IncidentLifecycle
============================================================================
