--------------------------- MODULE MC_ParkedSteps ---------------------------
(* Instances of ParkedSteps for TLC. *)
EXTENDS ParkedSteps, TLC

=============================================================================
