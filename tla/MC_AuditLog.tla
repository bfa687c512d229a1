----------------------------- MODULE MC_AuditLog -----------------------------
(* The log for TLC.  Its configurations only differ in the constants; a run *)
(* that checks liveness must not use symmetry, so none is defined.          *)
EXTENDS AuditLog

=============================================================================
