----------------------------- MODULE MC_Routines -----------------------------
(* Instances of Routines for TLC. *)
EXTENDS Routines

(* A routine for the first and the last time, and one for the last only. *)
MCCrons == {{1, MaxTime}, {MaxTime}}

=============================================================================
