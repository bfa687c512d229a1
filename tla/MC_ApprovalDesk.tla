--------------------------- MODULE MC_ApprovalDesk ---------------------------
(* Instances of ApprovalDesk for TLC. *)
EXTENDS ApprovalDesk, TLC

=============================================================================
