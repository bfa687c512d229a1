---------------------------- MODULE MC_CloudGate ----------------------------
(* Instances of CloudGate for TLC. *)
EXTENDS CloudGate, TLC

Symmetric == Permutations(Calls) \cup Permutations(Reasons)

=============================================================================
