---------------------------- MODULE MC_BudgetGate ----------------------------
(* Instances of BudgetGate for TLC. *)
EXTENDS BudgetGate, TLC

TaskSymmetry == Permutations(Tasks)

=============================================================================
