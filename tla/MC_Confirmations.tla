-------------------------- MODULE MC_Confirmations --------------------------
(* Instances of Confirmations for TLC. *)
EXTENDS Confirmations, TLC

CONSTANTS c1, c2, t1, t2, s1, s2, s3, l1, l2

SameTool == c1 :> t1 @@ c2 :> t1
OneCall  == c1 :> t1
TwoTools == c1 :> t1 @@ c2 :> t2
LedgerSymmetry == Permutations(Sessions)

=============================================================================
