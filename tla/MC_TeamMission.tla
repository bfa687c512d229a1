---------------------------- MODULE MC_TeamMission ----------------------------
(* Instances of TeamMission for TLC. *)
EXTENDS TeamMission, TLC

(* 1 and 2 first, 3 and 5 are gates after 1, 4 needs 2 and gate 3. *)
MCDeps == (1 :> {}) @@ (2 :> {}) @@ (3 :> {1}) @@ (4 :> {2, 3}) @@ (5 :> {1})

(* A mission that can be verified and tried again, with a budget that the
   first attempt uses up and one that lasts; a budget that ends between its
   gates, without verification; a service without an operator. *)
MCPolicies ==
  {[headless |-> FALSE, verify |-> TRUE, cap |-> c] : c \in {3, 7}}
  \cup {[headless |-> FALSE, verify |-> FALSE, cap |-> 2],
        [headless |-> TRUE, verify |-> TRUE, cap |-> 7]}

(* Where decisions have crossed every property is off: no step from there. *)
NotCrossed == ~crossed

=============================================================================
