---------------------------- MODULE MC_LoopDriver ----------------------------
(* Instances of LoopDriver for TLC. *)
EXTENDS LoopDriver, TLC

(* The plain loop, and the loop with all it can have. *)
MCPolicies ==
  {[gate |-> on, judge |-> on, delegate |-> on, escalate |-> on, resume |-> on] :
     on \in BOOLEAN}

(* A full backlog, and one that gets its last story later. *)
MCBacklogs == {Stories, Stories \ {Max(Stories)}}

=============================================================================
