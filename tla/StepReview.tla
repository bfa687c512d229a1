----------------------------- MODULE StepReview -----------------------------
(***************************************************************************)
(* What the review queue promises: a step is parked once, waits, and takes *)
(* one outcome that never changes; at most MaxPending wait at a time; only *)
(* a step that has its outcome may be forgotten.                           *)
(***************************************************************************)
EXTENDS Naturals, FiniteSets

CONSTANTS Ids, MaxPending

VARIABLE status

Outcome == {"approved", "failed", "denied", "lapsed"}
Waiting == {i \in Ids : status[i] = "pending"}

Init == status = [i \in Ids |-> "absent"]

Park(i) == /\ status[i] = "absent"
           /\ Cardinality(Waiting) < MaxPending
           /\ status' = [status EXCEPT ![i] = "pending"]

Resolve(i, o) == /\ status[i] = "pending"
                 /\ status' = [status EXCEPT ![i] = o]

Forget(i) == /\ status[i] \in Outcome
             /\ status' = [status EXCEPT ![i] = "forgotten"]

Next == \E i \in Ids : \/ Park(i) \/ Forget(i)
                       \/ \E o \in Outcome : Resolve(i, o)

Spec == Init /\ [][Next]_status

=============================================================================
