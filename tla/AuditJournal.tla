---------------------------- MODULE AuditJournal ----------------------------
(***************************************************************************)
(* What a durable audit log promises to the tasks that write to it: each   *)
(* entry has the place after the last one recorded, and becomes durable at *)
(* that place after all before it, save places that were passed over.  A   *)
(* crash takes the entries that are not durable and nothing else; a        *)
(* journal with a place missing is not continued.                          *)
(***************************************************************************)
EXTENDS Naturals

CONSTANTS Place,         \* 0 .. some number
          JournalEntry

VARIABLES durable,    \* place -> entry that survives a crash
          volatile,   \* place -> entry recorded and lost in a crash
          skipped     \* places that were passed over

vars == <<durable, volatile, skipped>>

Places == DOMAIN durable \cup DOMAIN volatile
Whole  == \A n \in Places : 0 .. n - 1 \subseteq Places

Plus(f, n, e) == [m \in DOMAIN f \cup {n} |-> IF m = n THEN e ELSE f[m]]

Init == /\ durable = [n \in {} |-> 0] /\ volatile = [n \in {} |-> 0]
        /\ skipped = {}

Record(n, e) == /\ Places = 0 .. n - 1
                /\ volatile' = Plus(volatile, n, e)
                /\ UNCHANGED <<durable, skipped>>

Skip == /\ skipped \subseteq skipped' /\ skipped' \ skipped \subseteq Places
        /\ UNCHANGED <<durable, volatile>>

Persist(n) == /\ \A m \in 0 .. n - 1 : m \in DOMAIN durable \cup skipped
              /\ durable' = Plus(durable, n, volatile[n])
              /\ volatile' = [m \in DOMAIN volatile \ {n} |-> volatile[m]]
              /\ UNCHANGED skipped

LoseVolatile == /\ volatile' = [n \in {} |-> 0]
                /\ UNCHANGED <<durable, skipped>>

Continue == /\ DOMAIN volatile = {} /\ Whole
            /\ skipped' = {}
            /\ UNCHANGED <<durable, volatile>>

Next == \/ \E n \in Place, e \in JournalEntry : Record(n, e)
        \/ \E n \in DOMAIN volatile : Persist(n)
        \/ Skip \/ LoseVolatile \/ Continue

Spec == Init /\ [][Next]_vars

=============================================================================
