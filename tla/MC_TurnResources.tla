-------------------------- MODULE MC_TurnResources --------------------------
(* Instances of TurnResources for TLC. *)
EXTENDS TurnResources, TLC

(* Each limit can be the only one that is reached: the turn's by a fetch and
   a shell, the tool's by a shell, the window's by fetches of two turns. *)
MCToolCap == [k \in Tools |-> IF k = "shell" THEN 1 ELSE Nothing]
MCWindowCap == [k \in Tools |-> IF k = "fetch" THEN 2 ELSE Nothing]
MCWindow == [k \in Tools |-> 2]

(* The two parts of the model meet in the turns' starts and ends only.  Two
   turns meet at the limiter, all at the pool, which has a slot too few. *)
MCSetups == {[action |-> a, kv |-> FALSE, turns |-> {t, u}] :
               a \in {"deny", "alert"}, t \in Turns, u \in Turns}
            \cup {[action |-> "none", kv |-> TRUE, turns |-> Turns]}

Symmetric == Permutations(Turns) \cup Permutations(Prefixes)

=============================================================================
