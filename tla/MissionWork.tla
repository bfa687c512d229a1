----------------------------- MODULE MissionWork -----------------------------
(***************************************************************************)
(* What a team mission promises about its plan: a step is begun at most    *)
(* once per attempt, after everything it depends on; a human gate is       *)
(* decided once, and a refused one ends the work; a further attempt starts *)
(* only after a finished one, and their number is bounded.                 *)
(***************************************************************************)
EXTENDS Naturals, FiniteSets

CONSTANTS Steps, Deps, Gates, MaxAttempts

VARIABLES work,     \* step -> "no", "going", "done"
          granted, refused,   \* gates decided in this attempt
          attempt,
          crossed   \* two decisions were taken on one snapshot: no promise

workVars == <<work, granted, refused, attempt, crossed>>

Passed(s) == work[s] = "done" \/ s \in granted

Init == /\ work = [s \in Steps |-> "no"]
        /\ granted = {} /\ refused = {}
        /\ attempt = 1 /\ crossed = FALSE

Begin(S) == /\ refused = {}
            /\ \A s \in S : work[s] = "no" /\ \A p \in Deps[s] : Passed(p)
            /\ work' = [s \in Steps |-> IF s \in S THEN "going" ELSE work[s]]
            /\ UNCHANGED <<granted, refused, attempt, crossed>>

Finish(S) == /\ \A s \in S : work[s] = "going"
             /\ work' = [s \in Steps |-> IF s \in S THEN "done" ELSE work[s]]
             /\ UNCHANGED <<granted, refused, attempt, crossed>>

Undecided(g) == /\ g \notin granted /\ refused = {}
                /\ \A p \in Deps[g] : Passed(p)

Grant(g)  == /\ Undecided(g)
             /\ granted' = granted \cup {g}
             /\ UNCHANGED <<work, refused, attempt, crossed>>

Refuse(g) == /\ Undecided(g)
             /\ refused' = {g}
             /\ UNCHANGED <<work, granted, attempt, crossed>>

Again == /\ attempt < MaxAttempts
         /\ \A s \in Steps : Passed(s)
         /\ work' = [s \in Steps |-> "no"]
         /\ granted' = {} /\ refused' = {}
         /\ attempt' = attempt + 1 /\ UNCHANGED crossed

Next == \/ \E S \in SUBSET (Steps \ Gates) : S # {} /\ (Begin(S) \/ Finish(S))
        \/ \E g \in Gates : Grant(g) \/ Refuse(g)
        \/ Again
        \/ crossed'

Spec == Init /\ [][Next]_workVars

=============================================================================
