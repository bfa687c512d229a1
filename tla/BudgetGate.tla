----------------------------- MODULE BudgetGate -----------------------------
(***************************************************************************)
(* The day budget of the daemon's turns: a turn reads what the day has     *)
(* cost from the audit chain, reserves an estimate, runs, appends its real *)
(* cost to the chain and only then gives its reservation back.  The        *)
(* enforcer has a lock, the chain has another, and nothing holds both.     *)
(*                                                                         *)
(* Money is in whole units.  The cap denies (on_exceeded = Deny), and the  *)
(* costs all fall in the window of one day.                                *)
(***************************************************************************)
EXTENDS Naturals, FiniteSets

CONSTANTS Tasks,        \* tasks that run turns of the daemon's agent
          Specialists,  \* tasks that run turns of a team's specialists
          Cap,          \* per_day_usd
          Estimate,     \* the whole output budget of one model call
          MaxCost,      \* what a turn of several calls can really cost
          MaxStarts,    \* bound: turns started
          MaxMisreads   \* bound: failed reads of the chain

ASSUME BudgetAssumption ==
  /\ IsFiniteSet(Tasks)
  /\ Cap \in Nat /\ Estimate \in Nat /\ MaxCost \in Nat
  /\ MaxStarts \in Nat /\ MaxMisreads \in Nat

VARIABLES
  stage,      \* turn -> "idle", "read", "running" or "charged"
  figure,     \* turn -> the committed cost it read
  reserved,   \* BudgetEnforcer.reserved
  committed,  \* the sum of the chain's LlmCost events
  ungated,    \* the part of it that specialists spent
  overrun,    \* by how much turns have cost more than their estimate
  stale,      \* turns admitted on a figure that was no longer right
  starts, misreads

budgetVars == <<stage, figure, reserved, committed, ungated, overrun, stale, starts, misreads>>

-----------------------------------------------------------------------------

BudgetInit ==
  /\ stage = [t \in Tasks |-> "idle"]
  /\ figure = [t \in Tasks |-> 0]
  /\ reserved = 0 /\ committed = 0 /\ ungated = 0
  /\ overrun = 0 /\ stale = 0
  /\ starts = 0 /\ misreads = 0

(* open_turn first walks the chain; a failed read counts as nothing spent. *)
ReadCommitted(t, failed) ==
  /\ stage[t] = "idle"
  /\ starts < MaxStarts
  /\ failed => misreads < MaxMisreads
  /\ stage' = [stage EXCEPT ![t] = "read"]
  /\ figure' = [figure EXCEPT ![t] = IF failed THEN 0 ELSE committed]
  /\ starts' = starts + 1
  /\ misreads' = IF failed THEN misreads + 1 ELSE misreads
  /\ UNCHANGED <<reserved, committed, ungated, overrun, stale>>

Mut_ReservedNotCounted(t) == figure[t] + Estimate <= Cap

Admissible(t) == figure[t] + reserved + Estimate <= Cap

(* reserve, under the enforcer's lock *)
Reserve(t) ==
  /\ stage[t] = "read"
  /\ Admissible(t)
  /\ stage' = [stage EXCEPT ![t] = "running"]
  /\ reserved' = reserved + Estimate
  /\ stale' = IF figure[t] < committed THEN stale + 1 ELSE stale
  /\ UNCHANGED <<figure, committed, ungated, overrun, starts, misreads>>

(* The turn ends with BudgetExceeded: no model call, no cost. *)
RefuseTurn(t) ==
  /\ stage[t] = "read"
  /\ ~Admissible(t)
  /\ stage' = [stage EXCEPT ![t] = "idle"]
  /\ UNCHANGED <<figure, reserved, committed, ungated, overrun, stale, starts, misreads>>

(* The turn ends: its LlmCost events go on the chain. *)
Charge(t, cost) ==
  /\ stage[t] = "running"
  /\ stage' = [stage EXCEPT ![t] = "charged"]
  /\ committed' = committed + cost
  /\ overrun' = overrun + (IF cost > Estimate THEN cost - Estimate ELSE 0)
  /\ UNCHANGED <<figure, reserved, ungated, stale, starts, misreads>>

Mut_GuardKept(t) ==
  /\ stage[t] = "charged"
  /\ stage' = [stage EXCEPT ![t] = "idle"]
  /\ UNCHANGED <<figure, reserved, committed, ungated, overrun, stale, starts, misreads>>

(* Then the guard is dropped. *)
Release(t) ==
  /\ stage[t] = "charged"
  /\ stage' = [stage EXCEPT ![t] = "idle"]
  /\ reserved' = IF reserved >= Estimate THEN reserved - Estimate ELSE 0
  /\ UNCHANGED <<figure, committed, ungated, overrun, stale, starts, misreads>>

(* SpecialistFactory::build attaches no gate: a specialist's turn is not   *)
(* checked and reserves nothing; its cost goes on the same chain.          *)
SpecialistTurn(cost) ==
  /\ starts < MaxStarts
  /\ starts' = starts + 1
  /\ committed' = committed + cost
  /\ ungated' = ungated + cost
  /\ UNCHANGED <<stage, figure, reserved, overrun, stale, misreads>>

BudgetNext ==
  \/ \E t \in Tasks : \/ \E failed \in BOOLEAN : ReadCommitted(t, failed)
                      \/ Reserve(t) \/ RefuseTurn(t) \/ Release(t)
                      \/ \E cost \in 0 .. MaxCost : Charge(t, cost)
  \/ \E s \in Specialists, cost \in 0 .. MaxCost : SpecialistTurn(cost)

BudgetSpec == BudgetInit /\ [][BudgetNext]_budgetVars

-----------------------------------------------------------------------------
(* Properties *)

Running == {t \in Tasks : stage[t] = "running"}
Holding == {t \in Tasks : stage[t] \in {"running", "charged"}}

BudgetTypeOK ==
  /\ stage \in [Tasks -> {"idle", "read", "running", "charged"}]
  /\ figure \in [Tasks -> Nat]
  /\ reserved \in Nat /\ committed \in Nat /\ ungated \in Nat
  /\ overrun \in Nat /\ stale \in Nat
  /\ starts \in 0 .. MaxStarts /\ misreads \in 0 .. MaxMisreads

(* The reserved sum is the estimate of the turns that hold a guard: none   *)
(* leaks and none is given back twice, however turns overlap.              *)
ReservedIsHeld == reserved = Estimate * Cardinality(Holding)

(* What is spent, with what the running turns may still spend, passes the  *)
(* cap only by what specialists spent, what turns cost beyond their        *)
(* estimate, and one estimate for each turn admitted on a stale figure.    *)
OverspendExplained ==
  committed + Estimate * Cardinality(Running)
    <= Cap + Estimate * stale + overrun + ungated

(* "Every interactive / team turn is checked against the cap before any    *)
(* model call": turns that cost no more than their estimate do not pass    *)
(* the cap.                                                                *)
WithinCap == committed + Estimate * Cardinality(Running) <= Cap

=============================================================================
