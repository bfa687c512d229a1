-------------------------- MODULE TeamMission_proofs --------------------------
(***************************************************************************)
(* Proofs about TeamMission, for any plan, budgets, bounds and operators.  *)
(* Every operator may decide at any time, several of them on the same      *)
(* record; once such decisions have crossed only the types are left (what  *)
(* the properties promise ends there: two drives then work on the plan).   *)
(*                                                                         *)
(* Until then at most one drive, with its run, owns the mission; while one *)
(* does, no operator's record is about to be shown (one may still wait to  *)
(* be stored, and crosses if it is), and while the mission rests (before   *)
(* its start, at a gate, paused) none does.  The shape of the owner says,  *)
(* place by place, what the record has in common with what was done for    *)
(* the plan: an output is a step that is done or a gate that was granted,  *)
(* the spend is the cost, the attempts are those that ended.  A restart    *)
(* takes the stored record, so that one has to be at rest only when the    *)
(* mission is, or is about to be.                                          *)
(***************************************************************************)
EXTENDS TeamMission, FiniteSetTheorems, WellFoundedInduction, TLAPS

Restful == {"none", "AwaitingApproval", "Paused"}

(* The outputs of the plan are what was done for it; the wave is at work. *)
Matches(out, wave) ==
  /\ work = [s \in Steps |-> IF s \in wave THEN "going"
                             ELSE IF out[s] = "out" THEN "done" ELSE "no"]
  /\ granted = {g \in Gates : out[g] = "approved"} /\ refused = {}
  /\ \A s \in Steps : out[s] \in (IF s \in Gates THEN {"none", "approved"}
                                  ELSE {"none", "out"})
  /\ \A s \in wave : out[s] = "none" /\ s \notin Gates

Calm(out) == Matches(out, {})

Counted(rec) == rec.spend = cost /\ rec.attempts + 1 = attempt

(* Who works on the mission; the guard of a drive that does no more may    *)
(* still be to run.                                                        *)
Verifies(d) == drive[d].at = "cleanup" /\ drive[d].draft.phase = "Done"

Owns(d) == \/ run[d].at # "off"
           \/ drive[d].at \notin {"off", "cleanup"}
           \/ Verifies(d)

Form(d) ==
  /\ drive[d].at = "off" => drive[d] = NoDrive
  /\ run[d].at = "off" => run[d] = NoRun
  /\ drive[d].at \in {"begin", "arm", "cleanup", "judge", "retry"} => drive[d].put = "no"
  /\ drive[d].at \in {"enter", "land", "fail", "reset"} => drive[d].put # "no"
  /\ drive[d].at = "drain" => drive[d].put # "insert"
  /\ drive[d].at = "drain" /\ drive[d].put = "no" => drive[d].draft = NoRecord
  /\ run[d].at = "ended" <=> run[d].end # "none"

Forms == \A d \in Drives : Form(d)

BeginShape(d) ==
  /\ mem.phase \in {"Planning", "Executing"}
  /\ Calm(mem.out) /\ Counted(mem) /\ aborted # attempt
  /\ drive[d].at # "begin" => flag[d].meter = cost
  /\ drive[d].at = "enter" =>
       drive[d].draft = [mem EXCEPT !.phase = "Executing", !.gate = 0]
  /\ drive[d].at = "arm" => mem.phase = "Executing" /\ drive[d].draft.out = mem.out

(* A run, also one whose drive has failed; one with a failed step is over. *)
RunShape(d) ==
  LET r == run[d]
  IN /\ mem.phase = "Executing" /\ mem.out = r.out /\ mem.attempts + 1 = attempt
     /\ drive[d].at \in {"off", "drain", "cleanup"} /\ ~Verifies(d)
     /\ drive[d].put = "save" =>
          drive[d].draft \in Records /\ drive[d].draft.phase = "Executing"
     /\ r.end # "error" => /\ Matches(r.out, r.wave) /\ flag[d].meter = cost
                           /\ r.at # "wave" => r.wave = {}
     /\ r.end = "completed" => Complete(r.out)
     /\ r.end = "awaiting" => r.gate \in Gates \cap Ready(r.out)
     /\ aborted = attempt => /\ r.at \in {"boundary", "wave"} => flag[d].abort
                             /\ r.end \notin {"paused", "awaiting"}

(* The record r that a run has led to. *)
LandShape(r) ==
  /\ mem.phase = "Executing" /\ Calm(mem.out)
  /\ r \in Records /\ Counted(r)
  /\ r.phase \in {"Done", "Paused", "Halted", "AwaitingApproval", "Rejected"}
  /\ r.phase # "Rejected" => r.out = mem.out
  /\ r.phase = "Done" => Complete(r.out)
  /\ r.phase = "AwaitingApproval" => r.gate \in Gates \cap Ready(r.out)
  /\ r.phase \in Restful => aborted # attempt
  /\ r.phase = "Rejected" => \E g \in Gates \cap Ready(mem.out) :
                               r.out = [mem.out EXCEPT ![g] = "rejected"]

VerifyShape(d) ==
  /\ mem.phase \in {"Done", "Rejected"}
  /\ Calm(mem.out) /\ Complete(mem.out) /\ Counted(mem)
  /\ drive[d].at \in {"cleanup", "judge", "fail"} => mem.phase = "Done"
  /\ drive[d].at = "fail" => drive[d].draft = [mem EXCEPT !.phase = "Rejected"]
  /\ drive[d].at = "reset" =>
       /\ mem.attempts + 1 < MaxAttempts
       /\ drive[d].draft = [mem EXCEPT !.phase = "Executing", !.out = Empty, !.gate = 0,
                                       !.attempts = @ + 1]

Shape(d) ==
  \/ run[d].at # "off" /\ RunShape(d)
  \/ /\ run[d].at = "off"
     /\ \/ drive[d].at \in {"begin", "enter", "arm"} /\ BeginShape(d)
        \/ drive[d].at = "land" /\ LandShape(drive[d].draft)
        \/ drive[d].at \in {"cleanup", "judge", "fail", "retry", "reset"} /\ VerifyShape(d)

Owner == \A d \in Drives : Owns(d) => Shape(d) /\ \A e \in Drives \ {d} : ~Owns(e)

AtRest(rec) ==
  /\ aborted # attempt
  /\ rec.phase = "none" => Calm(Empty) /\ cost = 0 /\ attempt = 1
  /\ rec.phase # "none" => Calm(rec.out) /\ Counted(rec)
  /\ rec.phase = "AwaitingApproval" => rec.gate \in Gates \cap Ready(rec.out)

Resting == mem.phase \in Restful => AtRest(mem) /\ \A d \in Drives : ~Owns(d)

(* What an operator's request is to make of the record it was made of.     *)
Asks(o) ==
  LET rec == op[o].seen
  IN \/ rec.phase = "none" /\ op[o].draft = Planned /\ op[o].gate = 0
     \/ /\ rec.phase = "Paused" /\ op[o].gate = 0
        /\ op[o].draft = [rec EXCEPT !.phase = "Executing"]
     \/ /\ rec.phase = "AwaitingApproval" /\ op[o].gate = rec.gate /\ rec.gate \in Gates
        /\ \/ op[o].draft = [rec EXCEPT !.gate = 0, !.out[rec.gate] = "approved",
                                        !.phase = "Executing"]
           \/ op[o].draft = [rec EXCEPT !.gate = 0, !.out[rec.gate] = "rejected",
                                        !.phase = "Rejected"]

Asked == \A o \in Operators : op[o].put # "no" => Asks(o)

(* What is put is a record, and what is worked on: also of decisions that  *)
(* have crossed.                                                           *)
Sound(d) ==
  /\ drive[d].at # "off" \/ run[d].at # "off" => mem \in Records
  /\ drive[d].put # "no" \/ drive[d].at = "arm" => drive[d].draft \in Records
  /\ drive[d].put # "no" => drive[d].at \in {"enter", "drain", "land", "fail", "reset"}
  /\ drive[d].put = "insert" => drive[d].at # "drain"
  /\ run[d].at = "ended" => run[d].end # "none"

(* What holds of every state, crossed or not. *)
Firm == TypeOK /\ Asked /\ \A d \in Drives : Sound(d)

(* A record that an operator is about to show was made of the one that is  *)
(* shown, and no other operator is about to show one.                      *)
Alone == \A o \in Operators :
  op[o].put = "insert" => /\ mem = op[o].seen
                          /\ \A p \in Operators \ {o} : op[p].put # "insert"

Inserting == \/ \E d \in Drives : drive[d].put = "insert"
             \/ \E o \in Operators : op[o].put = "insert"

Stored ==
  /\ disk.phase \in Restful =>
       disk = mem \/ \E d \in Drives : drive[d].at = "land" /\ drive[d].put = "insert"
  /\ \A d \in Drives : drive[d].put = "insert" => disk = drive[d].draft
  /\ \A o \in Operators : op[o].put = "insert" => disk = op[o].draft
  /\ mem.phase # "Executing" => Recover(disk) = mem \/ Inserting

Judged ==
  mem.phase = "Done" /\ policy.verify /\ restarts = 0 /\ faults = 0
    => accepted \/ \E d \in Drives : Verifies(d) \/ drive[d].at \in {"judge", "fail"}

Shapes == /\ aborted <= attempt
          /\ Forms /\ Owner /\ Resting /\ Alone /\ Stored /\ Judged

(* The invariant until decisions cross, *)
Inv == TypeOK /\ Asked /\ Shapes

(* and the one of every behaviour. *)
Safe == Firm /\ (crossed \/ Shapes)

-----------------------------------------------------------------------------
(* Operators *)

(* A set of numbers that is not empty has a least element, and Min is it. *)
LEMMA MinIsLeast ==
  ASSUME NEW S \in SUBSET Nat, S # {}
  PROVE  Min(S) \in S /\ \A t \in S : Min(S) <= t
<1>1. \E x \in S : \A y \in S : ~(<<y, x>> \in OpToRel(<, Nat))
  BY WFMin, NatLessThanWellFounded
<1>2. PICK x \in S : \A y \in S : ~(<<y, x>> \in OpToRel(<, Nat))
  BY <1>1
<1>3. ASSUME NEW y \in S
      PROVE  x <= y
  <2>1. y < x => <<y, x>> \in OpToRel(<, Nat)
    BY DEF OpToRel
  <2>2. ~(y < x)
    BY <2>1, <1>2
  <2>3. x \in Nat /\ y \in Nat
    OBVIOUS
  <2> QED
    BY <2>2, <2>3
<1> QED
  BY <1>3 DEF Min

(* A drive that is picked is free. *)
LEMMA FreeIsFree ==
  ASSUME Free # {}
  PROVE  Min(Free) \in Free
<1>1. Free \subseteq Nat
  BY MissionAssumption DEF Free, MissionAssumption
<1> QED
  BY <1>1, MinIsLeast

(* A plan that is not complete has a step that is ready: the first of those *)
(* without an output.                                                      *)
LEMMA SomeReady ==
  ASSUME NEW out, ~Complete(out)
  PROVE  Ready(out) # {} /\ Min(Ready(out)) \in Ready(out)
<1> DEFINE left == {s \in Steps : out[s] = "none"}
<1>1. left \subseteq Nat /\ left # {}
  BY MissionAssumption DEF Complete, MissionAssumption
<1>2. Min(left) \in left /\ \A t \in left : Min(left) <= t
  BY <1>1, MinIsLeast
<1>3. ASSUME NEW p \in Deps[Min(left)]
      PROVE  out[p] # "none"
  <2>1. p \in Steps /\ p < Min(left) /\ p \in Nat /\ Min(left) \in Nat
    BY <1>2, MissionAssumption DEF MissionAssumption
  <2>2. p \notin left
    <3> HIDE DEF left
    <3> QED
      BY <1>2, <2>1
  <2> QED
    BY <2>1, <2>2
<1>4. Min(left) \in Ready(out)
  BY <1>2, <1>3 DEF Ready
<1>5. Ready(out) \subseteq Nat
  BY MissionAssumption DEF Ready, MissionAssumption
<1> QED
  BY <1>4, <1>5, MinIsLeast

(* The empty record is none. *)
LEMMA NoRecordIsNone ==
  /\ NoRecord.phase = "none" /\ NoRecord \notin Records /\ Recover(NoRecord) = NoRecord
  /\ \A rec \in Records : rec.phase \in Phases /\ rec # NoRecord
BY DEF NoRecord, Records, Recover, Phases

(* The changes that are made to a record leave one. *)
LEMMA RecordChanges ==
  ASSUME NEW rec \in Records, NEW ph \in Phases
  PROVE  /\ [rec EXCEPT !.phase = ph] \in Records
         /\ [rec EXCEPT !.phase = ph, !.gate = 0] \in Records
         /\ \A out \in [Steps -> Outputs] : [rec EXCEPT !.out = out] \in Records
BY DEF Records, Phases

(* A record that is begun again counts an attempt, of those there may be.  *)
LEMMA ResetIsRecord ==
  ASSUME NEW rec \in Records, ~(rec.attempts + 1 >= MaxAttempts)
  PROVE  [rec EXCEPT !.phase = "Executing", !.out = Empty, !.gate = 0, !.attempts = @ + 1]
           \in Records
<1>1. rec.attempts \in Nat /\ MaxAttempts \in Nat
  BY MissionAssumption DEF Records, MissionAssumption
<1>2. rec.attempts + 1 \in 0 .. MaxAttempts
  BY <1>1
<1>3. Empty \in [Steps -> Outputs]
  BY DEF Empty, Outputs
<1> QED
  BY <1>2, <1>3 DEF Records, Phases

(* A recovered record does not execute. *)
LEMMA Recovers ==
  ASSUME NEW rec \in Records \cup {NoRecord}
  PROVE  /\ Recover(rec).phase # "Executing" /\ Recover(Recover(rec)) = Recover(rec)
         /\ Recover(rec) \in Records \cup {NoRecord}
         /\ Recover(rec).phase \in Restful \cup {"Done"} => Recover(rec) = rec
<1>1. CASE rec.phase # "Executing"
  BY <1>1 DEF Recover
<1>2. CASE rec.phase = "Executing"
  <2>1. rec \in Records
    BY <1>2, NoRecordIsNone
  <2>2. Recover(rec) = [rec EXCEPT !.phase = "Halted", !.gate = 0]
    BY <1>2 DEF Recover
  <2>3. Recover(rec).phase = "Halted"
    BY <2>1, <2>2 DEF Records
  <2>4. \A r : r.phase # "Executing" => Recover(r) = r
    BY DEF Recover
  <2>5. Recover(Recover(rec)) = Recover(rec)
    BY <2>3, <2>4
  <2>6. Recover(rec) \in Records
    BY <2>1, <2>2 DEF Records, Phases
  <2> QED
    BY <2>3, <2>5, <2>6 DEF Restful
<1> QED
  BY <1>1, <1>2

(* The outputs of steps are set at once. *)
LEMMA WithOutputs ==
  ASSUME NEW out \in [Steps -> Outputs], NEW S, NEW o \in Outputs
  PROVE  With(out, S, o) \in [Steps -> Outputs]
BY DEF With

-----------------------------------------------------------------------------
(* Types *)

DriveRecords == [at : {"off", "begin", "enter", "arm", "drain", "land",
                       "cleanup", "judge", "fail", "retry", "reset"},
                 put : {"no", "save", "insert"}, draft : Records \cup {NoRecord}]
RunRecords   == [at : {"off", "boundary", "wave", "ended"},
                 out : [Steps -> Outputs], wave : SUBSET (Steps \ Gates),
                 end : {"none", "completed", "halted", "paused", "awaiting", "error"},
                 gate : Gates \cup {0}]
FlagRecords  == [abort : BOOLEAN, pause : BOOLEAN, meter : Nat, pinged : BOOLEAN]
OpRecords    == [put : {"no", "save", "insert"}, draft : Records \cup {NoRecord},
                 gate : Gates \cup {0}, seen : Records \cup {NoRecord}]

ThingTypes == /\ policy \in Policies
              /\ mem \in Records \cup {NoRecord} /\ disk \in Records \cup {NoRecord}
              /\ armed \in Drives \cup {0}
              /\ drive \in [Drives -> DriveRecords] /\ run \in [Drives -> RunRecords]
              /\ flag \in [Drives -> FlagRecords] /\ op \in [Operators -> OpRecords]

CountTypes == /\ requests \in 0 .. MaxRequests /\ restarts \in 0 .. MaxRestarts
              /\ faults \in 0 .. MaxFaults

HistoryTypes == /\ work \in [Steps -> {"no", "going", "done", "again"}]
                /\ granted \subseteq Gates /\ refused \subseteq Gates
                /\ attempt \in Nat \ {0} /\ cost \in Nat /\ aborted \in Nat
                /\ accepted \in BOOLEAN /\ broken \in BOOLEAN /\ crossed \in BOOLEAN

(* The parts of the type invariant. *)
LEMMA TypeParts == TypeOK <=> ThingTypes /\ CountTypes /\ HistoryTypes
BY DEF TypeOK, ThingTypes, CountTypes, HistoryTypes, DriveRecords, RunRecords, FlagRecords,
       OpRecords

(* The same of the next state. *)
LEMMA NextTypeParts == TypeOK' <=> ThingTypes' /\ CountTypes' /\ HistoryTypes'
BY DEF TypeOK, ThingTypes, CountTypes, HistoryTypes, DriveRecords, RunRecords, FlagRecords,
       OpRecords

(* What the numbers and records of a state are. *)
LEMMA Numbers ==
  ASSUME TypeOK
  PROVE  /\ attempt \in Nat \ {0} /\ MaxAttempts \in Nat \ {0}
         /\ aborted \in Nat /\ cost \in Nat
         /\ requests \in Nat /\ restarts \in Nat /\ faults \in Nat
         /\ \A d \in Drives : flag[d].meter \in Nat
         /\ \A rec \in Records : rec.attempts \in Nat /\ rec.spend \in Nat
BY TypeParts, MissionAssumption
DEF ThingTypes, CountTypes, HistoryTypes, MissionAssumption, FlagRecords, Records

-----------------------------------------------------------------------------
(* Owners *)

(* Who owns the mission does so alone: no operator is about to show a      *)
(* record.                                                                 *)
LEMMA OwnersAreAlone ==
  ASSUME Inv, NEW d \in Drives, Owns(d)
  PROVE  /\ Shape(d) /\ \A e \in Drives \ {d} : ~Owns(e)
         /\ mem.phase \notin Restful /\ mem \in Records
         /\ \A o \in Operators : op[o].put # "insert"
<1>1. mem.phase \notin Restful
  BY DEF Inv, Shapes, Resting
<1>2. \A o \in Operators : op[o].put # "insert"
  BY <1>1 DEF Inv, Shapes, Alone, Asked, Asks, Restful
<1>3. mem \in Records
  BY <1>1, NoRecordIsNone, TypeParts DEF Inv, ThingTypes, Restful
<1> QED
  BY <1>1, <1>2, <1>3 DEF Inv, Shapes, Owner

(* A drive that is at something but its cleanup is the owner. *)
LEMMA Ownership ==
  ASSUME NEW d \in Drives
  PROVE  /\ drive[d].at \in {"begin", "enter", "arm", "drain", "land", "judge", "fail",
                             "retry", "reset"} => Owns(d)
         /\ run[d].at \in {"boundary", "wave", "ended"} => Owns(d)
         /\ Form(d) /\ drive[d].put # "no" => Owns(d)
BY DEF Owns, Form, NoDrive

(* A step of one drive or run that leaves its shape leaves the others'. *)
LEMMA OwnerSteps ==
  ASSUME Inv, NEW d \in Drives, Owns(d),
         \A e \in Drives \ {d} : drive'[e] = drive[e] /\ run'[e] = run[e],
         Form(d)', Owns(d)' => Shape(d)'
  PROVE  Forms' /\ Owner'
<1>1. \A e \in Drives \ {d} : ~Owns(e) /\ ~Owns(e)' /\ Form(e)'
  BY OwnersAreAlone DEF Inv, Shapes, Forms, Form, Owns, Verifies
<1>2. Forms'
  BY <1>1 DEF Forms
<1>3. Owner'
  BY <1>1 DEF Owner
<1> QED
  BY <1>2, <1>3

(* As long as it owns the mission nobody else is about to show a record. *)
LEMMA BusySteps ==
  ASSUME Inv, NEW d \in Drives, Owns(d), UNCHANGED op
  PROVE  /\ Alone' /\ (mem'.phase \notin Restful => Resting')
         /\ \A o \in Operators : op'[o].put # "insert"
BY OwnersAreAlone DEF Alone, Resting

-----------------------------------------------------------------------------
(* Every step keeps the types *)

(* The record a run leads to is one. *)
LEMMA LandedIsRecord ==
  ASSUME TypeOK, NEW d \in Drives, mem \in Records, run[d].end \notin {"none", "error"}
  PROVE  Landed(d) \in Records
<1> DEFINE rec == [mem EXCEPT !.out = run[d].out, !.gate = 0, !.spend = flag[d].meter]
<1>1. /\ run[d].out \in [Steps -> Outputs] /\ flag[d].meter \in Nat
      /\ run[d].gate \in Gates \cup {0} /\ run[d] \in RunRecords
  BY TypeParts DEF ThingTypes, RunRecords, FlagRecords
<1>2. rec \in Records
  BY <1>1 DEF Records
<1>3. run[d].end \in {"completed", "paused", "halted", "awaiting"}
  BY <1>1 DEF RunRecords
<1>4. policy.headless \in BOOLEAN
  BY TypeParts, MissionAssumption DEF ThingTypes, MissionAssumption
<1>5. /\ [rec EXCEPT !.phase = "Done"] \in Records
      /\ [rec EXCEPT !.phase = "Paused"] \in Records
      /\ [rec EXCEPT !.phase = "Halted"] \in Records
  BY <1>2 DEF Records, Phases
<1>6. CASE run[d].end = "awaiting" /\ policy.headless
  <2>1. Landed(d) = [rec EXCEPT !.phase = "Rejected", !.out[run[d].gate] = "rejected"]
    BY <1>6 DEF Landed
  <2>2. [rec EXCEPT !.phase = "Rejected", !.out[run[d].gate] = "rejected"] \in Records
    BY <1>2 DEF Records, Phases, Outputs
  <2> QED
    BY <2>1, <2>2
<1>7. CASE run[d].end = "awaiting" /\ ~policy.headless
  <2>1. Landed(d) = [rec EXCEPT !.phase = "AwaitingApproval", !.gate = run[d].gate]
    BY <1>7 DEF Landed
  <2>2. [rec EXCEPT !.phase = "AwaitingApproval", !.gate = run[d].gate] \in Records
    BY <1>1, <1>2 DEF Records, Phases
  <2> QED
    BY <2>1, <2>2
<1> QED
  BY <1>3, <1>4, <1>5, <1>6, <1>7 DEF Landed

(* An operator's steps keep the types. *)
LEMMA OperatorTypes ==
  ASSUME Firm, NEW o \in Operators, OperatorStep(o)
  PROVE  TypeOK'
<1>t. ThingTypes /\ CountTypes /\ HistoryTypes
  BY TypeParts DEF Firm
<1>p. ASSUME NEW rec \in Records, NEW g \in Gates \cup {0}, Prepare(o, rec, g)
      PROVE  TypeOK'
  <2>1. op' \in [Operators -> OpRecords]
    BY <1>p, <1>t DEF Prepare, ThingTypes, OpRecords
  <2>2. requests' \in 0 .. MaxRequests
    BY <1>p, <1>t, MissionAssumption DEF Prepare, CountTypes, MissionAssumption
  <2>3. ThingTypes' /\ CountTypes' /\ HistoryTypes'
    BY <1>p, <1>t, <2>1, <2>2
    DEF Prepare, history, ghosts, ThingTypes, CountTypes, HistoryTypes
  <2> QED
    BY <2>3, NextTypeParts
<1>1. CASE Register(o)
  <2>1. Planned \in Records
    BY MissionAssumption DEF Planned, Records, Phases, Empty, Outputs, MissionAssumption
  <2> QED
    BY <1>1, <2>1, <1>p DEF Register
<1>2. ASSUME NEW g \in Gates, NEW approve \in BOOLEAN, Resolve(o, g, approve)
      PROVE  TypeOK'
  <2>1. mem \in Records
    BY <1>2, <1>t, NoRecordIsNone DEF Resolve, ThingTypes
  <2>2. [mem EXCEPT !.gate = 0, !.out[g] = IF approve THEN "approved" ELSE "rejected",
                    !.phase = IF approve THEN "Executing" ELSE "Rejected"] \in Records
    BY <2>1, <1>2 DEF Records, Phases, Outputs
  <2> QED
    BY <1>2, <2>2, <1>p DEF Resolve
<1>3. CASE Resume(o)
  <2>1. mem \in Records
    BY <1>3, <1>t, NoRecordIsNone DEF Resume, ThingTypes
  <2>2. [mem EXCEPT !.phase = "Executing"] \in Records
    BY <2>1 DEF Records, Phases
  <2> QED
    BY <1>3, <2>2, <1>p DEF Resume
<1>4. CASE OpSave(o)
  <2>1. disk' \in Records \cup {NoRecord} /\ op' \in [Operators -> OpRecords]
    BY <1>4, <1>t DEF OpSave, ThingTypes, OpRecords
  <2>2. ThingTypes' /\ CountTypes' /\ HistoryTypes'
    BY <1>4, <1>t, <2>1
    DEF OpSave, bounds, history, ghosts, ThingTypes, CountTypes, HistoryTypes
  <2> QED
    BY <2>2, NextTypeParts
<1>5. CASE OpSaveFails(o)
  <2>1. op' \in [Operators -> OpRecords]
    BY <1>5, <1>t DEF OpSaveFails, ThingTypes, OpRecords, Idle
  <2>2. faults' \in 0 .. MaxFaults
    BY <1>5, <1>t, MissionAssumption DEF OpSaveFails, CountTypes, MissionAssumption
  <2>3. ThingTypes' /\ CountTypes' /\ HistoryTypes'
    BY <1>5, <1>t, <2>1, <2>2
    DEF OpSaveFails, history, ghosts, ThingTypes, CountTypes, HistoryTypes
  <2> QED
    BY <2>3, NextTypeParts
<1>6. CASE OpInsert(o)
  <2>1. op' \in [Operators -> OpRecords]
    BY <1>6, <1>t DEF OpInsert, ThingTypes, OpRecords, Idle
  <2>2. mem' \in Records \cup {NoRecord} /\ op[o].gate \in Gates \cup {0}
    BY <1>6, <1>t DEF OpInsert, ThingTypes, OpRecords
  <2>3. drive' \in [Drives -> DriveRecords]
    <3>1. CASE UNCHANGED drive
      BY <3>1, <1>t DEF ThingTypes
    <3>2. CASE drive' = [drive EXCEPT ![Min(Free)].at = "begin"]
      BY <3>2, <1>t DEF ThingTypes, DriveRecords
    <3> QED
      BY <1>6, <3>1, <3>2 DEF OpInsert
  <2>4. granted' \subseteq Gates /\ refused' \subseteq Gates
    <3>1. CASE op[o].draft.phase = "Rejected"
      <4>1. op[o].gate \in Gates
        <5>1. Asks(o)
          BY <1>6 DEF OpInsert, Firm, Asked
        <5>2. op[o].seen \in Records \cup {NoRecord}
          BY <1>t DEF ThingTypes, OpRecords
        <5>3. \A rec \in Records \cup {NoRecord} : rec.phase = "Paused"
                => [rec EXCEPT !.phase = "Executing"].phase = "Executing"
          BY NoRecordIsNone DEF Records
        <5>4. Planned.phase = "Planning"
          BY DEF Planned
        <5> QED
          BY <3>1, <5>1, <5>2, <5>3, <5>4 DEF Asks
      <4> QED
        BY <1>6, <1>t, <3>1, <4>1 DEF OpInsert, HistoryTypes
    <3>2. CASE op[o].draft.phase # "Rejected"
      BY <1>6, <1>t, <2>2, <3>2 DEF OpInsert, HistoryTypes
    <3> QED
      BY <3>1, <3>2
  <2>5. ThingTypes' /\ CountTypes' /\ HistoryTypes'
    BY <1>6, <1>t, <2>1, <2>2, <2>3, <2>4
    DEF OpInsert, bounds, ghosts, ThingTypes, CountTypes, HistoryTypes
  <2> QED
    BY <2>5, NextTypeParts
<1> QED
  BY <1>1, <1>2, <1>3, <1>4, <1>5, <1>6 DEF OperatorStep

(* A drive's steps keep the types. *)
LEMMA DriveTypes ==
  ASSUME Firm, NEW d \in Drives, DriveStep(d) \/ DriveSaveFails(d)
  PROVE  TypeOK'
<1>t. ThingTypes /\ CountTypes /\ HistoryTypes
  BY TypeParts DEF Firm
<1>o. drive[d].at # "off" => mem \in Records
  BY DEF Firm, Sound
<1>p. ASSUME NEW at \in {"enter", "drain", "land", "fail", "reset"}, NEW rec \in Records,
             Puts(d, at, rec)
      PROVE  drive' \in [Drives -> DriveRecords]
  BY <1>p, <1>t DEF Puts, ThingTypes, DriveRecords
<1>l. ASSUME Leaves(d)
      PROVE  drive' \in [Drives -> DriveRecords]
  BY <1>l, <1>t DEF Leaves, ThingTypes, DriveRecords, NoDrive
<1>g. ASSUME NEW at \in {"cleanup", "judge", "drain", "arm"}, Goes(d, at)
      PROVE  drive' \in [Drives -> DriveRecords]
  BY <1>g, <1>t DEF Goes, ThingTypes, DriveRecords
<1>n. ASSUME NEW at \in {"cleanup", "judge", "drain", "retry"},
             drive' = [drive EXCEPT ![d] = [NoDrive EXCEPT !.at = at]]
      PROVE  drive' \in [Drives -> DriveRecords]
  BY <1>n, <1>t DEF ThingTypes, DriveRecords, NoDrive
<1>k. ASSUME drive' \in [Drives -> DriveRecords], DriveKeeps, UNCHANGED <<mem, disk, history>>,
             UNCHANGED <<cost, aborted, crossed, faults>>, armed' \in Drives \cup {0},
             run' \in [Drives -> RunRecords], flag' \in [Drives -> FlagRecords],
             accepted' \in BOOLEAN, broken' \in BOOLEAN
      PROVE  TypeOK'
  <2>1. ThingTypes' /\ CountTypes' /\ HistoryTypes'
    BY <1>k, <1>t DEF DriveKeeps, history, ThingTypes, CountTypes, HistoryTypes
  <2> QED
    BY <2>1, NextTypeParts
<1>h. /\ armed \in Drives \cup {0} /\ run \in [Drives -> RunRecords]
      /\ flag \in [Drives -> FlagRecords] /\ accepted \in BOOLEAN /\ broken \in BOOLEAN
  BY <1>t DEF ThingTypes, HistoryTypes
<1>1. CASE DriveBegins(d)
  <2>1. mem \in Records
    BY <1>1, <1>o DEF DriveBegins
  <2>2. [mem EXCEPT !.phase = "Executing", !.gate = 0] \in Records
    BY <2>1, RecordChanges DEF Phases
  <2>3. flag' \in [Drives -> FlagRecords]
    <3>1. mem.spend \in Nat
      BY <2>1 DEF Records
    <3>2. [NoFlag EXCEPT !.meter = mem.spend] \in FlagRecords
      BY <3>1 DEF NoFlag, FlagRecords
    <3> QED
      BY <1>1, <1>h, <3>2 DEF DriveBegins
  <2> QED
    BY <1>1, <2>2, <2>3, <1>p, <1>k, <1>h DEF DriveBegins, ghosts
<1>2. CASE DriveSave(d)
  <2>1. disk' \in Records \cup {NoRecord}
    BY <1>2, <1>t DEF DriveSave, ThingTypes, DriveRecords
  <2>2. drive' \in [Drives -> DriveRecords]
    <3>1. CASE drive[d].at = "drain"
      <4>1. drive' = [drive EXCEPT ![d] = [NoDrive EXCEPT !.at = "drain"]]
        BY <1>2, <3>1 DEF DriveSave
      <4> QED
        BY <4>1, <1>n
    <3>2. CASE drive[d].at # "drain"
      <4>1. drive' = [drive EXCEPT ![d].put = "insert"]
        BY <1>2, <3>2 DEF DriveSave
      <4> QED
        BY <4>1, <1>t DEF ThingTypes, DriveRecords
    <3> QED
      BY <3>1, <3>2
  <2>3. ThingTypes' /\ CountTypes' /\ HistoryTypes'
    BY <1>2, <2>1, <2>2, <1>t
    DEF DriveSave, DriveKeeps, history, ghosts, ThingTypes, CountTypes, HistoryTypes
  <2> QED
    BY <2>3, NextTypeParts
<1>3. CASE DriveSaveFails(d)
  <2>1. faults' \in 0 .. MaxFaults
    BY <1>3, <1>t, MissionAssumption DEF DriveSaveFails, CountTypes, MissionAssumption
  <2>2. broken' \in BOOLEAN
    BY <1>3, <1>h DEF DriveSaveFails
  <2>3. drive[d].at \in {"enter", "reset", "drain", "land", "fail"}
    BY <1>3, <1>t DEF DriveSaveFails, Firm, Sound, ThingTypes, DriveRecords
  <2>4. drive' \in [Drives -> DriveRecords]
    <3>1. CASE drive[d].at \in {"enter", "reset"}
      BY <1>3, <3>1, <1>l DEF DriveSaveFails, Leaves
    <3>2. CASE drive[d].at \in {"drain", "land"}
      <4>1. drive' = [drive EXCEPT ![d] = [NoDrive EXCEPT !.at = "cleanup"]]
        BY <1>3, <3>2 DEF DriveSaveFails
      <4> QED
        BY <4>1, <1>n
    <3>3. CASE drive[d].at = "fail"
      <4>1. drive' = [drive EXCEPT ![d] = [NoDrive EXCEPT !.at = "retry"]]
        BY <1>3, <3>3 DEF DriveSaveFails
      <4> QED
        BY <4>1, <1>n
    <3> QED
      BY <2>3, <3>1, <3>2, <3>3
  <2>5. ThingTypes' /\ CountTypes' /\ HistoryTypes'
    BY <1>3, <2>1, <2>2, <2>4, <1>t
    DEF DriveSaveFails, DriveKeeps, history, ThingTypes, CountTypes, HistoryTypes
  <2> QED
    BY <2>5, NextTypeParts
<1>4. CASE DriveInsert(d)
  <2>1. mem' \in Records \cup {NoRecord}
    BY <1>4, <1>t DEF DriveInsert, ThingTypes, DriveRecords
  <2>2. drive[d].at \in {"enter", "reset", "land", "fail"}
    BY <1>4, <1>t DEF DriveInsert, Firm, Sound, ThingTypes, DriveRecords
  <2>3. NextAt(drive[d].at) \in {"arm", "cleanup", "retry", "begin"}
    BY <2>2 DEF NextAt
  <2>4. drive' \in [Drives -> DriveRecords]
    BY <1>4, <2>3, <1>t DEF DriveInsert, ThingTypes, DriveRecords
  <2>5. /\ work' \in [Steps -> {"no", "going", "done", "again"}]
        /\ granted' \subseteq Gates /\ refused' \subseteq Gates
    BY <1>4, <1>t DEF DriveInsert, HistoryTypes
  <2>6. attempt' \in Nat \ {0}
    BY <1>4, <1>t DEF DriveInsert, HistoryTypes
  <2>7. ThingTypes' /\ CountTypes' /\ HistoryTypes'
    BY <1>4, <2>1, <2>4, <2>5, <2>6, <1>t
    DEF DriveInsert, DriveKeeps, ghosts, ThingTypes, CountTypes, HistoryTypes
  <2> QED
    BY <2>7, NextTypeParts
<1>5. CASE Arm(d)
  <2>1. drive[d].draft.out \in [Steps -> Outputs]
    BY <1>5 DEF Arm, Firm, Sound, Records
  <2>2. [NoRun EXCEPT !.at = "boundary", !.out = drive[d].draft.out] \in RunRecords
    BY <2>1 DEF NoRun, RunRecords
  <2>3. run' \in [Drives -> RunRecords] /\ armed' \in Drives \cup {0}
    BY <1>5, <2>2, <1>h DEF Arm
  <2>4. drive' \in [Drives -> DriveRecords]
    BY <1>5, <1>n DEF Arm
  <2> QED
    BY <1>5, <2>3, <2>4, <1>k, <1>h DEF Arm, ghosts
<1>6. CASE Persist(d)
  <2>1. flag' \in [Drives -> FlagRecords]
    BY <1>6, <1>h DEF Persist, FlagRecords
  <2> QED
    BY <1>6, <2>1, <1>o, <1>p, <1>k, <1>h DEF Persist, ghosts
<1>7. CASE Land(d)
  <2>1. drive' \in [Drives -> DriveRecords] /\ broken' \in BOOLEAN
    <3>1. CASE run[d].end = "error"
      BY <1>7, <3>1, <1>g DEF Land
    <3>2. CASE run[d].end # "error"
      <4>1. Landed(d) \in Records
        BY <1>7, <3>2, <1>o, LandedIsRecord DEF Land, Firm, Sound
      <4> QED
        BY <1>7, <3>2, <4>1, <1>p, <1>h DEF Land
    <3> QED
      BY <3>1, <3>2
  <2>2. run' \in [Drives -> RunRecords]
    <3>1. NoRun \in RunRecords
      BY DEF NoRun, RunRecords, Empty, Outputs
    <3> QED
      BY <1>7, <3>1, <1>h DEF Land
  <2> QED
    BY <1>7, <2>1, <2>2, <1>k, <1>h DEF Land
<1>8. CASE Cleanup(d)
  <2>1. drive' \in [Drives -> DriveRecords]
    BY <1>8, <1>n, <1>l DEF Cleanup
  <2> QED
    BY <1>8, <2>1, <1>k, <1>h DEF Cleanup, ghosts
<1>9. CASE Retry(d)
  <2>1. drive' \in [Drives -> DriveRecords]
    <3>1. CASE Leaves(d)
      BY <3>1, <1>l
    <3>2. CASE /\ ~(mem.attempts + 1 >= MaxAttempts)
               /\ Puts(d, "reset", [mem EXCEPT !.phase = "Executing", !.out = Empty,
                                               !.gate = 0, !.attempts = @ + 1])
      <4>1. mem \in Records
        BY <1>9, <1>o DEF Retry
      <4> QED
        BY <3>2, <4>1, <1>p, ResetIsRecord
    <3> QED
      BY <1>9, <3>1, <3>2 DEF Retry
  <2> QED
    BY <1>9, <2>1, <1>k, <1>h DEF Retry, ghosts
<1>10. ASSUME NEW passed \in BOOLEAN, Judge(d, passed)
       PROVE  TypeOK'
  <2>1. [mem EXCEPT !.phase = "Rejected"] \in Records
    BY <1>10, <1>o, RecordChanges DEF Judge, Phases
  <2>2. drive' \in [Drives -> DriveRecords]
    BY <1>10, <2>1, <1>l, <1>p DEF Judge
  <2> QED
    BY <1>10, <2>2, <1>k, <1>h DEF Judge
<1> QED
  BY <1>1, <1>2, <1>3, <1>4, <1>5, <1>6, <1>7, <1>8, <1>9, <1>10 DEF DriveStep

(* A run's steps keep the types. *)
LEMMA RunTypes ==
  ASSUME Firm, NEW d \in Drives, RunStep(d)
  PROVE  TypeOK'
<1>t. ThingTypes /\ CountTypes /\ HistoryTypes
  BY TypeParts DEF Firm
<1>h. /\ run \in [Drives -> RunRecords] /\ flag \in [Drives -> FlagRecords]
      /\ run[d] \in RunRecords
  BY <1>t DEF ThingTypes
<1>k. ASSUME RunKeeps, mem' \in Records \cup {NoRecord}, run' \in [Drives -> RunRecords],
             flag' \in [Drives -> FlagRecords], cost' \in Nat,
             work' \in [Steps -> {"no", "going", "done", "again"}]
      PROVE  TypeOK'
  <2>1. ThingTypes' /\ CountTypes' /\ HistoryTypes'
    BY <1>k, <1>t DEF RunKeeps, bounds, ThingTypes, CountTypes, HistoryTypes
  <2> QED
    BY <2>1, NextTypeParts
<1>1. CASE Boundary(d)
  <2>1. ASSUME NEW end \in {"completed", "halted", "paused", "awaiting"},
               NEW g \in Gates \cup {0}, Ends(d, end, g)
        PROVE  run' \in [Drives -> RunRecords]
    BY <2>1, <1>h DEF Ends, RunRecords
  <2>2. Halt(d) # "no" => Halt(d) \in {"halted", "paused"}
    BY DEF Halt
  <2> DEFINE wave == Ready(run[d].out) \ Gates
  <2>3. CASE /\ ~Complete(run[d].out) /\ wave = {}
             /\ Ends(d, "awaiting", Min(Ready(run[d].out)))
    <3>1. Min(Ready(run[d].out)) \in Gates
      BY <2>3, SomeReady
    <3>2. run' \in [Drives -> RunRecords]
      BY <2>3, <3>1, <2>1
    <3> QED
      BY <1>1, <2>3, <3>2, <1>k, <1>t DEF Boundary, Ends, ThingTypes, HistoryTypes
  <2>4. CASE /\ run' = [run EXCEPT ![d].at = "wave", ![d].wave = wave]
             /\ work' = [s \in Steps |-> IF s \notin wave THEN work[s]
                                         ELSE IF work[s] = "no" THEN "going" ELSE "again"]
    <3>1. wave \subseteq Steps \ Gates
      BY DEF Ready
    <3> HIDE DEF wave
    <3>2. run' \in [Drives -> RunRecords]
      BY <2>4, <3>1, <1>h DEF RunRecords
    <3>3. work' \in [Steps -> {"no", "going", "done", "again"}]
      BY <2>4, <1>t DEF HistoryTypes
    <3> QED
      BY <1>1, <3>2, <3>3, <1>k, <1>t DEF Boundary, ThingTypes, HistoryTypes
  <2>5. ASSUME NEW end \in {"completed", "halted", "paused"}, Ends(d, end, 0)
        PROVE  TypeOK'
    <3>1. run' \in [Drives -> RunRecords]
      BY <2>5, <2>1
    <3> QED
      BY <1>1, <2>5, <3>1, <1>k, <1>t DEF Boundary, Ends, ThingTypes, HistoryTypes
  <2> QED
    BY <1>1, <2>2, <2>3, <2>4, <2>5 DEF Boundary
<1>2. ASSUME NEW failed \in Steps \cup {0}, WaveOver(d, failed)
      PROVE  TypeOK'
  <2> DEFINE good == {s \in run[d].wave : failed = 0 \/ s < failed}
             paid == Cardinality(run[d].wave)
  <2>1. mem \in Records /\ run[d].out \in [Steps -> Outputs]
    BY <1>2, <1>h DEF WaveOver, RunRecords, Firm, Sound
  <2>2. /\ With(mem.out, good, "out") \in [Steps -> Outputs]
        /\ With(run[d].out, good, "out") \in [Steps -> Outputs]
    BY <2>1, WithOutputs DEF Records, Outputs
  <2>3. paid \in Nat
    <3>1. run[d].wave \subseteq Steps /\ IsFiniteSet(Steps)
      BY <1>h, MissionAssumption DEF RunRecords, MissionAssumption
    <3> QED
      BY <3>1, FS_Subset, FS_CardinalityType
  <2>4. mem' \in Records
    BY <1>2, <2>1, <2>2 DEF WaveOver, Records
  <2>5. run' \in [Drives -> RunRecords]
    <3> HIDE DEF good
    <3> DEFINE at == IF failed = 0 THEN "boundary" ELSE "ended"
               end == IF failed = 0 THEN "none" ELSE "error"
    <3>1. /\ at \in {"off", "boundary", "wave", "ended"}
          /\ end \in {"none", "completed", "halted", "paused", "awaiting", "error"}
      OBVIOUS
    <3>2. run' = [run EXCEPT ![d].out = With(run[d].out, good, "out"), ![d].wave = {},
                             ![d].at = at, ![d].end = end]
      BY <1>2 DEF WaveOver, good
    <3> HIDE DEF at, end
    <3> QED
      BY <3>1, <3>2, <2>2, <1>h DEF RunRecords
  <2>6. flag' \in [Drives -> FlagRecords]
    <3>1. flag' = [flag EXCEPT ![d].meter = @ + paid, ![d].pinged = @ \/ good # {}]
      BY <1>2 DEF WaveOver
    <3>2. (flag[d].pinged \/ good # {}) \in BOOLEAN
      OBVIOUS
    <3>3. flag[d].meter + paid \in Nat
      BY <2>3, <1>h DEF FlagRecords
    <3> HIDE DEF good, paid
    <3> QED
      BY <3>1, <3>2, <3>3, <1>h DEF FlagRecords
  <2>7. cost' \in Nat
    <3>1. cost' = cost + paid /\ cost \in Nat
      BY <1>2, <1>t DEF WaveOver, HistoryTypes
    <3> HIDE DEF paid
    <3> QED
      BY <3>1, <2>3
  <2>8. work' \in [Steps -> {"no", "going", "done", "again"}]
    BY <1>2, <1>t DEF WaveOver, HistoryTypes
  <2> QED
    BY <1>2, <2>4, <2>5, <2>6, <2>7, <2>8, <1>k DEF WaveOver
<1>3. CASE Abandoned(d)
  <2>1. NoRun \in RunRecords /\ NoFlag \in FlagRecords
    BY DEF NoRun, RunRecords, Empty, Outputs, NoFlag, FlagRecords
  <2>2. run' \in [Drives -> RunRecords] /\ flag' \in [Drives -> FlagRecords]
    BY <1>3, <2>1, <1>h DEF Abandoned
  <2> QED
    BY <1>3, <2>2, <1>k, <1>t DEF Abandoned, ThingTypes, HistoryTypes
<1> QED
  BY <1>1, <1>2, <1>3 DEF RunStep

(* An abort, a pause and a restart keep the types. *)
LEMMA OtherTypes ==
  ASSUME Firm, Abort \/ Pause \/ Restart \/ UNCHANGED vars
  PROVE  TypeOK'
<1>t. ThingTypes /\ CountTypes /\ HistoryTypes
  BY TypeParts DEF Firm
<1>1. ASSUME NEW f \in FlagRecords, armed # 0, Request(f), aborted' \in {attempt, aborted}
      PROVE  TypeOK'
  <2>1. flag' \in [Drives -> FlagRecords]
    BY <1>1, <1>t DEF Request, ThingTypes
  <2>2. requests' \in 0 .. MaxRequests
    BY <1>1, <1>t, MissionAssumption DEF Request, CountTypes, MissionAssumption
  <2>3. aborted' \in Nat
    BY <1>1, <1>t DEF HistoryTypes
  <2>4. ThingTypes' /\ CountTypes' /\ HistoryTypes'
    BY <1>1, <2>1, <2>2, <2>3, <1>t DEF Request, history, ThingTypes, CountTypes, HistoryTypes
  <2> QED
    BY <2>4, NextTypeParts
<1>2. CASE Abort
  <2>1. armed # 0 => [flag[armed] EXCEPT !.abort = TRUE] \in FlagRecords
    BY <1>t DEF ThingTypes, FlagRecords
  <2> QED
    BY <1>2, <2>1, <1>1 DEF Abort, Request
<1>3. CASE Pause
  <2>1. armed # 0 => [flag[armed] EXCEPT !.pause = TRUE] \in FlagRecords
    BY <1>t DEF ThingTypes, FlagRecords
  <2> QED
    BY <1>3, <2>1, <1>1 DEF Pause, Request
<1>4. CASE Restart
  <2>1. /\ NoDrive \in DriveRecords /\ NoRun \in RunRecords /\ NoFlag \in FlagRecords
        /\ Idle \in OpRecords
    BY DEF NoDrive, DriveRecords, NoRun, RunRecords, Empty, Outputs, NoFlag, FlagRecords,
           Idle, OpRecords
  <2>2. mem' \in Records \cup {NoRecord} /\ disk' \in Records \cup {NoRecord}
    BY <1>4, <1>t, Recovers DEF Restart, ThingTypes
  <2>3. restarts' \in 0 .. MaxRestarts
    BY <1>4, <1>t, MissionAssumption DEF Restart, CountTypes, MissionAssumption
  <2>4. ThingTypes' /\ CountTypes' /\ HistoryTypes'
    BY <1>4, <2>1, <2>2, <2>3, <1>t
    DEF Restart, history, ghosts, ThingTypes, CountTypes, HistoryTypes
  <2> QED
    BY <2>4, NextTypeParts
<1>5. CASE UNCHANGED vars
  <2>1. ThingTypes' /\ CountTypes' /\ HistoryTypes'
    BY <1>5, <1>t DEF vars, bounds, history, ghosts, ThingTypes, CountTypes, HistoryTypes
  <2> QED
    BY <2>1, NextTypeParts
<1> QED
  BY <1>2, <1>3, <1>4, <1>5

-----------------------------------------------------------------------------
(* Every step keeps what the types rest on *)

(* What an operator asks for is a record. *)
LEMMA AskedRecords ==
  ASSUME Firm, NEW o \in Operators, op[o].put # "no"
  PROVE  op[o].draft \in Records
<1>1. Asks(o) /\ op[o].seen \in Records \cup {NoRecord}
  BY TypeParts DEF Firm, Asked, ThingTypes, OpRecords
<1>2. Planned \in Records
  BY MissionAssumption DEF Planned, Records, Phases, Empty, Outputs, MissionAssumption
<1>3. op[o].seen.phase # "none" => op[o].seen \in Records
  BY <1>1, NoRecordIsNone
<1>4. ASSUME NEW rec \in Records
      PROVE  /\ [rec EXCEPT !.phase = "Executing"] \in Records
             /\ [rec EXCEPT !.gate = 0, !.out[rec.gate] = "approved",
                            !.phase = "Executing"] \in Records
             /\ [rec EXCEPT !.gate = 0, !.out[rec.gate] = "rejected",
                            !.phase = "Rejected"] \in Records
  BY DEF Records, Phases, Outputs
<1> QED
  BY <1>1, <1>2, <1>3, <1>4 DEF Asks

(* A drive that stays where it is stays sound, as long as there is a       *)
(* record.                                                                 *)
LEMMA SoundStays ==
  ASSUME NEW d \in Drives, Sound(d), drive'[d] = drive[d], run'[d] = run[d],
         mem' \in Records \/ mem' = mem
  PROVE  Sound(d)'
BY DEF Sound

(* An operator's step leaves what is asked for, and what is worked on. *)
LEMMA OperatorFirm ==
  ASSUME Firm, NEW o \in Operators, OperatorStep(o)
  PROVE  Asked' /\ \A d \in Drives : Sound(d)'
<1>t. op \in [Operators -> OpRecords] /\ drive \in [Drives -> DriveRecords]
  BY TypeParts DEF Firm, ThingTypes
<1>k. ASSUME NEW x, op' = [op EXCEPT ![o] = x], (Asks(o) \/ x.put = "no")',
             UNCHANGED <<mem, drive, run>>
      PROVE  Asked' /\ \A d \in Drives : Sound(d)'
  <2>1. op'[o] = x /\ \A p \in Operators \ {o} : op'[p] = op[p]
    BY <1>k, <1>t
  <2>2. \A q \in Operators \ {o} : Asks(q) => Asks(q)'
    BY <2>1 DEF Asks
  <2>3. Asked'
    BY <1>k, <2>1, <2>2 DEF Asked, Firm
  <2> QED
    BY <1>k, <2>3, SoundStays DEF Firm
<1>p. ASSUME NEW rec, NEW g, Prepare(o, rec, g),
             \/ mem.phase = "none" /\ rec = Planned /\ g = 0
             \/ mem.phase = "Paused" /\ g = 0 /\ rec = [mem EXCEPT !.phase = "Executing"]
             \/ /\ mem.phase = "AwaitingApproval" /\ g = mem.gate /\ mem.gate \in Gates
                /\ \/ rec = [mem EXCEPT !.gate = 0, !.out[mem.gate] = "approved",
                                        !.phase = "Executing"]
                   \/ rec = [mem EXCEPT !.gate = 0, !.out[mem.gate] = "rejected",
                                        !.phase = "Rejected"]
      PROVE  Asked' /\ \A d \in Drives : Sound(d)'
  <2> DEFINE x == [put |-> "save", draft |-> rec, gate |-> g, seen |-> mem]
  <2>1. op' = [op EXCEPT ![o] = x] /\ UNCHANGED <<mem, drive, run>>
    BY <1>p DEF Prepare
  <2>2. op'[o] = x
    BY <2>1, <1>t
  <2>3. Asks(o)'
    BY <1>p, <2>2 DEF Asks
  <2> HIDE DEF x
  <2> QED
    BY <2>1, <2>3, <1>k
<1>1. CASE Register(o)
  BY <1>1, <1>p, NoRecordIsNone DEF Register
<1>2. ASSUME NEW g \in Gates, NEW approve \in BOOLEAN, Resolve(o, g, approve)
      PROVE  Asked' /\ \A d \in Drives : Sound(d)'
  <2>1. CASE approve = TRUE
    BY <1>2, <2>1, <1>p DEF Resolve
  <2>2. CASE approve = FALSE
    BY <1>2, <2>2, <1>p DEF Resolve
  <2> QED
    BY <2>1, <2>2
<1>3. CASE Resume(o)
  BY <1>3, <1>p DEF Resume
<1>4. CASE OpSave(o)
  <2>1. op' = [op EXCEPT ![o] = [op[o] EXCEPT !.put = "insert"]]
    BY <1>4, <1>t DEF OpSave
  <2>2. Asks(o)
    BY <1>4 DEF OpSave, Firm, Asked
  <2>3. op'[o].draft = op[o].draft /\ op'[o].gate = op[o].gate /\ op'[o].seen = op[o].seen
    BY <2>1, <1>t DEF OpRecords
  <2>4. Asks(o)'
    BY <2>2, <2>3 DEF Asks
  <2> QED
    BY <1>4, <2>1, <2>4, <1>k DEF OpSave
<1>5. CASE OpSaveFails(o)
  BY <1>5, <1>k DEF OpSaveFails, Idle
<1>6. CASE OpInsert(o)
  <2>1. /\ op' = [op EXCEPT ![o] = Idle] /\ mem' \in Records /\ UNCHANGED run
        /\ UNCHANGED drive \/ (Free # {} /\ drive' = [drive EXCEPT ![Min(Free)].at = "begin"])
    BY <1>6, AskedRecords DEF OpInsert
  <2>2. op'[o].put = "no" /\ \A p \in Operators \ {o} : op'[p] = op[p]
    BY <2>1, <1>t DEF Idle
  <2>3. Asked'
    <3>1. \A p \in Operators \ {o} : Asks(p) => Asks(p)'
      BY <2>2 DEF Asks
    <3> QED
      BY <2>2, <3>1 DEF Asked, Firm
  <2>4. ASSUME NEW d \in Drives
        PROVE  Sound(d)'
    <3>1. CASE drive'[d] = drive[d]
      BY <2>1, <3>1, SoundStays DEF Firm
    <3>2. CASE drive'[d] # drive[d]
      <4>1. d = Min(Free) /\ Free # {} /\ drive' = [drive EXCEPT ![d].at = "begin"]
        BY <2>1, <3>2, <1>t
      <4>2. drive[d] = NoDrive /\ run'[d] = NoRun
        BY <2>1, <4>1, FreeIsFree DEF Free
      <4>3. drive'[d].at = "begin" /\ drive'[d].put = "no"
        BY <4>1, <4>2, <1>t DEF NoDrive
      <4> QED
        BY <2>1, <4>2, <4>3 DEF Sound, NoRun
    <3> QED
      BY <3>1, <3>2
  <2> QED
    BY <2>3, <2>4
<1> QED
  BY <1>1, <1>2, <1>3, <1>4, <1>5, <1>6 DEF OperatorStep

(* What operators were answered is not changed by others. *)
LEMMA AskedStays ==
  ASSUME Asked, op' = op
  PROVE  Asked'
<1>1. ASSUME NEW o \in Operators
      PROVE  Asks(o)' <=> Asks(o)
  BY DEF Asks
<1> QED
  BY <1>1 DEF Asked

(* So does a drive's, *)
LEMMA DriveFirm ==
  ASSUME Firm, NEW d \in Drives, DriveStep(d) \/ DriveSaveFails(d)
  PROVE  Asked' /\ \A e \in Drives : Sound(e)'
<1>t. drive \in [Drives -> DriveRecords] /\ run \in [Drives -> RunRecords]
  BY TypeParts DEF Firm, ThingTypes
<1>o. Sound(d)
  BY DEF Firm
<1>k. ASSUME UNCHANGED op, mem' \in Records \/ mem' = mem,
             \A e \in Drives \ {d} : drive'[e] = drive[e] /\ run'[e] = run[e], Sound(d)'
      PROVE  Asked' /\ \A e \in Drives : Sound(e)'
  <2>1. Asked'
    BY <1>k, AskedStays DEF Firm
  <2>2. \A e \in Drives \ {d} : Sound(e)'
    BY <1>k, SoundStays DEF Firm
  <2> QED
    BY <1>k, <2>1, <2>2
<1>p. ASSUME NEW at \in {"enter", "drain", "land", "fail", "reset"}, NEW rec \in Records,
             Puts(d, at, rec), UNCHANGED mem, run'[d] = run[d] \/ run'[d] = NoRun,
             mem \in Records
      PROVE  /\ \A e \in Drives \ {d} : drive'[e] = drive[e]
             /\ Sound(d)'
  <2>1. drive'[d] = [at |-> at, put |-> "save", draft |-> rec]
    BY <1>p, <1>t DEF Puts
  <2> QED
    BY <1>o, <1>p, <1>t, <2>1 DEF Puts, Sound, NoRun
<1>q. ASSUME NEW x, drive' = [drive EXCEPT ![d] = x], x.put = "no", x.at # "arm",
             x.at # "off" => mem \in Records, UNCHANGED mem,
             run'[d] = run[d] \/ run'[d] = NoRun
      PROVE  /\ \A e \in Drives \ {d} : drive'[e] = drive[e]
             /\ Sound(d)'
  <2>1. drive'[d] = x
    BY <1>q, <1>t
  <2> QED
    BY <1>o, <1>q, <1>t, <2>1 DEF Sound, NoRun
<1>n. drive[d].at # "off" => mem \in Records
  BY <1>o DEF Sound
<1>x. /\ NoDrive.put = "no" /\ NoDrive.at = "off"
      /\ \A at : [NoDrive EXCEPT !.at = at].put = "no" /\ [NoDrive EXCEPT !.at = at].at = at
  BY DEF NoDrive
<1>1. CASE DriveBegins(d)
  <2>1. [mem EXCEPT !.phase = "Executing", !.gate = 0] \in Records /\ mem \in Records
    BY <1>1, <1>n, RecordChanges DEF DriveBegins, Phases
  <2> QED
    BY <1>1, <2>1, <1>p, <1>k DEF DriveBegins, DriveKeeps
<1>2. CASE DriveSave(d)
  <2>1. CASE drive[d].at = "drain"
    <3>1. drive' = [drive EXCEPT ![d] = [NoDrive EXCEPT !.at = "drain"]]
      BY <1>2, <2>1 DEF DriveSave
    <3> QED
      BY <1>2, <2>1, <3>1, <1>n, <1>x, <1>q, <1>k DEF DriveSave, DriveKeeps
  <2>2. CASE drive[d].at # "drain"
    <3>1. drive' = [drive EXCEPT ![d].put = "insert"]
      BY <1>2, <2>2 DEF DriveSave
    <3>2. /\ drive'[d].at = drive[d].at /\ drive'[d].draft = drive[d].draft
          /\ \A e \in Drives \ {d} : drive'[e] = drive[e]
      BY <3>1, <1>t DEF DriveRecords
    <3>3. Sound(d)'
      BY <1>2, <1>o, <2>2, <3>2 DEF DriveSave, Sound
    <3> QED
      BY <1>2, <3>2, <3>3, <1>k DEF DriveSave, DriveKeeps
  <2> QED
    BY <2>1, <2>2
<1>3. CASE DriveSaveFails(d)
  <2>1. drive[d].at \in {"enter", "drain", "land", "fail", "reset"}
    BY <1>3, <1>o DEF DriveSaveFails, Sound
  <2>2. PICK x : /\ drive' = [drive EXCEPT ![d] = x]
                 /\ x \in {NoDrive, [NoDrive EXCEPT !.at = "cleanup"],
                           [NoDrive EXCEPT !.at = "retry"]}
    BY <1>3, <2>1 DEF DriveSaveFails
  <2>3. x.put = "no" /\ x.at # "arm" /\ mem \in Records
    BY <2>1, <2>2, <1>n, <1>x
  <2>4. UNCHANGED <<mem, op, run>>
    BY <1>3 DEF DriveSaveFails, DriveKeeps
  <2> QED
    BY <2>2, <2>3, <2>4, <1>q, <1>k
<1>4. CASE DriveInsert(d)
  <2>1. /\ drive[d].at \in {"enter", "land", "fail", "reset"} /\ drive[d].draft \in Records
        /\ mem' = drive[d].draft
    BY <1>4, <1>o DEF DriveInsert, Sound
  <2>2. /\ drive'[d].at = NextAt(drive[d].at) /\ drive'[d].put = "no"
        /\ drive'[d].draft = drive[d].draft
        /\ \A e \in Drives \ {d} : drive'[e] = drive[e]
    BY <1>4, <1>t DEF DriveInsert, DriveRecords
  <2>3. Sound(d)'
    BY <1>4, <1>o, <2>1, <2>2 DEF DriveInsert, Sound
  <2> QED
    BY <1>4, <2>1, <2>2, <2>3, <1>k DEF DriveInsert, DriveKeeps
<1>5. CASE Arm(d)
  <2>1. /\ drive'[d] = [NoDrive EXCEPT !.at = "drain"] /\ UNCHANGED <<mem, op>>
        /\ run'[d] = [NoRun EXCEPT !.at = "boundary", !.out = drive[d].draft.out]
        /\ \A e \in Drives \ {d} : drive'[e] = drive[e] /\ run'[e] = run[e]
    BY <1>5, <1>t DEF Arm, DriveKeeps
  <2>2. drive'[d].at = "drain" /\ drive'[d].put = "no" /\ run'[d].at = "boundary"
    BY <2>1 DEF NoDrive, NoRun
  <2>3. mem' \in Records
    BY <1>5, <1>n, <2>1 DEF Arm
  <2>4. Sound(d)'
    BY <2>2, <2>3 DEF Sound
  <2> QED
    BY <2>1, <2>4, <1>k
<1>6. CASE Persist(d)
  BY <1>6, <1>n, <1>p, <1>k DEF Persist, DriveKeeps
<1>7. CASE Land(d)
  <2>1. /\ UNCHANGED <<mem, op>> /\ run'[d] = NoRun /\ mem \in Records
        /\ \A e \in Drives \ {d} : run'[e] = run[e]
    BY <1>7, <1>n, <1>t DEF Land, DriveKeeps
  <2>2. CASE run[d].end = "error"
    <3>1. /\ drive' = [drive EXCEPT ![d] = [drive[d] EXCEPT !.at = "cleanup"]]
          /\ [drive[d] EXCEPT !.at = "cleanup"].put = "no"
          /\ [drive[d] EXCEPT !.at = "cleanup"].at = "cleanup"
      BY <1>7, <2>2, <1>t DEF Land, Goes, DriveRecords
    <3> QED
      BY <2>1, <3>1, <1>q, <1>k
  <2>3. CASE run[d].end # "error"
    <3>1. Landed(d) \in Records /\ Puts(d, "land", Landed(d))
      BY <1>7, <2>1, <2>3, LandedIsRecord DEF Land, Firm, Sound
    <3> QED
      BY <2>1, <3>1, <1>p, <1>k
  <2> QED
    BY <2>2, <2>3
<1>8. CASE Cleanup(d)
  <2>1. PICK x \in {NoDrive, [NoDrive EXCEPT !.at = "judge"]} : drive' = [drive EXCEPT ![d] = x]
    BY <1>8 DEF Cleanup, Leaves
  <2>2. x.put = "no" /\ x.at # "arm" /\ mem \in Records
    BY <1>8, <2>1, <1>n, <1>x DEF Cleanup
  <2>3. UNCHANGED <<mem, op, run>>
    BY <1>8 DEF Cleanup, DriveKeeps
  <2> QED
    BY <2>1, <2>2, <2>3, <1>q, <1>k
<1>9. CASE Retry(d)
  <2>1. CASE Leaves(d)
    BY <1>9, <2>1, <1>n, <1>x, <1>q, <1>k DEF Retry, Leaves, DriveKeeps
  <2>2. CASE /\ ~(mem.attempts + 1 >= MaxAttempts)
             /\ Puts(d, "reset", [mem EXCEPT !.phase = "Executing", !.out = Empty,
                                             !.gate = 0, !.attempts = @ + 1])
    <3>1. mem \in Records
      BY <1>9, <1>n DEF Retry
    <3>2. [mem EXCEPT !.phase = "Executing", !.out = Empty, !.gate = 0,
                      !.attempts = @ + 1] \in Records
      BY <2>2, <3>1, ResetIsRecord
    <3> QED
      BY <1>9, <2>2, <3>1, <3>2, <1>p, <1>k DEF Retry, DriveKeeps
  <2> QED
    BY <1>9, <2>1, <2>2 DEF Retry
<1>10. ASSUME NEW passed \in BOOLEAN, Judge(d, passed)
       PROVE  Asked' /\ \A e \in Drives : Sound(e)'
  <2>1. CASE passed
    BY <1>10, <2>1, <1>n, <1>x, <1>q, <1>k DEF Judge, Leaves, DriveKeeps
  <2>2. CASE ~passed
    <3>1. [mem EXCEPT !.phase = "Rejected"] \in Records /\ mem \in Records
      BY <1>10, <1>n, RecordChanges DEF Judge, Phases
    <3> QED
      BY <1>10, <2>2, <3>1, <1>p, <1>k DEF Judge, DriveKeeps
  <2> QED
    BY <2>1, <2>2
<1> QED
  BY <1>1, <1>2, <1>3, <1>4, <1>5, <1>6, <1>7, <1>8, <1>9, <1>10 DEF DriveStep

(* a run's, *)
LEMMA RunFirm ==
  ASSUME Firm, NEW d \in Drives, RunStep(d)
  PROVE  Asked' /\ \A e \in Drives : Sound(e)'
<1>t. run \in [Drives -> RunRecords]
  BY TypeParts DEF Firm, ThingTypes
<1>1. UNCHANGED <<op, drive>>
  BY DEF RunStep, Boundary, Abandoned, WaveOver, RunKeeps
<1>2. run[d].at # "off" /\ mem \in Records
  BY DEF RunStep, Boundary, Abandoned, WaveOver, Firm, Sound
<1>3. mem' \in Records
  <2>1. ASSUME NEW failed, WaveOver(d, failed)
        PROVE  mem' \in Records
    <3> DEFINE good == {s \in run[d].wave : failed = 0 \/ s < failed}
    <3>1. mem' = [mem EXCEPT !.out = With(mem.out, good, "out")]
      BY <2>1 DEF WaveOver
    <3>2. With(mem.out, good, "out") \in [Steps -> Outputs]
      BY <1>2, WithOutputs DEF Records, Outputs
    <3> HIDE DEF good
    <3> QED
      BY <1>2, <3>1, <3>2 DEF Records
  <2> QED
    BY <1>2, <2>1 DEF RunStep, Boundary, Abandoned
<1>4. \A e \in Drives \ {d} : run'[e] = run[e]
  BY <1>t DEF RunStep, Boundary, Ends, Abandoned, WaveOver
<1>5. run'[d].at = "ended" => run'[d].end # "none"
  <2>1. ASSUME NEW end, NEW g, end # "none", Ends(d, end, g)
        PROVE  run'[d].end # "none"
    BY <2>1, <1>t DEF Ends, RunRecords
  <2>2. CASE Boundary(d)
    <3>1. Halt(d) # "none"
      BY DEF Halt
    <3>2. CASE \E end, g : end # "none" /\ Ends(d, end, g)
      BY <2>1, <3>2
    <3>3. CASE \E wave : run' = [run EXCEPT ![d].at = "wave", ![d].wave = wave]
      BY <3>3, <1>t DEF RunRecords
    <3> QED
      BY <2>2, <3>1, <3>2, <3>3 DEF Boundary
  <2>3. ASSUME NEW failed, WaveOver(d, failed)
        PROVE  run'[d].at = "ended" => run'[d].end # "none"
    <3> DEFINE at == IF failed = 0 THEN "boundary" ELSE "ended"
               end == IF failed = 0 THEN "none" ELSE "error"
    <3>1. \E out : run' = [run EXCEPT ![d].out = out, ![d].wave = {}, ![d].at = at,
                                      ![d].end = end]
      BY <2>3 DEF WaveOver
    <3>2. at = "ended" => end # "none"
      OBVIOUS
    <3> HIDE DEF at, end
    <3>3. run'[d].at = at /\ run'[d].end = end
      BY <3>1, <1>t DEF RunRecords
    <3> QED
      BY <3>2, <3>3
  <2>4. CASE Abandoned(d)
    BY <2>4, <1>t DEF Abandoned, NoRun
  <2> QED
    BY <2>2, <2>3, <2>4 DEF RunStep
<1>6. Asked'
  BY <1>1, AskedStays DEF Firm
<1> QED
  BY <1>1, <1>3, <1>4, <1>5, <1>6 DEF Sound, Firm

(* and every step. *)
LEMMA StepFirm ==
  ASSUME Firm, [Next]_vars
  PROVE  Firm'
<1>1. TypeOK'
  BY OperatorTypes, DriveTypes, RunTypes, OtherTypes DEF Next
<1>2. CASE Abort \/ Pause \/ UNCHANGED vars
  <2>1. UNCHANGED <<mem, drive, run, op>>
    BY <1>2 DEF Abort, Pause, Request, vars
  <2> QED
    BY <1>1, <2>1 DEF Firm, Asked, Asks, Sound
<1>3. CASE Restart
  BY <1>1, <1>3 DEF Restart, Firm, Asked, Sound, NoDrive, NoRun, Idle
<1> QED
  BY <1>1, <1>2, <1>3, OperatorFirm, DriveFirm, RunFirm DEF Next, Firm

-----------------------------------------------------------------------------
(* Steps of the owner *)

(* What is stored while one owns the mission. *)
LEMMA OwnerStored ==
  ASSUME Inv, NEW d \in Drives, Owns(d)
  PROVE  /\ drive[d].put # "insert" => ~Inserting
         /\ drive[d].put # "insert" => disk.phase \notin Restful
         /\ mem.phase # "Executing" /\ drive[d].put # "insert" => Recover(disk) = mem
<1>1. \A e \in Drives \ {d} : drive[e].put # "insert"
  BY OwnersAreAlone, Ownership DEF Inv, Shapes, Forms
<1>2. \A o \in Operators : op[o].put # "insert"
  BY OwnersAreAlone
<1>3. mem.phase \notin Restful
  BY OwnersAreAlone
<1> QED
  BY <1>1, <1>2, <1>3 DEF Inv, Shapes, Stored, Inserting

(* A step of the owner that writes nothing. *)
LEMMA OwnerKeeps ==
  ASSUME Inv, NEW d \in Drives, Owns(d), UNCHANGED <<mem, disk, op>>,
         \A e \in Drives \ {d} : drive'[e] = drive[e] /\ run'[e] = run[e],
         drive[d].put # "insert", drive'[d].put # "insert",
         Form(d)', Owns(d)' => Shape(d)', Judged', aborted' <= attempt'
  PROVE  Shapes'
<1>1. Forms' /\ Owner'
  BY OwnerSteps
<1>2. Alone' /\ Resting'
  BY BusySteps, OwnersAreAlone
<1>3. \A e \in Drives : drive'[e].put # "insert"
  BY OwnersAreAlone, Ownership DEF Inv, Shapes, Forms
<1>4. Stored'
  BY <1>3, OwnerStored, OwnersAreAlone DEF Stored, Inserting
<1> QED
  BY <1>1, <1>2, <1>4 DEF Shapes

(* Where the owner's drive is at, its run is not, but while it drains. *)
LEMMA DriveWithoutRun ==
  ASSUME Inv, NEW d \in Drives
  PROVE  /\ drive[d].at \in {"begin", "enter", "arm"} => run[d].at = "off" /\ BeginShape(d)
         /\ drive[d].at = "land" => run[d].at = "off" /\ LandShape(drive[d].draft)
         /\ drive[d].at \in {"judge", "fail", "retry", "reset"} \/ Verifies(d)
              => run[d].at = "off" /\ VerifyShape(d)
         /\ drive[d].at = "drain" => run[d].at # "off"
         /\ run[d].at # "off" => RunShape(d)
BY OwnersAreAlone, Ownership DEF Shape, RunShape, Owns, Verifies

(* The drive's records, one field at a time. *)
LEMMA DriveFields ==
  ASSUME Inv, NEW d \in Drives
  PROVE  /\ drive[d].at \in {"off", "begin", "enter", "arm", "drain", "land",
                             "cleanup", "judge", "fail", "retry", "reset"}
         /\ drive[d].put \in {"no", "save", "insert"}
         /\ \A at : Goes(d, at) => /\ drive'[d].at = at /\ drive'[d].put = drive[d].put
                                   /\ drive'[d].draft = drive[d].draft
         /\ \A at, rec : Puts(d, at, rec) => /\ drive'[d].at = at /\ drive'[d].put = "save"
                                             /\ drive'[d].draft = rec
         /\ Leaves(d) => drive'[d] = NoDrive
BY TypeParts DEF Inv, ThingTypes, DriveRecords, Goes, Puts, Leaves

(* The other drives and runs stay where they are. *)
LEMMA OthersStay ==
  ASSUME Inv, NEW d \in Drives, NEW e \in Drives \ {d}
  PROVE  /\ \A x : drive' = [drive EXCEPT ![d] = x] => drive'[e] = drive[e] /\ drive'[d] = x
         /\ \A x : run' = [run EXCEPT ![d] = x] => run'[e] = run[e] /\ run'[d] = x
         /\ \A at : Goes(d, at) => drive'[e] = drive[e]
         /\ \A at, rec : Puts(d, at, rec) => drive'[e] = drive[e]
         /\ Leaves(d) => drive'[e] = drive[e]
BY TypeParts DEF Inv, ThingTypes, Goes, Puts, Leaves

(* A drive begins. *)
LEMMA BeginsShapes ==
  ASSUME Inv, NEW d \in Drives, DriveBegins(d)
  PROVE  Shapes'
<1>1. drive[d].at = "begin" /\ Owns(d) /\ run[d].at = "off" /\ BeginShape(d) /\ Form(d)
  BY Ownership, DriveWithoutRun DEF DriveBegins, Inv, Shapes, Forms
<1>2. /\ UNCHANGED <<mem, disk, op, run, work, granted, refused, attempt, cost, aborted>>
      /\ Puts(d, "enter", [mem EXCEPT !.phase = "Executing", !.gate = 0])
  BY DEF DriveBegins, DriveKeeps, history, ghosts
<1>3. /\ drive'[d].at = "enter" /\ drive'[d].put = "save"
      /\ drive'[d].draft = [mem EXCEPT !.phase = "Executing", !.gate = 0]
  BY <1>2, DriveFields
<1>4. flag'[d].meter = cost
  BY <1>1, TypeParts DEF DriveBegins, BeginShape, Counted, NoFlag, Inv, ThingTypes
<1>5. Form(d)'
  BY <1>1, <1>2, <1>3 DEF Form
<1>6. BeginShape(d)'
  BY <1>1, <1>2, <1>3, <1>4 DEF BeginShape, Calm, Matches, Counted
<1>7. Shape(d)'
  BY <1>1, <1>2, <1>3, <1>6 DEF Shape
<1>8. \A e \in Drives \ {d} : drive'[e] = drive[e] /\ run'[e] = run[e]
  BY <1>2, OthersStay
<1>9. Judged' /\ aborted' <= attempt'
  BY <1>1, <1>2 DEF Judged, BeginShape, Inv, Shapes
<1> QED
  BY <1>1, <1>2, <1>3, <1>5, <1>7, <1>8, <1>9, OwnerKeeps DEF Form

(* Its flags are registered and its run is spawned. *)
LEMMA ArmShapes ==
  ASSUME Inv, NEW d \in Drives, Arm(d)
  PROVE  Shapes'
<1>1. drive[d].at = "arm" /\ Owns(d) /\ run[d].at = "off" /\ BeginShape(d) /\ Form(d)
  BY Ownership, DriveWithoutRun DEF Arm, Inv, Shapes, Forms
<1>2. /\ UNCHANGED <<mem, disk, op, flag, work, granted, refused, attempt, cost, aborted>>
      /\ drive' = [drive EXCEPT ![d] = [NoDrive EXCEPT !.at = "drain"]]
      /\ run' = [run EXCEPT ![d] = [NoRun EXCEPT !.at = "boundary",
                                                 !.out = drive[d].draft.out]]
  BY DEF Arm, DriveKeeps, history, ghosts
<1>3. /\ drive'[d].at = "drain" /\ drive'[d].put = "no" /\ drive'[d].draft = NoRecord
  BY <1>2, TypeParts DEF Inv, ThingTypes, NoDrive
<1>4. /\ run'[d].at = "boundary" /\ run'[d].out = mem.out /\ run'[d].wave = {}
      /\ run'[d].end = "none"
  BY <1>1, <1>2, TypeParts DEF Inv, ThingTypes, NoRun, BeginShape
<1>5. Form(d)'
  BY <1>3, <1>4 DEF Form
<1>6. RunShape(d)'
  BY <1>1, <1>2, <1>3, <1>4 DEF BeginShape, RunShape, Verifies, Calm, Matches, Counted
<1>7. Shape(d)'
  BY <1>4, <1>6 DEF Shape
<1>8. \A e \in Drives \ {d} : drive'[e] = drive[e] /\ run'[e] = run[e]
  BY <1>2, OthersStay
<1>9. Judged' /\ aborted' <= attempt'
  BY <1>1, <1>2 DEF Judged, BeginShape, Inv, Shapes
<1> QED
  BY <1>1, <1>2, <1>3, <1>5, <1>7, <1>8, <1>9, OwnerKeeps DEF Form

(* The progress of the run is persisted. *)
LEMMA PersistShapes ==
  ASSUME Inv, NEW d \in Drives, Persist(d)
  PROVE  Shapes'
<1>1. /\ drive[d].at = "drain" /\ drive[d].put = "no" /\ Owns(d) /\ run[d].at # "off"
      /\ RunShape(d) /\ Form(d) /\ mem \in Records
  BY Ownership, DriveWithoutRun, OwnersAreAlone DEF Persist, Inv, Shapes, Forms
<1>2. /\ UNCHANGED <<mem, disk, op, run, work, granted, refused, attempt, cost, aborted>>
      /\ Puts(d, "drain", mem)
  BY DEF Persist, DriveKeeps, history, ghosts
<1>3. drive'[d].at = "drain" /\ drive'[d].put = "save" /\ drive'[d].draft = mem
  BY <1>2, DriveFields
<1>4. flag'[d].meter = flag[d].meter /\ flag'[d].abort = flag[d].abort
  BY TypeParts DEF Persist, Inv, ThingTypes, FlagRecords
<1>5. Form(d)'
  BY <1>1, <1>2, <1>3 DEF Form
<1>6. RunShape(d)'
  BY <1>1, <1>2, <1>3, <1>4 DEF RunShape, Verifies, Matches
<1>7. Shape(d)'
  BY <1>1, <1>2, <1>6 DEF Shape
<1>8. \A e \in Drives \ {d} : drive'[e] = drive[e] /\ run'[e] = run[e]
  BY <1>2, OthersStay
<1>9. Judged' /\ aborted' <= attempt'
  BY <1>1, <1>2 DEF Judged, RunShape, Inv, Shapes
<1> QED
  BY <1>1, <1>2, <1>3, <1>5, <1>7, <1>8, <1>9, OwnerKeeps

(* The end of the run is drafted, or the drive fails with it. *)
LEMMA LandShapes ==
  ASSUME Inv, NEW d \in Drives, Land(d)
  PROVE  Shapes'
<1>1. /\ drive[d].at = "drain" /\ drive[d].put = "no" /\ Owns(d) /\ run[d].at = "ended"
      /\ RunShape(d) /\ Form(d) /\ mem \in Records
  BY Ownership, DriveWithoutRun, OwnersAreAlone DEF Land, Inv, Shapes, Forms
<1>2. /\ UNCHANGED <<mem, disk, op, flag, work, granted, refused, attempt, cost, aborted>>
      /\ run' = [run EXCEPT ![d] = NoRun]
  BY DEF Land, DriveKeeps, history
<1>3. run'[d] = NoRun
  BY <1>2, TypeParts DEF Inv, ThingTypes
<1>4. Judged' /\ aborted' <= attempt'
  BY <1>1, <1>2 DEF Judged, RunShape, Inv, Shapes
<1>5. CASE run[d].end = "error"
  <2>1. Goes(d, "cleanup")
    BY <1>5 DEF Land
  <2>2. drive'[d].at = "cleanup" /\ drive'[d].put = "no" /\ drive'[d].draft = NoRecord
    BY <1>1, <2>1, DriveFields DEF Form
  <2>3. Form(d)' /\ ~Owns(d)'
    BY <1>3, <2>2 DEF Form, Owns, Verifies, NoRun, NoRecord
  <2>4. \A e \in Drives \ {d} : drive'[e] = drive[e] /\ run'[e] = run[e]
    BY <1>2, <2>1, OthersStay
  <2> QED
    BY <1>1, <1>2, <1>4, <2>2, <2>3, <2>4, OwnerKeeps
<1>6. CASE run[d].end # "error"
  <2>1. Puts(d, "land", Landed(d))
    BY <1>6 DEF Land
  <2>2. drive'[d].at = "land" /\ drive'[d].put = "save" /\ drive'[d].draft = Landed(d)
    BY <2>1, DriveFields
  <2>3. Form(d)'
    BY <1>3, <2>2 DEF Form, NoRun
  <2>4. LandShape(Landed(d))
    <3> DEFINE rec == [mem EXCEPT !.out = run[d].out, !.gate = 0, !.spend = flag[d].meter]
    <3>1. /\ Landed(d) \in Records /\ mem.phase = "Executing" /\ Calm(mem.out)
          /\ mem.out = run[d].out /\ flag[d].meter = cost /\ mem.attempts + 1 = attempt
      BY <1>1, <1>6, LandedIsRecord DEF RunShape, Calm, Inv, Form
    <3>2. run[d].end \in {"completed", "paused", "halted", "awaiting"}
      BY <1>1, <1>6, TypeParts DEF Inv, ThingTypes, RunRecords, Form
    <3>3. policy.headless \in BOOLEAN
      BY TypeParts, MissionAssumption DEF Inv, ThingTypes, MissionAssumption
    <3>4. /\ rec \in [phase : Phases, out : [Steps -> Outputs], gate : Gates \cup {0},
                      attempts : 0 .. MaxAttempts, spend : Nat]
          /\ rec.out = mem.out /\ rec.spend = cost /\ rec.attempts = mem.attempts
      BY <1>1, <3>1, TypeParts DEF Inv, ThingTypes, FlagRecords, Records
    <3>5. CASE run[d].end = "completed"
      <4>1. Landed(d) = [rec EXCEPT !.phase = "Done"] /\ Complete(mem.out)
        BY <1>1, <3>5 DEF Landed, RunShape
      <4>2. /\ Landed(d).phase = "Done" /\ Landed(d).out = mem.out
            /\ Landed(d).spend = cost /\ Landed(d).attempts = mem.attempts
        BY <3>4, <4>1
      <4> QED
        BY <3>1, <4>1, <4>2 DEF LandShape, Counted, Restful
    <3>6. CASE run[d].end \in {"paused", "halted"}
      <4>1. /\ Landed(d) = [rec EXCEPT !.phase = IF run[d].end = "paused" THEN "Paused"
                                                 ELSE "Halted"]
            /\ run[d].end = "paused" => aborted # attempt
        BY <1>1, <3>6 DEF Landed, RunShape
      <4>2. /\ Landed(d).phase = (IF run[d].end = "paused" THEN "Paused" ELSE "Halted")
            /\ Landed(d).out = mem.out
            /\ Landed(d).spend = cost /\ Landed(d).attempts = mem.attempts
        BY <3>4, <4>1
      <4> QED
        BY <3>1, <4>1, <4>2 DEF LandShape, Counted, Restful
    <3>7. CASE run[d].end = "awaiting" /\ policy.headless
      <4>1. /\ Landed(d) = [rec EXCEPT !.phase = "Rejected", !.out[run[d].gate] = "rejected"]
            /\ run[d].gate \in Gates \cap Ready(mem.out)
        BY <1>1, <3>7 DEF Landed, RunShape
      <4>2. /\ Landed(d).phase = "Rejected"
            /\ Landed(d).out = [mem.out EXCEPT ![run[d].gate] = "rejected"]
            /\ Landed(d).spend = cost /\ Landed(d).attempts = mem.attempts
        BY <3>4, <4>1
      <4> QED
        BY <3>1, <4>1, <4>2 DEF LandShape, Counted, Restful
    <3>8. CASE run[d].end = "awaiting" /\ ~policy.headless
      <4>1. /\ Landed(d) = [rec EXCEPT !.phase = "AwaitingApproval", !.gate = run[d].gate]
            /\ run[d].gate \in Gates \cap Ready(mem.out) /\ aborted # attempt
        BY <1>1, <3>8 DEF Landed, RunShape
      <4>2. /\ Landed(d).phase = "AwaitingApproval" /\ Landed(d).gate = run[d].gate
            /\ Landed(d).out = mem.out
            /\ Landed(d).spend = cost /\ Landed(d).attempts = mem.attempts
        BY <3>4, <4>1
      <4> QED
        BY <3>1, <4>1, <4>2 DEF LandShape, Counted, Restful
    <3> QED
      BY <3>2, <3>3, <3>5, <3>6, <3>7, <3>8
  <2>5. LandShape(drive[d].draft)'
    <3>1. \A r : LandShape(r) => LandShape(r)'
      BY <1>2 DEF LandShape, Calm, Matches, Counted, Ready, Complete
    <3>2. ASSUME NEW r, r = Landed(d)
          PROVE  LandShape(r)'
      BY <2>4, <3>1, <3>2
    <3> QED
      BY <2>2, <3>2 DEF LandShape
  <2>6. Shape(d)'
    BY <1>3, <2>2, <2>5 DEF Shape, NoRun
  <2>7. \A e \in Drives \ {d} : drive'[e] = drive[e] /\ run'[e] = run[e]
    BY <1>2, <2>1, OthersStay
  <2> QED
    BY <1>1, <1>2, <1>4, <2>2, <2>3, <2>6, <2>7, OwnerKeeps
<1> QED
  BY <1>5, <1>6

(* The flags of a drive are dropped, whether it still owns the mission or  *)
(* another works on it by now.                                             *)
LEMMA CleanupShapes ==
  ASSUME Inv, NEW d \in Drives, Cleanup(d)
  PROVE  Shapes'
<1>1. drive[d].at = "cleanup" /\ drive[d].put = "no" /\ Form(d)
  BY DEF Cleanup, Inv, Shapes, Forms, Form
<1>2. UNCHANGED <<mem, disk, op, run, flag, policy, faults, restarts, accepted, work, granted,
                  refused, attempt, cost, aborted>>
  BY DEF Cleanup, DriveKeeps, history, ghosts
<1>3. aborted' <= attempt'
  BY <1>2 DEF Inv, Shapes
<1>4. CASE Verifies(d) /\ policy.verify
  <2>1. drive' = [drive EXCEPT ![d] = [NoDrive EXCEPT !.at = "judge"]]
    BY <1>4 DEF Cleanup, Verifies
  <2>2. drive'[d].at = "judge" /\ drive'[d].put = "no"
    BY <2>1, TypeParts DEF Inv, ThingTypes, NoDrive
  <2>3. Owns(d) /\ run[d].at = "off" /\ VerifyShape(d)
    BY <1>4, DriveWithoutRun DEF Owns
  <2>4. Form(d)'
    BY <1>1, <1>2, <2>2 DEF Form
  <2>5. VerifyShape(d)'
    BY <1>1, <1>2, <2>2, <2>3 DEF VerifyShape, Calm, Matches, Complete, Counted
  <2>6. Shape(d)'
    BY <1>2, <2>2, <2>3, <2>5 DEF Shape
  <2>7. \A e \in Drives \ {d} : drive'[e] = drive[e] /\ run'[e] = run[e]
    BY <1>2, <2>1, OthersStay
  <2>8. Judged'
    BY <2>2 DEF Judged
  <2> QED
    BY <1>1, <1>2, <1>3, <2>2, <2>3, <2>4, <2>6, <2>7, <2>8, OwnerKeeps
<1>5. CASE ~(Verifies(d) /\ policy.verify)
  <2>1. Leaves(d)
    BY <1>1, <1>5 DEF Cleanup, Verifies
  <2>2. drive'[d] = NoDrive /\ drive'[d].at = "off" /\ drive'[d].put = "no"
    BY <2>1, DriveFields DEF NoDrive
  <2>3. Form(d)'
    BY <1>1, <1>2, <2>2 DEF Form
  <2>4. \A e \in Drives \ {d} : drive'[e] = drive[e] /\ run'[e] = run[e]
    BY <1>2, <2>1, OthersStay
  <2>5. Judged'
    <3>1. CASE ~policy.verify
      BY <3>1, <1>2 DEF Judged
    <3>2. CASE ~Verifies(d)
      BY <3>2, <1>1, <1>2, <2>4 DEF Judged, Verifies, Inv, Shapes
    <3> QED
      BY <1>5, <3>1, <3>2
  <2>6. CASE Owns(d)
    <3>1. Owns(d)' => run[d].at # "off"
      BY <1>2, <2>2 DEF Owns, Verifies
    <3>2. run[d].at # "off" => RunShape(d)'
      <4>1. run[d].at # "off" => RunShape(d)
        BY DriveWithoutRun
      <4> QED
        BY <1>1, <1>2, <2>2, <4>1 DEF RunShape, Verifies, Matches, Complete, Ready
    <3>3. Owns(d)' => Shape(d)'
      BY <1>2, <3>1, <3>2 DEF Shape
    <3> QED
      BY <1>1, <1>2, <1>3, <2>2, <2>3, <2>4, <2>5, <2>6, <3>3, OwnerKeeps
  <2>7. CASE ~Owns(d)
    <3>1. ~Owns(d)'
      BY <1>2, <2>2, <2>7 DEF Owns, Verifies
    <3>2. \A e \in Drives \ {d} : (Owns(e)' <=> Owns(e)) /\ (Shape(e) => Shape(e)')
      <4>1. ASSUME NEW e \in Drives \ {d}
            PROVE  (Owns(e)' <=> Owns(e)) /\ (Shape(e) => Shape(e)')
        <5>1. drive'[e] = drive[e] /\ run'[e] = run[e]
          BY <2>4
        <5>2. Owns(e)' <=> Owns(e)
          BY <5>1 DEF Owns, Verifies
        <5>3. BeginShape(e) => BeginShape(e)'
          BY <1>2, <5>1 DEF BeginShape, Calm, Matches, Counted
        <5>4. RunShape(e) => RunShape(e)'
          BY <1>2, <5>1 DEF RunShape, Verifies, Matches
        <5>5. LandShape(drive[e].draft) => LandShape(drive[e].draft)'
          BY <1>2, <5>1 DEF LandShape, Calm, Matches, Counted
        <5>6. VerifyShape(e) => VerifyShape(e)'
          BY <1>2, <5>1 DEF VerifyShape, Calm, Matches, Counted
        <5> QED
          BY <5>1, <5>2, <5>3, <5>4, <5>5, <5>6 DEF Shape
      <4> QED
        BY <4>1
    <3>3. Owner'
      BY <3>1, <3>2 DEF Owner, Inv, Shapes
    <3>4. Forms'
      BY <2>3, <2>4 DEF Forms, Form, Inv, Shapes
    <3>5. Resting'
      BY <1>2, <3>1, <3>2 DEF Resting, AtRest, Calm, Matches, Counted, Inv, Shapes
    <3>6. Alone'
      BY <1>2 DEF Alone, Inv, Shapes
    <3>7. Stored'
      <4>1. Inserting' <=> Inserting
        BY <1>1, <1>2, <2>2, <2>4 DEF Inserting
      <4> QED
        BY <1>1, <1>2, <2>2, <2>4, <4>1 DEF Stored, Inv, Shapes
    <3> QED
      BY <1>3, <2>5, <3>3, <3>4, <3>5, <3>6, <3>7 DEF Shapes
  <2> QED
    BY <2>6, <2>7
<1> QED
  BY <1>4, <1>5

(* What a drive that verifies or retries has in front of it. *)
LEMMA Verifying ==
  ASSUME Inv, NEW d \in Drives, drive[d].at \in {"judge", "fail", "retry", "reset"}
  PROVE  /\ Owns(d) /\ run[d].at = "off" /\ VerifyShape(d) /\ Form(d) /\ mem \in Records
         /\ mem.phase \in {"Done", "Rejected"}
         /\ drive[d].at \in {"retry", "reset"} /\ Judged =>
              (mem.phase = "Done" /\ policy.verify /\ restarts = 0 /\ faults = 0 => accepted)
<1>1. /\ Owns(d) /\ run[d].at = "off" /\ VerifyShape(d) /\ Form(d) /\ mem \in Records
      /\ mem.phase \in {"Done", "Rejected"}
  BY Ownership, DriveWithoutRun, OwnersAreAlone DEF VerifyShape, Inv, Shapes, Forms
<1>2. \A e \in Drives \ {d} : ~Verifies(e) /\ drive[e].at \notin {"judge", "fail"}
  BY <1>1, OwnersAreAlone DEF Owns
<1> QED
  BY <1>1, <1>2 DEF Judged, Verifies

(* The finished mission is verified. *)
LEMMA JudgeShapes ==
  ASSUME Inv, NEW d \in Drives, NEW passed \in BOOLEAN, Judge(d, passed)
  PROVE  Shapes'
<1>1. drive[d].at = "judge" /\ drive[d].put = "no"
  BY DEF Judge, Inv, Shapes, Forms, Form
<1>2. UNCHANGED <<mem, disk, op, run, policy, faults, restarts, work, granted, refused,
                  attempt, cost, aborted>>
  BY DEF Judge, DriveKeeps, history
<1>3. Owns(d) /\ run[d].at = "off" /\ VerifyShape(d) /\ Form(d)
  BY <1>1, Verifying
<1>4. aborted' <= attempt'
  BY <1>2 DEF Inv, Shapes
<1>5. CASE passed
  <2>1. Leaves(d) /\ accepted' = TRUE
    BY <1>5 DEF Judge
  <2>2. drive'[d] = NoDrive /\ drive'[d].at = "off" /\ drive'[d].put = "no"
    BY <2>1, DriveFields DEF NoDrive
  <2>3. Form(d)' /\ ~Owns(d)'
    BY <1>2, <1>3, <2>2 DEF Form, Owns, Verifies
  <2>4. \A e \in Drives \ {d} : drive'[e] = drive[e] /\ run'[e] = run[e]
    BY <1>2, <2>1, OthersStay
  <2>5. Judged'
    BY <2>1 DEF Judged
  <2> QED
    BY <1>1, <1>2, <1>3, <1>4, <2>2, <2>3, <2>4, <2>5, OwnerKeeps
<1>6. CASE ~passed
  <2>1. Puts(d, "fail", [mem EXCEPT !.phase = "Rejected"])
    BY <1>6 DEF Judge
  <2>2. /\ drive'[d].at = "fail" /\ drive'[d].put = "save"
        /\ drive'[d].draft = [mem EXCEPT !.phase = "Rejected"]
    BY <2>1, DriveFields
  <2>3. Form(d)'
    BY <1>2, <1>3, <2>2 DEF Form
  <2>4. VerifyShape(d)'
    BY <1>1, <1>2, <1>3, <2>2 DEF VerifyShape, Calm, Matches, Complete, Counted
  <2>5. Shape(d)'
    BY <1>2, <1>3, <2>2, <2>4 DEF Shape
  <2>6. \A e \in Drives \ {d} : drive'[e] = drive[e] /\ run'[e] = run[e]
    BY <1>2, <2>1, OthersStay
  <2>7. Judged'
    BY <2>2 DEF Judged
  <2> QED
    BY <1>1, <1>2, <1>3, <1>4, <2>2, <2>3, <2>5, <2>6, <2>7, OwnerKeeps
<1> QED
  BY <1>5, <1>6

(* It is given up, or begun again. *)
LEMMA RetryShapes ==
  ASSUME Inv, NEW d \in Drives, Retry(d)
  PROVE  Shapes'
<1>1. drive[d].at = "retry" /\ drive[d].put = "no"
  BY DEF Retry, Inv, Shapes, Forms, Form
<1>2. UNCHANGED <<mem, disk, op, run, policy, faults, restarts, accepted, work, granted,
                  refused, attempt, cost, aborted>>
  BY DEF Retry, DriveKeeps, history, ghosts
<1>3. Owns(d) /\ run[d].at = "off" /\ VerifyShape(d) /\ Form(d) /\ mem \in Records
  BY <1>1, Verifying
<1>4. aborted' <= attempt' /\ Judged'
  BY <1>1, <1>2, Verifying DEF Judged, Inv, Shapes
<1>5. CASE Leaves(d)
  <2>1. drive'[d] = NoDrive /\ drive'[d].at = "off" /\ drive'[d].put = "no"
    BY <1>5, DriveFields DEF NoDrive
  <2>2. Form(d)' /\ ~Owns(d)'
    BY <1>2, <1>3, <2>1 DEF Form, Owns, Verifies
  <2>3. \A e \in Drives \ {d} : drive'[e] = drive[e] /\ run'[e] = run[e]
    BY <1>2, <1>5, OthersStay
  <2> QED
    BY <1>1, <1>2, <1>3, <1>4, <2>1, <2>2, <2>3, OwnerKeeps
<1>6. CASE /\ ~(mem.attempts + 1 >= MaxAttempts)
           /\ Puts(d, "reset", [mem EXCEPT !.phase = "Executing", !.out = Empty,
                                           !.gate = 0, !.attempts = @ + 1])
  <2>1. /\ drive'[d].at = "reset" /\ drive'[d].put = "save"
        /\ drive'[d].draft = [mem EXCEPT !.phase = "Executing", !.out = Empty, !.gate = 0,
                                         !.attempts = @ + 1]
    BY <1>6, DriveFields
  <2>2. mem.attempts + 1 < MaxAttempts
    BY <1>3, <1>6, Numbers DEF Inv
  <2>3. Form(d)'
    BY <1>2, <1>3, <2>1 DEF Form
  <2>4. VerifyShape(d)'
    BY <1>1, <1>2, <1>3, <2>1, <2>2 DEF VerifyShape, Calm, Matches, Complete, Counted, Empty
  <2>5. Shape(d)'
    BY <1>2, <1>3, <2>1, <2>4 DEF Shape
  <2>6. \A e \in Drives \ {d} : drive'[e] = drive[e] /\ run'[e] = run[e]
    BY <1>2, <1>6, OthersStay
  <2> QED
    BY <1>1, <1>2, <1>3, <1>4, <2>1, <2>3, <2>5, <2>6, OwnerKeeps
<1> QED
  BY <1>5, <1>6 DEF Retry

(* A drive that puts a record owns the mission. *)
LEMMA PutsOwn ==
  ASSUME Inv, NEW d \in Drives, drive[d].put # "no"
  PROVE  /\ Owns(d) /\ Form(d) /\ mem \in Records
         /\ drive[d].at \in {"enter", "drain", "land", "fail", "reset"}
         /\ \A e \in Drives \ {d} : ~Owns(e) /\ drive[e].put = "no"
         /\ \A o \in Operators : op[o].put # "insert"
<1>1. Form(d)
  BY DEF Inv, Shapes, Forms
<1>2. drive[d].at \in {"enter", "drain", "land", "fail", "reset"}
  BY <1>1, DriveFields DEF Form, NoDrive
<1>3. Owns(d)
  BY <1>1, Ownership
<1>4. \A e \in Drives \ {d} : ~Owns(e) /\ drive[e].put = "no"
  BY <1>3, OwnersAreAlone, Ownership DEF Inv, Shapes, Forms
<1> QED
  BY <1>1, <1>2, <1>3, <1>4, OwnersAreAlone

(* A drive's record is stored. *)
LEMMA DriveSaveShapes ==
  ASSUME Inv, NEW d \in Drives, DriveSave(d)
  PROVE  Shapes'
<1>1. /\ drive[d].put = "save" /\ Owns(d) /\ Form(d) /\ mem \in Records
      /\ drive[d].at \in {"enter", "drain", "land", "fail", "reset"}
      /\ \A e \in Drives \ {d} : ~Owns(e) /\ drive[e].put = "no"
      /\ \A o \in Operators : op[o].put # "insert"
  BY PutsOwn DEF DriveSave
<1>2. /\ UNCHANGED <<mem, op, run, flag, policy, faults, restarts, accepted, work, granted,
                     refused, attempt, cost, aborted>>
      /\ disk' = drive[d].draft
  BY DEF DriveSave, DriveKeeps, history, ghosts
<1>3. \A e \in Drives \ {d} : drive'[e] = drive[e] /\ run'[e] = run[e]
  BY <1>2, OthersStay DEF DriveSave
<1>4. aborted' <= attempt'
  BY <1>2 DEF Inv, Shapes
<1>5. mem.phase \notin Restful
  BY <1>1, OwnersAreAlone
<1>6. CASE drive[d].at = "drain"
  <2>1. drive' = [drive EXCEPT ![d] = [NoDrive EXCEPT !.at = "drain"]]
    BY <1>6 DEF DriveSave
  <2>2. drive'[d].at = "drain" /\ drive'[d].put = "no" /\ drive'[d].draft = NoRecord
    BY <2>1, TypeParts DEF Inv, ThingTypes, NoDrive
  <2>3. run[d].at # "off" /\ RunShape(d) /\ disk'.phase = "Executing" /\ mem.phase = "Executing"
    BY <1>1, <1>2, <1>6, DriveWithoutRun DEF RunShape
  <2>4. Form(d)'
    BY <1>1, <1>2, <2>2 DEF Form
  <2>5. RunShape(d)'
    BY <1>1, <1>2, <2>2, <2>3 DEF RunShape, Verifies, Matches
  <2>6. Shape(d)'
    BY <1>2, <2>3, <2>5 DEF Shape
  <2>7. Forms' /\ Owner' /\ Alone' /\ Resting'
    BY <1>1, <1>2, <1>3, <1>5, <2>4, <2>6, OwnerSteps, BusySteps
  <2>8. Stored'
    BY <1>1, <1>2, <1>3, <2>2, <2>3 DEF Stored, Restful
  <2>9. Judged'
    BY <1>2, <2>3 DEF Judged
  <2> QED
    BY <1>4, <2>7, <2>8, <2>9 DEF Shapes
<1>7. CASE drive[d].at # "drain"
  <2>1. drive' = [drive EXCEPT ![d].put = "insert"]
    BY <1>7 DEF DriveSave
  <2>2. /\ drive'[d].at = drive[d].at /\ drive'[d].put = "insert"
        /\ drive'[d].draft = drive[d].draft
    BY <2>1, TypeParts DEF Inv, ThingTypes, DriveRecords
  <2>3. run[d].at = "off"
    BY <1>1, <1>7, DriveWithoutRun
  <2>4. Form(d)'
    BY <1>1, <1>2, <1>7, <2>2, <2>3 DEF Form
  <2>5. Shape(d)'
    <3>1. drive[d].at = "enter" => BeginShape(d)'
      <4>1. drive[d].at = "enter" => BeginShape(d)
        BY DriveWithoutRun
      <4> QED
        BY <1>2, <2>2, <4>1 DEF BeginShape, Calm, Matches, Counted
    <3>2. drive[d].at = "land" => LandShape(drive[d].draft)'
      <4>1. drive[d].at = "land" => LandShape(drive[d].draft)
        BY DriveWithoutRun
      <4> QED
        BY <1>2, <2>2, <4>1 DEF LandShape, Calm, Matches, Counted
    <3>3. drive[d].at \in {"fail", "reset"} => VerifyShape(d)'
      <4>1. drive[d].at \in {"fail", "reset"} => VerifyShape(d)
        BY DriveWithoutRun
      <4> QED
        BY <1>2, <2>2, <4>1 DEF VerifyShape, Calm, Matches, Complete, Counted
    <3> QED
      BY <1>1, <1>2, <1>7, <2>2, <2>3, <3>1, <3>2, <3>3 DEF Shape
  <2>6. Forms' /\ Owner' /\ Alone' /\ Resting'
    BY <1>1, <1>2, <1>3, <1>5, <2>4, <2>5, OwnerSteps, BusySteps
  <2>7. drive[d].at # "land" => drive[d].draft.phase \in {"Executing", "Rejected"}
    <3>1. drive[d].at = "enter" => drive[d].draft = [mem EXCEPT !.phase = "Executing", !.gate = 0]
      BY DriveWithoutRun DEF BeginShape
    <3>2. drive[d].at = "fail" => drive[d].draft = [mem EXCEPT !.phase = "Rejected"]
      BY DriveWithoutRun DEF VerifyShape
    <3>3. drive[d].at = "reset" =>
            drive[d].draft = [mem EXCEPT !.phase = "Executing", !.out = Empty, !.gate = 0,
                                         !.attempts = @ + 1]
      BY DriveWithoutRun DEF VerifyShape
    <3> QED
      BY <1>1, <1>7, <3>1, <3>2, <3>3 DEF Records
  <2>8. Stored'
    BY <1>1, <1>2, <1>3, <2>2, <2>7 DEF Stored, Restful, Inserting
  <2>9. Judged'
    <3>1. Verifies(d)' <=> Verifies(d)
      BY <2>2 DEF Verifies
    <3> QED
      BY <1>2, <1>3, <2>2, <3>1 DEF Judged, Verifies, Inv, Shapes
  <2> QED
    BY <1>4, <2>6, <2>8, <2>9 DEF Shapes
<1> QED
  BY <1>6, <1>7

(* A record is not stored: the drive fails, but for a failed verification. *)
LEMMA DriveSaveFailsShapes ==
  ASSUME Inv, NEW d \in Drives, DriveSaveFails(d)
  PROVE  Shapes'
<1>1. /\ drive[d].put = "save" /\ Owns(d) /\ Form(d) /\ mem \in Records
      /\ drive[d].at \in {"enter", "drain", "land", "fail", "reset"}
  BY PutsOwn DEF DriveSaveFails
<1>2. UNCHANGED <<mem, disk, op, run, flag, work, granted, refused, attempt, cost, aborted>>
  BY DEF DriveSaveFails, DriveKeeps, history
<1>3. \A e \in Drives \ {d} : drive'[e] = drive[e] /\ run'[e] = run[e]
  BY <1>2, OthersStay DEF DriveSaveFails
<1>4. aborted' <= attempt' /\ Judged'
  <2>1. faults' # 0
    BY Numbers DEF DriveSaveFails, Inv
  <2> QED
    BY <1>2, <2>1 DEF Judged, Inv, Shapes
<1>5. CASE drive[d].at \in {"enter", "reset"}
  <2>1. drive'[d] = NoDrive /\ drive'[d].at = "off" /\ drive'[d].put = "no"
    BY <1>5, TypeParts DEF DriveSaveFails, Inv, ThingTypes, NoDrive
  <2>2. run[d].at = "off"
    BY <1>5, DriveWithoutRun
  <2>3. Form(d)' /\ ~Owns(d)'
    BY <1>1, <1>2, <2>1, <2>2 DEF Form, Owns, Verifies
  <2> QED
    BY <1>1, <1>2, <1>3, <1>4, <2>1, <2>3, OwnerKeeps
<1>6. CASE drive[d].at \in {"drain", "land"}
  <2>1. drive' = [drive EXCEPT ![d] = [NoDrive EXCEPT !.at = "cleanup"]]
    BY <1>6 DEF DriveSaveFails
  <2>2. drive'[d].at = "cleanup" /\ drive'[d].put = "no" /\ drive'[d].draft = NoRecord
    BY <2>1, TypeParts DEF Inv, ThingTypes, NoDrive
  <2>3. Form(d)' /\ ~Verifies(d)'
    BY <1>1, <1>2, <2>2 DEF Form, Verifies, NoRecord
  <2>4. Owns(d)' => run[d].at # "off"
    BY <1>2, <2>2, <2>3 DEF Owns
  <2>5. run[d].at # "off" => RunShape(d)'
    <3>1. run[d].at # "off" => RunShape(d)
      BY DriveWithoutRun
    <3> QED
      BY <1>1, <1>2, <2>2, <2>3, <3>1 DEF RunShape, Matches
  <2>6. Owns(d)' => Shape(d)'
    BY <1>2, <2>4, <2>5 DEF Shape
  <2> QED
    BY <1>1, <1>2, <1>3, <1>4, <2>2, <2>3, <2>6, OwnerKeeps
<1>7. CASE drive[d].at = "fail"
  <2>1. drive' = [drive EXCEPT ![d] = [NoDrive EXCEPT !.at = "retry"]]
    BY <1>7 DEF DriveSaveFails
  <2>2. drive'[d].at = "retry" /\ drive'[d].put = "no"
    BY <2>1, TypeParts DEF Inv, ThingTypes, NoDrive
  <2>3. run[d].at = "off" /\ VerifyShape(d)
    BY <1>7, DriveWithoutRun
  <2>4. Form(d)'
    BY <1>1, <1>2, <2>2 DEF Form
  <2>5. VerifyShape(d)'
    BY <1>1, <1>2, <2>2, <2>3 DEF VerifyShape, Calm, Matches, Complete, Counted
  <2>6. Shape(d)'
    BY <1>2, <2>2, <2>3, <2>5 DEF Shape
  <2> QED
    BY <1>1, <1>2, <1>3, <1>4, <2>2, <2>4, <2>6, OwnerKeeps
<1> QED
  BY <1>1, <1>5, <1>6, <1>7

(* A drive's record is shown. *)
LEMMA DriveInsertShapes ==
  ASSUME Inv, NEW d \in Drives, DriveInsert(d)
  PROVE  Shapes'
<1>1. /\ drive[d].put = "insert" /\ Owns(d) /\ Form(d) /\ mem \in Records
      /\ drive[d].at \in {"enter", "land", "fail", "reset"}
      /\ \A e \in Drives \ {d} : ~Owns(e) /\ drive[e].put = "no"
      /\ \A o \in Operators : op[o].put # "insert"
  BY PutsOwn DEF DriveInsert, Form
<1>2. /\ UNCHANGED <<disk, op, run, flag, policy, faults, restarts, accepted, cost, aborted>>
      /\ mem' = drive[d].draft /\ disk = drive[d].draft
      /\ drive[d].at # "reset" => UNCHANGED <<work, granted, attempt>>
      /\ drive[d].at \in {"enter", "fail"} => UNCHANGED refused
  BY <1>1 DEF DriveInsert, DriveKeeps, ghosts, Inv, Shapes, Stored
<1>3. \A e \in Drives \ {d} : drive'[e] = drive[e] /\ run'[e] = run[e]
  BY <1>2, TypeParts DEF DriveInsert, Inv, ThingTypes
<1>4. /\ drive'[d].at = NextAt(drive[d].at) /\ drive'[d].put = "no"
      /\ drive'[d].draft = drive[d].draft
  BY TypeParts DEF DriveInsert, Inv, ThingTypes, DriveRecords
<1>5. run[d].at = "off" /\ Form(d)'
  <2>1. run[d].at = "off"
    BY <1>1, DriveWithoutRun
  <2> QED
    BY <1>1, <1>2, <1>4, <2>1 DEF Form, NextAt
<1>6. \A e \in Drives : drive'[e].put = "no"
  BY <1>1, <1>3, <1>4
<1>7. Stored'
  <2>1. mem'.phase # "Executing" => Recover(disk') = mem'
    BY <1>2 DEF Recover
  <2> QED
    BY <1>1, <1>2, <1>6, <2>1 DEF Stored
<1>8. CASE drive[d].at = "enter"
  <2>1. BeginShape(d) /\ drive'[d].at = "arm"
    BY <1>4, <1>8, DriveWithoutRun DEF NextAt
  <2>2. /\ mem' = [mem EXCEPT !.phase = "Executing", !.gate = 0]
        /\ mem'.phase = "Executing" /\ mem'.out = mem.out /\ mem'.spend = mem.spend
        /\ mem'.attempts = mem.attempts
    BY <1>1, <1>2, <1>8, <2>1 DEF BeginShape, Records
  <2>3. BeginShape(d)'
    BY <1>2, <1>4, <1>8, <2>1, <2>2 DEF BeginShape, Calm, Matches, Counted
  <2>4. Shape(d)'
    BY <1>2, <1>5, <2>1, <2>3 DEF Shape
  <2>5. Forms' /\ Owner' /\ Alone' /\ Resting'
    BY <1>1, <1>2, <1>3, <1>5, <2>2, <2>4, OwnerSteps, BusySteps DEF Restful
  <2>6. Judged' /\ aborted' <= attempt'
    BY <1>2, <1>8, <2>2 DEF Judged, Inv, Shapes
  <2> QED
    BY <1>7, <2>5, <2>6 DEF Shapes
<1>9. CASE drive[d].at = "land"
  <2> DEFINE rec == drive[d].draft
  <2>1. LandShape(rec) /\ drive'[d].at = "cleanup"
    BY <1>4, <1>9, DriveWithoutRun DEF NextAt
  <2>2. rec.phase # "Rejected" => /\ rec.out = mem.out /\ Calm(rec.out) /\ UNCHANGED refused
    <3>1. rec.phase # "Rejected" => rec.out = mem.out /\ Calm(rec.out)
      BY <2>1 DEF LandShape
    <3>2. refused' = {g \in Gates : rec.out[g] = "rejected"}
      BY <1>9 DEF DriveInsert
    <3>3. Calm(rec.out) => refused' = {} /\ refused = {}
      BY <3>2, MissionAssumption DEF Calm, Matches, MissionAssumption
    <3> QED
      BY <3>1, <3>3
  <2>3. aborted' <= attempt'
    BY <1>2, <1>9 DEF Inv, Shapes
  <2>4. rec.phase \in Restful => AtRest(mem)'
    <3>1. ASSUME rec.phase \in Restful
          PROVE  /\ rec.phase \in {"Paused", "AwaitingApproval"} /\ Calm(rec.out)
                 /\ Counted(rec) /\ aborted # attempt /\ UNCHANGED refused
                 /\ rec.phase = "AwaitingApproval" => rec.gate \in Gates \cap Ready(rec.out)
      BY <2>1, <2>2, <3>1 DEF LandShape, Restful
    <3>2. mem' = rec
      BY <1>2
    <3> HIDE DEF rec
    <3> QED
      BY <1>2, <1>9, <3>1, <3>2 DEF AtRest, Calm, Matches, Counted
  <2>5. CASE rec.phase = "Done"
    <3>1. Verifies(d)'
      BY <1>4, <2>1, <2>5 DEF Verifies
    <3>2. VerifyShape(d)'
      <4>1. /\ Calm(rec.out) /\ Complete(rec.out) /\ Counted(rec) /\ UNCHANGED refused
        BY <2>1, <2>2, <2>5 DEF LandShape
      <4>2. mem' = rec
        BY <1>2
      <4> HIDE DEF rec
      <4> QED
        BY <1>2, <1>9, <2>1, <2>5, <4>1, <4>2
        DEF VerifyShape, Calm, Matches, Complete, Counted
    <3>3. Shape(d)'
      BY <1>2, <1>5, <2>1, <3>2 DEF Shape
    <3>4. Forms' /\ Owner' /\ Alone' /\ Resting'
      BY <1>1, <1>2, <1>3, <1>5, <2>5, <3>3, OwnerSteps, BusySteps DEF Restful
    <3>5. Judged'
      BY <3>1 DEF Judged
    <3> QED
      BY <1>7, <2>3, <3>4, <3>5 DEF Shapes
  <2>6. CASE rec.phase # "Done"
    <3>1. ~Owns(d)'
      BY <1>2, <1>4, <1>5, <2>1, <2>6 DEF Owns, Verifies
    <3>2. Forms' /\ Owner' /\ Alone'
      BY <1>1, <1>2, <1>3, <1>5, <3>1, OwnerSteps, BusySteps
    <3>3. \A e \in Drives : ~Owns(e)'
      BY <1>1, <1>3, <3>1 DEF Owns, Verifies
    <3>4. Resting'
      BY <1>2, <2>4, <3>3 DEF Resting
    <3>5. Judged'
      BY <1>2, <2>6 DEF Judged
    <3> QED
      BY <1>7, <2>3, <3>2, <3>4, <3>5 DEF Shapes
  <2> QED
    BY <2>5, <2>6
<1>10. CASE drive[d].at = "fail"
  <2>1. VerifyShape(d) /\ drive'[d].at = "retry"
    BY <1>4, <1>10, DriveWithoutRun DEF NextAt
  <2>2. /\ mem' = [mem EXCEPT !.phase = "Rejected"]
        /\ mem'.phase = "Rejected" /\ mem'.out = mem.out /\ mem'.spend = mem.spend
        /\ mem'.attempts = mem.attempts
    BY <1>1, <1>2, <1>10, <2>1 DEF VerifyShape, Records
  <2>3. VerifyShape(d)'
    BY <1>2, <1>4, <1>10, <2>1, <2>2 DEF VerifyShape, Calm, Matches, Complete, Counted
  <2>4. Shape(d)'
    BY <1>2, <1>5, <2>1, <2>3 DEF Shape
  <2>5. Forms' /\ Owner' /\ Alone' /\ Resting'
    BY <1>1, <1>2, <1>3, <1>5, <2>2, <2>4, OwnerSteps, BusySteps DEF Restful
  <2>6. Judged' /\ aborted' <= attempt'
    BY <1>2, <1>10, <2>2 DEF Judged, Inv, Shapes
  <2> QED
    BY <1>7, <2>5, <2>6 DEF Shapes
<1>11. CASE drive[d].at = "reset"
  <2>1. VerifyShape(d) /\ drive'[d].at = "begin"
    BY <1>4, <1>11, DriveWithoutRun DEF NextAt
  <2>2. /\ mem' = [mem EXCEPT !.phase = "Executing", !.out = Empty, !.gate = 0,
                              !.attempts = @ + 1]
        /\ mem'.phase = "Executing" /\ mem'.out = Empty /\ mem'.spend = mem.spend
        /\ mem'.attempts = mem.attempts + 1
    BY <1>1, <1>2, <1>11, <2>1 DEF VerifyShape, Records
  <2>3. /\ work' = [s \in Steps |-> "no"] /\ granted' = {} /\ refused' = {}
        /\ attempt' = attempt + 1
    BY <1>11 DEF DriveInsert
  <2>4. aborted' <= attempt' /\ aborted' # attempt'
    BY <1>2, <2>3, Numbers DEF Inv, Shapes
  <2>5. Calm(mem.out)'
    BY <2>2, <2>3, MissionAssumption DEF Calm, Matches, Empty, MissionAssumption
  <2>6. Counted(mem)'
    BY <1>2, <2>1, <2>2, <2>3 DEF VerifyShape, Counted
  <2>7. BeginShape(d)'
    BY <2>1, <2>2, <2>4, <2>5, <2>6 DEF BeginShape
  <2>8. Shape(d)'
    BY <1>2, <1>5, <2>1, <2>7 DEF Shape
  <2>9. Forms' /\ Owner' /\ Alone' /\ Resting'
    BY <1>1, <1>2, <1>3, <1>5, <2>2, <2>8, OwnerSteps, BusySteps DEF Restful
  <2>10. Judged'
    BY <2>2 DEF Judged
  <2> QED
    BY <1>7, <2>4, <2>9, <2>10 DEF Shapes
<1> QED
  BY <1>1, <1>8, <1>9, <1>10, <1>11

-----------------------------------------------------------------------------
(* Steps of a run *)

(* The steps that are ready in a calm plan were not begun and have all     *)
(* they need.                                                              *)
LEMMA WaveIsReady ==
  ASSUME NEW out, Calm(out)
  PROVE  /\ \A s \in Ready(out) : work[s] = "no" /\ out[s] = "none" /\ s \in Steps
         /\ \A s \in Ready(out) : \A p \in Deps[s] : work[p] = "done" \/ p \in granted
<1>1. ASSUME NEW s \in Ready(out)
      PROVE  s \in Steps /\ out[s] = "none" /\ work[s] = "no"
  BY DEF Ready, Calm, Matches
<1>2. ASSUME NEW s \in Ready(out), NEW p \in Deps[s]
      PROVE  work[p] = "done" \/ p \in granted
  <2>1. p \in Steps /\ out[p] # "none"
    BY <1>1, <1>2, MissionAssumption DEF Ready, MissionAssumption
  <2>2. CASE p \in Gates
    BY <2>1, <2>2 DEF Calm, Matches
  <2>3. CASE p \notin Gates
    BY <2>1, <2>3 DEF Calm, Matches
  <2> QED
    BY <2>2, <2>3
<1> QED
  BY <1>1, <1>2

(* Between two waves. *)
LEMMA BoundaryShapes ==
  ASSUME Inv, NEW d \in Drives, Boundary(d)
  PROVE  Shapes'
<1>1. /\ run[d].at = "boundary" /\ Owns(d) /\ RunShape(d) /\ Form(d)
      /\ run[d].end = "none" /\ run[d].wave = {} /\ Calm(run[d].out)
      /\ flag[d].meter = cost
  BY Ownership, DriveWithoutRun DEF Boundary, Form, RunShape, Calm, Inv, Shapes, Forms
<1>2. UNCHANGED <<policy, mem, disk, drive, op, flag, granted, refused, attempt, cost, aborted>>
  BY DEF Boundary, RunKeeps
<1>3. aborted' <= attempt' /\ Judged'
  BY <1>1, <1>2 DEF RunShape, Judged, Inv, Shapes
<1>4. drive[d].put # "insert" /\ drive[d].at \in {"off", "drain", "cleanup"}
  BY <1>1 DEF RunShape, Form, NoDrive
<1>k. ASSUME Form(d)', RunShape(d)', run'[d].at # "off",
             \A e \in Drives \ {d} : run'[e] = run[e]
      PROVE  Shapes'
  <2>1. Shape(d)'
    BY <1>k DEF Shape
  <2> QED
    BY <1>1, <1>2, <1>3, <1>4, <1>k, <2>1, OwnerKeeps
<1>e. ASSUME NEW end, NEW g, Ends(d, end, g),
             end \in {"completed", "halted", "paused", "awaiting"},
             end = "completed" => Complete(run[d].out),
             end = "awaiting" => g \in Gates \cap Ready(run[d].out),
             aborted = attempt => end \notin {"paused", "awaiting"}
      PROVE  Shapes'
  <2>1. /\ run'[d].at = "ended" /\ run'[d].end = end /\ run'[d].gate = g
        /\ run'[d].out = run[d].out /\ run'[d].wave = run[d].wave /\ UNCHANGED work
        /\ \A e \in Drives \ {d} : run'[e] = run[e]
    BY <1>e, TypeParts DEF Ends, Inv, ThingTypes, RunRecords
  <2>2. Form(d)'
    BY <1>1, <1>2, <1>e, <2>1 DEF Form
  <2>3. RunShape(d)'
    BY <1>1, <1>2, <1>e, <2>1 DEF RunShape, Verifies, Matches, Complete, Ready
  <2> QED
    BY <1>k, <2>1, <2>2, <2>3
<1>5. aborted = attempt => flag[d].abort
  BY <1>1 DEF RunShape
<1>6. aborted = attempt => Halt(d) = "halted"
  BY <1>5 DEF Halt
<1> DEFINE ready == Ready(run[d].out)
           wave == ready \ Gates
<1>7. CASE Complete(run[d].out) /\ Ends(d, "completed", 0)
  BY <1>7, <1>e
<1>8. CASE Halt(d) # "no" /\ Ends(d, Halt(d), 0)
  <2>1. Halt(d) \in {"halted", "paused"}
    BY <1>8 DEF Halt
  <2>2. ASSUME NEW end, end = Halt(d)
        PROVE  Shapes'
    BY <1>6, <1>8, <1>e, <2>1, <2>2
  <2> QED
    BY <2>2
<1>9. CASE /\ ~Complete(run[d].out) /\ Halt(d) = "no" /\ wave = {}
           /\ Ends(d, "awaiting", Min(ready))
  <2>1. Min(ready) \in Gates \cap Ready(run[d].out)
    BY <1>9, SomeReady
  <2>2. ASSUME NEW g, g = Min(ready)
        PROVE  Shapes'
    BY <1>6, <1>9, <1>e, <2>1, <2>2
  <2> QED
    BY <2>2
<1>10. CASE /\ ~Complete(run[d].out) /\ Halt(d) = "no"
            /\ run' = [run EXCEPT ![d].at = "wave", ![d].wave = wave]
            /\ work' = [s \in Steps |-> IF s \notin wave THEN work[s]
                                        ELSE IF work[s] = "no" THEN "going" ELSE "again"]
  <2>1. \A s \in wave : work[s] = "no" /\ run[d].out[s] = "none" /\ s \in Steps \ Gates
    <3>1. \A s \in Ready(run[d].out) : work[s] = "no" /\ run[d].out[s] = "none" /\ s \in Steps
      BY <1>1, WaveIsReady
    <3> QED
      BY <3>1
  <2> HIDE DEF wave
  <2>2. /\ run'[d].at = "wave" /\ run'[d].wave = wave /\ run'[d].out = run[d].out
        /\ run'[d].end = run[d].end
        /\ \A e \in Drives \ {d} : run'[e] = run[e]
    BY <1>10, TypeParts DEF Inv, ThingTypes, RunRecords
  <2>3. Form(d)'
    BY <1>1, <1>2, <2>2 DEF Form
  <2>4. ASSUME NEW w, w = wave
        PROVE  Matches(run[d].out, w)'
    <3>1. work' = [s \in Steps |-> IF s \in wave THEN "going"
                                   ELSE IF run[d].out[s] = "out" THEN "done" ELSE "no"]
      BY <1>1, <1>10, <2>1 DEF Calm, Matches
    <3> QED
      BY <1>1, <1>2, <2>1, <2>2, <2>4, <3>1 DEF Calm, Matches
  <2>5. Matches(run[d].out, run[d].wave)'
    <3>1. ASSUME NEW w, w = run'[d].wave
          PROVE  Matches(run[d].out, w)'
      BY <2>2, <2>4, <3>1
    <3> QED
      BY <3>1 DEF Matches
  <2>6. RunShape(d)'
    BY <1>1, <1>2, <2>2, <2>5 DEF RunShape, Verifies
  <2> QED
    BY <1>k, <2>2, <2>3, <2>6
<1> QED
  BY <1>7, <1>8, <1>9, <1>10 DEF Boundary

(* A wave is over. *)
LEMMA WaveOverShapes ==
  ASSUME Inv, NEW d \in Drives, NEW failed \in Steps \cup {0}, WaveOver(d, failed)
  PROVE  Shapes'
<1> DEFINE good == {s \in run[d].wave : failed = 0 \/ s < failed}
           paid == Cardinality(run[d].wave)
<1>1. /\ run[d].at = "wave" /\ Owns(d) /\ RunShape(d) /\ Form(d) /\ mem \in Records
      /\ run[d].end = "none" /\ Matches(run[d].out, run[d].wave)
      /\ flag[d].meter = cost /\ run[d].out = mem.out
  BY Ownership, DriveWithoutRun, OwnersAreAlone
  DEF WaveOver, Form, RunShape, Inv, Shapes, Forms
<1>2. /\ UNCHANGED <<policy, disk, drive, op, granted, refused, attempt, aborted>>
      /\ cost' = cost + paid
  BY DEF WaveOver, RunKeeps
<1>3. good \subseteq run[d].wave /\ (failed = 0 => good = run[d].wave)
  OBVIOUS
<1>4. /\ mem' = [mem EXCEPT !.out = With(mem.out, good, "out")]
      /\ work' = [s \in Steps |-> IF s \in good /\ work[s] = "going" THEN "done"
                                  ELSE work[s]]
      /\ flag' = [flag EXCEPT ![d].meter = @ + paid, ![d].pinged = @ \/ good # {}]
      /\ run' = [run EXCEPT ![d].out = With(run[d].out, good, "out"), ![d].wave = {},
                            ![d].at = IF failed = 0 THEN "boundary" ELSE "ended",
                            ![d].end = IF failed = 0 THEN "none" ELSE "error"]
  BY DEF WaveOver
<1> HIDE DEF good, paid
<1>5. /\ mem'.phase = "Executing" /\ mem'.out = With(mem.out, good, "out")
      /\ mem'.attempts = mem.attempts
  BY <1>1, <1>4 DEF RunShape, Records
<1>6. /\ run'[d].out = With(run[d].out, good, "out") /\ run'[d].wave = {}
      /\ run'[d].at = (IF failed = 0 THEN "boundary" ELSE "ended")
      /\ run'[d].end = (IF failed = 0 THEN "none" ELSE "error")
      /\ \A e \in Drives \ {d} : run'[e] = run[e]
  <2> DEFINE at == IF failed = 0 THEN "boundary" ELSE "ended"
             end == IF failed = 0 THEN "none" ELSE "error"
  <2>1. run' = [run EXCEPT ![d].out = With(run[d].out, good, "out"), ![d].wave = {},
                           ![d].at = at, ![d].end = end]
    BY <1>4
  <2> HIDE DEF at, end
  <2>2. /\ run'[d].out = With(run[d].out, good, "out") /\ run'[d].wave = {}
        /\ run'[d].at = at /\ run'[d].end = end
        /\ \A e \in Drives \ {d} : run'[e] = run[e]
    BY <2>1, TypeParts DEF Inv, ThingTypes, RunRecords
  <2> QED
    BY <2>2 DEF at, end
<1>7. flag'[d].meter = cost' /\ flag'[d].abort = flag[d].abort
  BY <1>1, <1>2, <1>4, TypeParts DEF Inv, ThingTypes, FlagRecords
<1>8. run'[d].end # "error" => Matches(run[d].out, {})'
  <2>1. run'[d].end # "error" => good = run[d].wave
    BY <1>3, <1>6
  <2>2. ASSUME good = run[d].wave
        PROVE  Matches(run[d].out, {})'
    <3>1. \A s \in Steps : run'[d].out[s] = IF s \in good THEN "out" ELSE run[d].out[s]
      BY <1>6 DEF With
    <3>2. work' = [s \in Steps |-> IF run'[d].out[s] = "out" THEN "done" ELSE "no"]
      <4>1. \A s \in Steps : work[s] = (IF s \in good THEN "going"
                                        ELSE IF run[d].out[s] = "out" THEN "done" ELSE "no")
        BY <1>1, <2>2 DEF Matches
      <4>2. \A s \in Steps : work'[s] = (IF s \in good THEN "done"
                                         ELSE IF run[d].out[s] = "out" THEN "done" ELSE "no")
        BY <1>4, <4>1
      <4>3. \A s \in Steps : work'[s] = IF run'[d].out[s] = "out" THEN "done" ELSE "no"
        BY <3>1, <4>2
      <4> QED
        BY <1>4, <4>3
    <3>3. \A g \in Gates : g \in Steps /\ run'[d].out[g] = run[d].out[g]
      BY <1>1, <2>2, <3>1, MissionAssumption DEF Matches, MissionAssumption
    <3>4. \A s \in Steps : run'[d].out[s] \in (IF s \in Gates THEN {"none", "approved"}
                                                ELSE {"none", "out"})
      BY <1>1, <3>1, <3>3 DEF Matches
    <3>5. granted' = {g \in Gates : run'[d].out[g] = "approved"} /\ refused' = {}
      BY <1>1, <1>2, <3>3 DEF Matches
    <3> QED
      BY <3>2, <3>4, <3>5 DEF Matches
  <2> QED
    BY <2>1, <2>2
<1>9. Form(d)'
  BY <1>1, <1>2, <1>6 DEF Form
<1>10. RunShape(d)'
  BY <1>1, <1>2, <1>5, <1>6, <1>7, <1>8 DEF RunShape, Verifies
<1>11. Shape(d)' /\ run'[d].at # "off"
  BY <1>6, <1>10 DEF Shape
<1>12. Forms' /\ Owner' /\ Alone' /\ Resting'
  BY <1>1, <1>2, <1>5, <1>6, <1>9, <1>11, OwnerSteps, BusySteps DEF Restful
<1>13. disk.phase \notin Restful
  BY <1>1, OwnerStored DEF RunShape, Form, NoDrive
<1>14. Stored'
  BY <1>2, <1>5, <1>13 DEF Stored, Inv, Shapes
<1>15. Judged' /\ aborted' <= attempt'
  BY <1>2, <1>5 DEF Judged, Inv, Shapes
<1> QED
  BY <1>12, <1>14, <1>15 DEF Shapes

(* A run without a drive is dropped. *)
LEMMA AbandonedShapes ==
  ASSUME Inv, NEW d \in Drives, Abandoned(d)
  PROVE  Shapes'
<1>1. /\ run[d].at = "ended" /\ drive[d] = NoDrive /\ Owns(d) /\ RunShape(d) /\ Form(d)
  BY Ownership, DriveWithoutRun DEF Abandoned, Inv, Shapes, Forms
<1>2. /\ UNCHANGED <<policy, mem, disk, drive, op, work, granted, refused, attempt, cost,
                     aborted>>
      /\ run' = [run EXCEPT ![d] = NoRun]
  BY DEF Abandoned, RunKeeps
<1>3. run'[d] = NoRun /\ \A e \in Drives \ {d} : drive'[e] = drive[e] /\ run'[e] = run[e]
  BY <1>2, TypeParts DEF Inv, ThingTypes
<1>4. Form(d)' /\ ~Owns(d)'
  BY <1>1, <1>2, <1>3 DEF Form, Owns, Verifies, NoRun, NoDrive
<1>5. Judged' /\ aborted' <= attempt'
  BY <1>1, <1>2 DEF Judged, RunShape, Inv, Shapes
<1> QED
  BY <1>1, <1>2, <1>3, <1>4, <1>5, OwnerKeeps DEF NoDrive

-----------------------------------------------------------------------------
(* Steps of an operator *)

(* A record that is about to be shown is one of a mission at rest: nobody  *)
(* owns it.                                                                *)
LEMMA RequestsRest ==
  ASSUME Inv, NEW o \in Operators, op[o].put # "no", mem = op[o].seen
  PROVE  /\ Asks(o) /\ mem.phase \in Restful /\ AtRest(mem)
         /\ \A d \in Drives : ~Owns(d) /\ drive[d].put = "no" /\ ~Verifies(d)
         /\ op[o].draft.phase \in {"Planning", "Executing", "Rejected"}
<1>1. Asks(o) /\ mem.phase \in Restful
  BY DEF Inv, Asked, Asks, Restful
<1>2. AtRest(mem) /\ \A d \in Drives : ~Owns(d)
  BY <1>1 DEF Inv, Shapes, Resting
<1>3. \A d \in Drives : drive[d].put = "no" /\ ~Verifies(d)
  BY <1>2, PutsOwn DEF Owns
<1>4. op[o].draft.phase \in {"Planning", "Executing", "Rejected"}
  <2>1. Planned.phase = "Planning"
    BY DEF Planned
  <2>2. mem.phase # "none" => mem \in Records
    BY NoRecordIsNone, TypeParts DEF Inv, ThingTypes
  <2>3. CASE mem.phase = "none"
    BY <1>1, <2>1, <2>3 DEF Asks
  <2>4. CASE mem.phase \in {"Paused", "AwaitingApproval"}
    BY <1>1, <2>2, <2>4 DEF Asks, Records
  <2> QED
    BY <1>1, <2>3, <2>4 DEF Restful
<1> QED
  BY <1>1, <1>2, <1>3, <1>4

(* Where nobody owns the mission and no drive or run moves, nobody does.   *)
LEMMA NobodyMoves ==
  ASSUME Inv, \A d \in Drives : ~Owns(d), UNCHANGED <<drive, run>>
  PROVE  Forms' /\ Owner' /\ \A d \in Drives : ~Owns(d)'
<1>1. \A d \in Drives : ~Owns(d)'
  BY DEF Owns, Verifies
<1>2. Forms'
  BY DEF Forms, Form, Inv, Shapes
<1> QED
  BY <1>1, <1>2 DEF Owner

(* A step that leaves the mission alone, and every record that is about to *)
(* be shown: a request is prepared, or fails.                              *)
LEMMA QuietSteps ==
  ASSUME Inv,
         UNCHANGED <<policy, mem, disk, drive, run, flag, restarts, work, granted, refused,
                     attempt, cost, aborted, accepted>>,
         faults' = 0 => faults = 0,
         \A o \in Operators :
           op'[o] = op[o] \/ (op'[o].put # "insert" /\ op[o].put # "insert")
  PROVE  Shapes'
<1>1. ASSUME NEW d \in Drives
      PROVE  (Owns(d)' <=> Owns(d)) /\ (Form(d) => Form(d)') /\ (Shape(d) => Shape(d)')
  <2>1. (Owns(d)' <=> Owns(d)) /\ (Form(d) => Form(d)')
    BY DEF Owns, Verifies, Form
  <2>2. BeginShape(d) => BeginShape(d)'
    BY DEF BeginShape, Calm, Matches, Counted
  <2>3. RunShape(d) => RunShape(d)'
    BY DEF RunShape, Verifies, Matches
  <2>4. LandShape(drive[d].draft) => LandShape(drive[d].draft)'
    BY DEF LandShape, Calm, Matches, Counted
  <2>5. VerifyShape(d) => VerifyShape(d)'
    BY DEF VerifyShape, Calm, Matches, Counted
  <2> QED
    BY <2>1, <2>2, <2>3, <2>4, <2>5 DEF Shape
<1>2. Forms' /\ Owner'
  BY <1>1 DEF Forms, Owner, Inv, Shapes
<1>3. Resting'
  BY <1>1 DEF Resting, AtRest, Calm, Matches, Counted, Inv, Shapes
<1>4. \A o \in Operators : /\ op'[o].put = "insert" <=> op[o].put = "insert"
                           /\ op'[o].put = "insert" => op'[o] = op[o]
  OBVIOUS
<1>5. Alone'
  BY <1>4 DEF Alone, Inv, Shapes
<1>6. Stored'
  <2>1. Inserting' <=> Inserting
    BY <1>4 DEF Inserting
  <2> QED
    BY <1>4, <2>1 DEF Stored, Inv, Shapes
<1>7. Judged' /\ aborted' <= attempt'
  BY DEF Judged, Verifies, Inv, Shapes
<1> QED
  BY <1>2, <1>3, <1>5, <1>6, <1>7 DEF Shapes

(* A request is made. *)
LEMMA PrepareShapes ==
  ASSUME Inv, NEW o \in Operators, NEW rec, NEW g, Prepare(o, rec, g)
  PROVE  Shapes'
<1>1. /\ UNCHANGED <<policy, mem, disk, drive, run, flag, restarts, faults, work, granted,
                     refused, attempt, cost, aborted, accepted>>
      /\ op' = [op EXCEPT ![o] = [put |-> "save", draft |-> rec, gate |-> g, seen |-> mem]]
      /\ op[o].put = "no"
  BY DEF Prepare, history, ghosts, Idle
<1>2. op'[o].put = "save" /\ \A p \in Operators \ {o} : op'[p] = op[p]
  BY <1>1, TypeParts DEF Inv, ThingTypes
<1> QED
  BY <1>1, <1>2, QuietSteps

(* A request fails. *)
LEMMA OpSaveFailsShapes ==
  ASSUME Inv, NEW o \in Operators, OpSaveFails(o)
  PROVE  Shapes'
<1>1. /\ UNCHANGED <<policy, mem, disk, drive, run, flag, restarts, work, granted, refused,
                     attempt, cost, aborted, accepted>>
      /\ op' = [op EXCEPT ![o] = Idle] /\ faults' = faults + 1
      /\ op[o].put = "save"
  BY DEF OpSaveFails, history, ghosts
<1>2. op'[o].put = "no" /\ \A p \in Operators \ {o} : op'[p] = op[p]
  BY <1>1, TypeParts DEF Inv, ThingTypes, Idle
<1>3. faults' # 0
  BY <1>1, Numbers DEF Inv
<1> QED
  BY <1>1, <1>2, <1>3, QuietSteps

(* The record of a request is stored, before decisions have crossed.       *)
LEMMA OpSaveShapes ==
  ASSUME Inv, NEW o \in Operators, OpSave(o), ~crossed'
  PROVE  Shapes'
<1>1. /\ UNCHANGED <<policy, mem, drive, run, flag, restarts, faults, work, granted, refused,
                     attempt, cost, aborted, accepted>>
      /\ disk' = op[o].draft /\ op' = [op EXCEPT ![o].put = "insert"]
      /\ op[o].put = "save" /\ mem = op[o].seen
      /\ \A p \in Operators \ {o} : op[p].put # "insert"
  BY DEF OpSave, Crosses, bounds, history
<1>2. /\ AtRest(mem) /\ \A d \in Drives : ~Owns(d) /\ drive[d].put = "no"
      /\ op[o].draft.phase \notin Restful
  BY <1>1, RequestsRest DEF Restful
<1>3. Forms' /\ Owner' /\ \A d \in Drives : ~Owns(d)'
  BY <1>1, <1>2, NobodyMoves
<1>4. /\ op'[o].put = "insert" /\ op'[o].draft = op[o].draft /\ op'[o].seen = op[o].seen
      /\ \A p \in Operators \ {o} : op'[p] = op[p]
  BY <1>1, TypeParts DEF Inv, ThingTypes, OpRecords
<1>5. Resting'
  BY <1>1, <1>2, <1>3 DEF Resting, AtRest, Calm, Matches, Counted, Ready
<1>6. Alone'
  BY <1>1, <1>4 DEF Alone
<1>7. Stored'
  BY <1>1, <1>2, <1>4 DEF Stored, Inserting
<1>8. Judged' /\ aborted' <= attempt'
  BY <1>1 DEF Judged, Verifies, Inv, Shapes
<1> QED
  BY <1>3, <1>5, <1>6, <1>7, <1>8 DEF Shapes

(* What was asked for is calm and counted, once its gate is granted. *)
LEMMA AskedIsCalm ==
  ASSUME Inv, NEW o \in Operators, Asks(o), mem = op[o].seen, AtRest(mem),
         op[o].draft.phase # "Rejected",
         NEW rec, rec = op[o].draft, mem' = rec,
         granted' = granted \cup ({op[o].gate} \ {0}),
         UNCHANGED <<work, refused, attempt, cost, aborted>>
  PROVE  /\ rec.phase \in {"Planning", "Executing"}
         /\ Calm(mem.out)' /\ Counted(mem)' /\ aborted' # attempt'
<1>1. aborted' # attempt'
  BY DEF AtRest
<1>2. CASE mem.phase = "none" /\ rec = Planned /\ op[o].gate = 0
  <2>1. Calm(Empty) /\ cost = 0 /\ attempt = 1 /\ granted' = granted
    BY <1>2 DEF AtRest
  <2>2. rec.out = Empty /\ rec.spend = 0 /\ rec.attempts = 0 /\ rec.phase = "Planning"
    BY <1>2 DEF Planned
  <2>3. Calm(mem.out)'
    BY <2>1, <2>2 DEF Calm, Matches
  <2> QED
    BY <1>1, <2>1, <2>2, <2>3 DEF Counted
<1>3. ASSUME mem.phase # "none"
      PROVE  mem \in Records /\ Calm(mem.out) /\ Counted(mem)
  BY <1>3, NoRecordIsNone, TypeParts DEF Inv, ThingTypes, AtRest
<1>4. CASE mem.phase = "Paused" /\ op[o].gate = 0 /\ rec = [mem EXCEPT !.phase = "Executing"]
  <2>1. /\ rec.phase = "Executing" /\ rec.out = mem.out /\ rec.spend = mem.spend
        /\ rec.attempts = mem.attempts /\ granted' = granted
    BY <1>3, <1>4 DEF Records
  <2>2. Calm(mem.out)' /\ Counted(mem)'
    BY <1>3, <1>4, <2>1 DEF Calm, Matches, Counted
  <2> QED
    BY <1>1, <2>1, <2>2
<1>5. CASE /\ mem.phase = "AwaitingApproval" /\ op[o].gate = mem.gate
           /\ rec = [mem EXCEPT !.gate = 0, !.out[mem.gate] = "approved", !.phase = "Executing"]
  <2>1. mem.gate \in Gates \cap Ready(mem.out)
    BY <1>5 DEF AtRest
  <2>2. mem.gate \in Steps /\ mem.gate # 0 /\ mem.out[mem.gate] = "none"
    BY <2>1, MissionAssumption DEF MissionAssumption, Ready
  <2>3. /\ rec.phase = "Executing" /\ rec.spend = mem.spend /\ rec.attempts = mem.attempts
        /\ rec.out = [mem.out EXCEPT ![mem.gate] = "approved"]
        /\ granted' = granted \cup {mem.gate}
    BY <1>3, <1>5, <2>2 DEF Records
  <2>4. \A s \in Steps : rec.out[s] = IF s = mem.gate THEN "approved" ELSE mem.out[s]
    BY <1>3, <1>5, <2>3 DEF Records
  <2>5. work' = [s \in Steps |-> IF rec.out[s] = "out" THEN "done" ELSE "no"]
    <3>1. work = [s \in Steps |-> IF mem.out[s] = "out" THEN "done" ELSE "no"]
      BY <1>3, <1>5 DEF Calm, Matches
    <3> QED
      BY <2>2, <2>4, <3>1
  <2>6. Gates \subseteq Steps
    BY MissionAssumption DEF MissionAssumption
  <2>7. granted' = {g \in Gates : rec.out[g] = "approved"} /\ refused' = {}
    <3>1. granted = {g \in Gates : mem.out[g] = "approved"} /\ refused = {}
      BY <1>3, <1>5 DEF Calm, Matches
    <3> QED
      BY <2>1, <2>2, <2>3, <2>4, <2>6, <3>1
  <2>8. \A s \in Steps : rec.out[s] \in (IF s \in Gates THEN {"none", "approved"}
                                          ELSE {"none", "out"})
    BY <1>3, <1>5, <2>1, <2>4 DEF Calm, Matches
  <2>9. Calm(mem.out)'
    BY <2>5, <2>7, <2>8 DEF Calm, Matches
  <2>10. Counted(mem)'
    BY <1>3, <1>5, <2>3 DEF Counted
  <2> QED
    BY <1>1, <2>3, <2>9, <2>10
<1>6. CASE /\ mem.phase = "AwaitingApproval"
           /\ rec = [mem EXCEPT !.gate = 0, !.out[mem.gate] = "rejected", !.phase = "Rejected"]
  <2>1. rec.phase = "Rejected"
    BY <1>3, <1>6 DEF Records
  <2> QED
    BY <2>1
<1> QED
  BY <1>2, <1>4, <1>5, <1>6 DEF Asks

(* The record of a request is shown; a drive begins, or the mission ends. *)
LEMMA OpInsertShapes ==
  ASSUME Inv, NEW o \in Operators, OpInsert(o)
  PROVE  Shapes'
<1> DEFINE rec == op[o].draft
<1>1. /\ UNCHANGED <<policy, disk, run, flag, restarts, faults, work, attempt, cost, aborted,
                     accepted>>
      /\ mem' = rec /\ op' = [op EXCEPT ![o] = Idle] /\ op[o].put = "insert"
  BY DEF OpInsert, bounds, ghosts
<1>2. /\ Asks(o) /\ AtRest(mem) /\ mem = op[o].seen
      /\ \A p \in Operators \ {o} : op[p].put # "insert"
      /\ \A e \in Drives : ~Owns(e) /\ drive[e].put = "no"
      /\ rec.phase \in {"Planning", "Executing", "Rejected"}
  <2>1. mem = op[o].seen /\ \A p \in Operators \ {o} : op[p].put # "insert"
    BY <1>1 DEF Inv, Shapes, Alone
  <2> QED
    BY <1>1, <2>1, RequestsRest
<1>3. disk = rec
  BY <1>1 DEF Inv, Shapes, Stored
<1>4. op'[o].put = "no" /\ \A p \in Operators \ {o} : op'[p] = op[p]
  BY <1>1, TypeParts DEF Inv, ThingTypes, Idle
<1>5. Alone'
  BY <1>2, <1>4 DEF Alone
<1>6. Judged' /\ aborted' <= attempt'
  BY <1>1, <1>2 DEF Judged, Inv, Shapes
<1>7. mem'.phase # "Executing" => Recover(disk') = mem'
  BY <1>1, <1>3 DEF Recover
<1>8. CASE rec.phase = "Rejected"
  <2>1. UNCHANGED drive
    BY <1>8 DEF OpInsert
  <2>2. Forms' /\ Owner'
    BY <1>1, <1>2, <2>1, NobodyMoves
  <2>3. Resting'
    BY <1>1, <1>8 DEF Resting, Restful
  <2>4. Stored'
    BY <1>1, <1>2, <1>3, <1>4, <1>7, <1>8, <2>1 DEF Stored, Restful
  <2> QED
    BY <1>5, <1>6, <2>2, <2>3, <2>4 DEF Shapes
<1>9. CASE rec.phase # "Rejected"
  <2>1. PICK d \in Drives : d = Min(Free) /\ drive[d] = NoDrive /\ run[d] = NoRun
    BY <1>9, FreeIsFree DEF OpInsert, Free
  <2>2. /\ drive' = [drive EXCEPT ![d].at = "begin"] /\ UNCHANGED refused
        /\ granted' = granted \cup ({op[o].gate} \ {0})
    BY <1>9, <2>1 DEF OpInsert
  <2>3. /\ rec.phase \in {"Planning", "Executing"}
        /\ Calm(mem.out)' /\ Counted(mem)' /\ aborted' # attempt'
    BY <1>1, <1>2, <1>9, <2>2, AskedIsCalm
  <2>4. /\ drive'[d].at = "begin" /\ drive'[d].put = "no"
        /\ \A e \in Drives \ {d} : drive'[e] = drive[e]
    BY <2>1, <2>2, TypeParts DEF Inv, ThingTypes, NoDrive
  <2>5. run'[d].at = "off"
    BY <1>1, <2>1 DEF NoRun
  <2>6. BeginShape(d)'
    BY <1>1, <2>3, <2>4 DEF BeginShape
  <2>7. Shape(d)'
    BY <2>4, <2>5, <2>6 DEF Shape
  <2>8. Form(d)'
    BY <1>1, <2>1, <2>4, <2>5 DEF Form, NoRun
  <2>9. \A e \in Drives \ {d} : ~Owns(e)' /\ Form(e)'
    BY <1>1, <1>2, <2>4 DEF Owns, Verifies, Form, Inv, Shapes, Forms
  <2>10. Forms' /\ Owner'
    BY <2>7, <2>8, <2>9 DEF Forms, Owner
  <2>11. Resting'
    BY <1>1, <2>3 DEF Resting, Restful
  <2>12. \A e \in Drives : drive'[e].put # "insert"
    BY <1>2, <2>4
  <2>13. disk'.phase \notin Restful
    BY <1>1, <1>3, <2>3 DEF Restful
  <2>14. Stored'
    BY <1>2, <1>4, <1>7, <2>12, <2>13 DEF Stored
  <2> QED
    BY <1>5, <1>6, <2>10, <2>11, <2>14 DEF Shapes
<1> QED
  BY <1>8, <1>9

(* An operator's step keeps the shapes, unless decisions cross.            *)
LEMMA OperatorShapes ==
  ASSUME Inv, NEW o \in Operators, OperatorStep(o), ~crossed'
  PROVE  Shapes'
BY PrepareShapes, OpSaveShapes, OpSaveFailsShapes, OpInsertShapes
DEF OperatorStep, Register, Resolve, Resume

-----------------------------------------------------------------------------
(* The other steps *)

(* An abort or a pause: a flag is set for the run that may work. *)
LEMMA RequestShapes ==
  ASSUME Inv, Abort \/ Pause
  PROVE  Shapes'
<1>1. /\ mem.phase = "Executing" /\ armed \in Drives
      /\ UNCHANGED <<policy, mem, disk, drive, run, op, restarts, faults, work, granted,
                     refused, attempt, cost, accepted>>
  BY TypeParts DEF Abort, Pause, Request, history, Inv, ThingTypes
<1>2. /\ \A e \in Drives : flag'[e].meter = flag[e].meter
      /\ \A e \in Drives : flag[e].abort => flag'[e].abort
      /\ aborted' # aborted => /\ aborted' = attempt /\ armed \in Working
                               /\ flag'[armed].abort
  BY <1>1, TypeParts DEF Abort, Pause, Request, Inv, ThingTypes, FlagRecords
<1>3. Forms' /\ \A e \in Drives : Owns(e)' <=> Owns(e)
  BY <1>1 DEF Forms, Form, Owns, Verifies, Inv, Shapes
<1>4. ASSUME NEW d \in Drives, Owns(d)
      PROVE  Shape(d)'
  <2>1. Shape(d)
    BY <1>4, OwnersAreAlone
  <2>2. CASE aborted' = aborted
    <3>1. BeginShape(d) => BeginShape(d)'
      BY <1>1, <1>2, <2>2 DEF BeginShape, Calm, Matches, Counted
    <3>2. RunShape(d) => RunShape(d)'
      BY <1>1, <1>2, <2>2 DEF RunShape, Verifies, Matches
    <3>3. LandShape(drive[d].draft) => LandShape(drive[d].draft)'
      BY <1>1, <2>2 DEF LandShape, Calm, Matches, Counted
    <3>4. VerifyShape(d) => VerifyShape(d)'
      BY <1>1 DEF VerifyShape, Calm, Matches, Counted
    <3> QED
      BY <1>1, <2>1, <3>1, <3>2, <3>3, <3>4 DEF Shape
  <2>3. CASE aborted' # aborted
    <3>1. armed = d /\ run[d].at \in {"boundary", "wave"} /\ aborted' = attempt
          /\ flag'[d].abort
      BY <1>2, <1>4, <2>3, OwnersAreAlone DEF Working, Owns
    <3>2. RunShape(d) /\ Form(d)
      BY <2>1, <3>1 DEF Shape, Inv, Shapes, Forms
    <3>3. RunShape(d)'
      BY <1>1, <1>2, <3>1, <3>2 DEF RunShape, Verifies, Matches, Form
    <3> QED
      BY <1>1, <3>1, <3>3 DEF Shape
  <2> QED
    BY <2>2, <2>3
<1>5. Owner'
  BY <1>3, <1>4, OwnersAreAlone DEF Owner
<1>6. Resting'
  BY <1>1 DEF Resting, Restful
<1>7. Alone' /\ Stored' /\ Judged'
  BY <1>1 DEF Alone, Stored, Inserting, Judged, Verifies, Inv, Shapes
<1>8. aborted' <= attempt'
  BY <1>1, <1>2, Numbers DEF Inv, Shapes
<1> QED
  BY <1>3, <1>5, <1>6, <1>7, <1>8 DEF Shapes

(* A restart: the record is the stored one, and nobody works on it. *)
LEMMA RestartShapes ==
  ASSUME Inv, Restart
  PROVE  Shapes'
<1>1. /\ UNCHANGED <<policy, work, granted, refused, attempt, cost, aborted, accepted>>
      /\ mem' = Recover(disk) /\ disk' \in {disk, Recover(disk)}
      /\ \A d \in Drives : drive'[d] = NoDrive /\ run'[d] = NoRun
      /\ \A o \in Operators : op'[o] = Idle
      /\ restarts' > 0
  BY Numbers DEF Restart, history, ghosts, Inv
<1>2. Forms' /\ \A d \in Drives : ~Owns(d)'
  BY <1>1 DEF Forms, Form, Owns, Verifies, NoDrive, NoRun
<1>3. Owner' /\ Alone' /\ ~Inserting'
  BY <1>1, <1>2 DEF Owner, Alone, Inserting, NoDrive, Idle
<1>4. disk \in Records \cup {NoRecord}
  BY TypeParts DEF Inv, ThingTypes
<1>5. /\ Recover(disk').phase # "Executing" /\ Recover(disk') = Recover(disk)
      /\ Recover(disk).phase \in Restful => Recover(disk) = disk
  BY <1>1, <1>4, Recovers
<1>6. disk'.phase \in Restful => disk' = mem'
  <2>1. \A r : r.phase # "Executing" => Recover(r) = r
    BY DEF Recover
  <2> QED
    BY <1>1, <1>5, <2>1 DEF Restful
<1>7. Stored'
  BY <1>1, <1>3, <1>5, <1>6 DEF Stored, NoDrive, Idle
<1>8. mem'.phase \in Restful => AtRest(mem)'
  <2>1. ASSUME mem'.phase \in Restful
        PROVE  AtRest(disk)
    <3>1. disk.phase \in Restful
      BY <1>1, <1>5, <2>1
    <3>2. CASE disk = mem
      BY <3>1, <3>2 DEF Inv, Shapes, Resting
    <3>3. ASSUME NEW d \in Drives, drive[d].at = "land", drive[d].put = "insert"
          PROVE  AtRest(disk)
      <4>1. LandShape(drive[d].draft) /\ disk = drive[d].draft
        BY <3>3, DriveWithoutRun DEF Inv, Shapes, Stored
      <4>2. disk \in Records /\ disk.phase \in {"Paused", "AwaitingApproval"}
        BY <3>1, <4>1, NoRecordIsNone DEF LandShape, Restful
      <4> QED
        BY <3>1, <4>1, <4>2 DEF LandShape, AtRest
    <3> QED
      BY <3>1, <3>2, <3>3 DEF Inv, Shapes, Stored
  <2>2. ASSUME mem'.phase \in Restful, NEW r, r = mem'
        PROVE  AtRest(r)'
    <3>1. r = disk
      BY <1>1, <1>5, <2>2
    <3>2. AtRest(r)
      BY <2>1, <2>2, <3>1
    <3> QED
      BY <1>1, <3>2 DEF AtRest, Calm, Matches, Counted
  <2> QED
    BY <2>2 DEF AtRest, Calm, Matches, Counted
<1>9. Resting'
  BY <1>2, <1>8 DEF Resting
<1>10. Judged' /\ aborted' <= attempt'
  BY <1>1 DEF Judged, Inv, Shapes
<1> QED
  BY <1>2, <1>3, <1>7, <1>9, <1>10 DEF Shapes

(* A step that changes nothing. *)
LEMMA StutterShapes ==
  ASSUME Inv, UNCHANGED vars
  PROVE  Shapes'
<1>1. /\ UNCHANGED <<policy, mem, disk, drive, run, flag, restarts, work, granted, refused,
                     attempt, cost, aborted, accepted>>
      /\ UNCHANGED <<op, faults>>
  BY DEF vars, bounds, history, ghosts
<1> QED
  BY <1>1, QuietSteps

-----------------------------------------------------------------------------
(* The invariant *)

(* Nothing has been done, and nobody works on the mission. *)
LEMMA InitInv == Init => Safe
<1> SUFFICES ASSUME Init
             PROVE  Safe
  OBVIOUS
<1>1. /\ mem = NoRecord /\ disk = NoRecord /\ cost = 0 /\ attempt = 1 /\ aborted = 0
      /\ \A d \in Drives : drive[d] = NoDrive /\ run[d] = NoRun
      /\ \A o \in Operators : op[o] = Idle
  BY DEF Init
<1>2. ThingTypes
  <2>1. /\ NoDrive \in DriveRecords /\ NoRun \in RunRecords /\ NoFlag \in FlagRecords
        /\ Idle \in OpRecords
    BY DEF NoDrive, DriveRecords, NoRun, RunRecords, Empty, Outputs, NoFlag, FlagRecords,
           Idle, OpRecords
  <2> QED
    BY <2>1 DEF Init, ThingTypes
<1>3. CountTypes /\ HistoryTypes
  <2>1. 0 \in 0 .. MaxRequests /\ 0 \in 0 .. MaxRestarts /\ 0 \in 0 .. MaxFaults
    BY MissionAssumption DEF MissionAssumption
  <2>2. CountTypes
    BY <2>1 DEF Init, CountTypes
  <2>3. work \in [Steps -> {"no", "going", "done", "again"}]
    BY DEF Init
  <2>4. accepted \in BOOLEAN /\ broken \in BOOLEAN /\ crossed \in BOOLEAN
    BY DEF Init
  <2>5. HistoryTypes
    BY <1>1, <2>3, <2>4 DEF Init, HistoryTypes
  <2> QED
    BY <2>2, <2>5
<1>4. Forms /\ \A d \in Drives : ~Owns(d)
  BY <1>1 DEF Forms, Form, Owns, Verifies, NoDrive, NoRun
<1>5. Calm(Empty)
  BY MissionAssumption DEF Init, Calm, Matches, Empty, MissionAssumption
<1>6. AtRest(mem)
  BY <1>1, <1>5, NoRecordIsNone DEF AtRest
<1>7. Stored /\ Alone /\ Judged
  BY <1>1, NoRecordIsNone DEF Stored, Alone, Judged, NoDrive, Idle
<1>8. Asked /\ \A d \in Drives : Sound(d)
  BY <1>1 DEF Asked, Sound, NoDrive, NoRun, Idle
<1> QED
  BY <1>1, <1>2, <1>3, <1>4, <1>6, <1>7, <1>8, TypeParts
  DEF Safe, Firm, Shapes, Owner, Resting

(* Decisions that have crossed stay so, and only storing one makes them.   *)
LEMMA CrossedStays ==
  ASSUME [Next]_vars, crossed
  PROVE  crossed'
<1>1. ASSUME NEW o \in Operators, OperatorStep(o)
      PROVE  crossed'
  BY <1>1 DEF OperatorStep, Register, Resolve, Resume, Prepare, OpSave, OpSaveFails,
              OpInsert, ghosts
<1>2. ASSUME NEW d \in Drives, DriveStep(d) \/ DriveSaveFails(d)
      PROVE  crossed'
  BY <1>2 DEF DriveStep, DriveSaveFails, DriveBegins, DriveSave, DriveInsert, Arm, Persist,
              Land, Cleanup, Retry, Judge, ghosts
<1>3. ASSUME NEW d \in Drives, RunStep(d)
      PROVE  crossed'
  BY <1>3 DEF RunStep, Boundary, Abandoned, WaveOver, RunKeeps
<1>4. CASE Abort \/ Pause \/ Restart \/ UNCHANGED vars
  BY <1>4 DEF Abort, Pause, Request, Restart, ghosts, vars
<1> QED
  BY <1>1, <1>2, <1>3, <1>4 DEF Next

(* Until decisions cross every step keeps the shapes. *)
LEMMA StepShapes ==
  ASSUME Inv, [Next]_vars, ~crossed'
  PROVE  Shapes'
<1>1. ASSUME NEW d \in Drives, DriveStep(d)
      PROVE  Shapes'
  BY <1>1, BeginsShapes, DriveSaveShapes, DriveInsertShapes, ArmShapes, PersistShapes,
     LandShapes, CleanupShapes, RetryShapes, JudgeShapes DEF DriveStep
<1>2. ASSUME NEW d \in Drives, RunStep(d)
      PROVE  Shapes'
  BY <1>2, BoundaryShapes, AbandonedShapes, WaveOverShapes DEF RunStep
<1> QED
  BY <1>1, <1>2, OperatorShapes, DriveSaveFailsShapes, RequestShapes, RestartShapes,
     StutterShapes DEF Next

(* Every step keeps the invariant. *)
LEMMA StepInv ==
  ASSUME Safe, [Next]_vars
  PROVE  Safe'
<1>1. Firm'
  BY StepFirm DEF Safe
<1>2. crossed' \/ Shapes'
  <2>1. ~crossed' => Inv
    BY CrossedStays DEF Safe, Firm, Inv
  <2> QED
    BY <2>1, StepShapes
<1> QED
  BY <1>1, <1>2 DEF Safe

(* It holds in every behaviour. *)
LEMMA AlwaysSafe == Spec => []Safe
<1>1. Safe /\ [Next]_vars => Safe'
  BY StepInv
<1> QED
  BY <1>1, InitInv, PTL DEF Spec

-----------------------------------------------------------------------------
(* What the invariant says *)

(* Every value has its type, whoever decides what and whatever fails or is *)
(* restarted: every record put is one, none ever counts more attempts than *)
(* MAX_MISSION_ATTEMPTS, and every put and every end of a run is one that  *)
(* the code after it knows.                                                *)
THEOREM TypeCorrect == Spec => []TypeOK
<1>1. Safe => TypeOK
  BY DEF Safe, Firm
<1> QED
  BY <1>1, AlwaysSafe, PTL

(* A restart shows the operator the mission he saw before it, unless it    *)
(* executes, a write of it is half done, or decisions have crossed.        *)
THEOREM RestartIsSeen == Spec => []RestartShowsTheSame
<1>1. Safe => RestartShowsTheSame
  BY DEF Safe, Shapes, Stored, Inserting, RestartShowsTheSame
<1> QED
  BY <1>1, AlwaysSafe, PTL

(* A mission that is Done, when nobody works on it any more, passed its    *)
(* verification, unless a restart or a failed write came in between or     *)
(* decisions have crossed.                                                 *)
THEOREM DoneIsAccepted == Spec => []DoneWasAccepted
<1>1. Safe => DoneWasAccepted
  <2>1. Safe => restarts \in Nat /\ faults \in Nat
    BY Numbers DEF Safe, Firm
  <2> QED
    BY <2>1 DEF Safe, Shapes, Judged, Verifies, NoDrive, DoneWasAccepted
<1> QED
  BY <1>1, AlwaysSafe, PTL

(* However many drives come and go, and also when a drive has failed and   *)
(* left its run behind, at most one run works on the plan until decisions  *)
(* have crossed.                                                           *)
THEOREM RunsAreAlone == Spec => []OneRun
<1>1. Safe => OneRun
  <2> SUFFICES ASSUME Inv
               PROVE  Cardinality(Working) <= 1
    BY DEF Safe, Firm, Inv, OneRun
  <2>1. \A d, e \in Working : d = e
    BY OwnersAreAlone DEF Working, Owns
  <2>2. CASE Working = {}
    BY <2>2, FS_EmptySet
  <2>3. ASSUME NEW d \in Working
        PROVE  Cardinality(Working) <= 1
    <3>1. Working = {d}
      BY <2>1, <2>3
    <3>2. Cardinality({d}) = 1
      BY FS_Singleton
    <3> QED
      BY <3>1, <3>2
  <2> QED
    BY <2>2, <2>3
<1> QED
  BY <1>1, AlwaysSafe, PTL

(* A step begins only at a boundary where the run is told to go on.        *)
LEMMA WhereWorkBegins ==
  ASSUME Inv, [Next]_vars, NEW s \in Steps, work'[s] = "going", work[s] # "going"
  PROVE  \E d \in Drives : Boundary(d) /\ run[d].at = "boundary" /\ Halt(d) = "no"
<1>1. ~UNCHANGED work
  OBVIOUS
<1>2. ASSUME NEW o \in Operators, OperatorStep(o)
      PROVE  FALSE
  BY <1>1, <1>2 DEF OperatorStep, Register, Resolve, Resume, Prepare, OpSave, OpSaveFails,
                    OpInsert, history
<1>3. ASSUME NEW d \in Drives, DriveStep(d) \/ DriveSaveFails(d)
      PROVE  FALSE
  <2>1. DriveInsert(d)
    BY <1>1, <1>3 DEF DriveStep, DriveBegins, DriveSave, DriveSaveFails, Arm, Persist, Land,
                      Cleanup, Judge, Retry, history
  <2>2. UNCHANGED work \/ work' = [t \in Steps |-> "no"]
    BY <2>1 DEF DriveInsert
  <2> QED
    BY <1>1, <2>2
<1>4. ASSUME NEW d \in Drives, RunStep(d)
      PROVE  Boundary(d) /\ run[d].at = "boundary" /\ Halt(d) = "no"
  <2>1. ASSUME NEW failed, WaveOver(d, failed)
        PROVE  FALSE
    BY <2>1 DEF WaveOver
  <2>2. Boundary(d)
    BY <1>1, <1>4, <2>1 DEF RunStep, Abandoned
  <2> QED
    BY <1>1, <2>2 DEF Boundary, Ends
<1>5. ~(Abort \/ Pause \/ Restart \/ UNCHANGED vars)
  BY <1>1 DEF Abort, Pause, Request, Restart, vars, history
<1> QED
  BY <1>2, <1>3, <1>4, <1>5 DEF Next

(* A run between two waves has counted every step paid for, and knows of   *)
(* an abort of its attempt.                                                *)
LEMMA RunsKnow ==
  ASSUME Inv, NEW d \in Drives, run[d].at = "boundary", Halt(d) = "no"
  PROVE  cost < policy.cap /\ aborted # attempt
<1>1. RunShape(d) /\ Form(d)
  BY DriveWithoutRun DEF Inv, Shapes, Forms
<1>2. flag[d].meter = cost /\ (aborted = attempt => flag[d].abort)
  BY <1>1 DEF RunShape, Form
<1>3. ~flag[d].abort /\ ~(flag[d].meter >= policy.cap)
  BY TypeParts DEF Halt, Inv, ThingTypes, FlagRecords
<1>4. cost \in Nat /\ policy.cap \in Nat
  BY Numbers, TypeParts, MissionAssumption DEF Inv, ThingTypes, MissionAssumption
<1> QED
  BY <1>2, <1>3, <1>4

(* The budget covers the mission: a drive that takes over from another, at *)
(* a gate, after a pause or for another attempt, counts on from where that *)
(* one stopped, until decisions have crossed.                              *)
THEOREM BudgetCoversMission == Spec => NoWorkPastCap
<1>1. Safe /\ [Next]_vars =>
        [cost >= policy.cap /\ ~crossed
           => \A s \in Steps : work'[s] = "going" => work[s] = "going"]_vars
  <2> SUFFICES ASSUME Inv, [Next]_vars, cost >= policy.cap,
                      NEW s \in Steps, work'[s] = "going", work[s] # "going"
               PROVE  FALSE
    BY DEF Safe, Firm, Inv
  <2>1. PICK d \in Drives : Boundary(d) /\ run[d].at = "boundary" /\ Halt(d) = "no"
    BY WhereWorkBegins
  <2>2. cost < policy.cap
    BY <2>1, RunsKnow
  <2>3. cost \in Nat /\ policy.cap \in Nat
    BY Numbers, TypeParts, MissionAssumption DEF Inv, ThingTypes, MissionAssumption
  <2> QED
    BY <2>2, <2>3
<1> QED
  BY <1>1, AlwaysSafe, PTL DEF Spec, NoWorkPastCap

(* An abort that reached a working run holds for its attempt: no drive     *)
(* begins a step of it any more, until decisions have crossed.             *)
THEOREM AbortIsKept == Spec => AbortHolds
<1>1. Safe /\ [Next]_vars =>
        [aborted = attempt /\ attempt' = attempt /\ ~crossed
           => \A s \in Steps : work'[s] = "going" => work[s] = "going"]_vars
  <2> SUFFICES ASSUME Inv, [Next]_vars, aborted = attempt,
                      NEW s \in Steps, work'[s] = "going", work[s] # "going"
               PROVE  FALSE
    BY DEF Safe, Firm, Inv
  <2>1. PICK d \in Drives : Boundary(d) /\ run[d].at = "boundary" /\ Halt(d) = "no"
    BY WhereWorkBegins
  <2> QED
    BY <2>1, RunsKnow
<1> QED
  BY <1>1, AlwaysSafe, PTL DEF Spec, AbortHolds

-----------------------------------------------------------------------------
(* The mission implements MissionWork *)

(* A gate that is ready is undecided. *)
LEMMA ReadyGates ==
  ASSUME NEW out, Calm(out), NEW g \in Gates \cap Ready(out)
  PROVE  Promise!Undecided(g) /\ g \in Steps /\ g # 0
<1>1. \A p \in Deps[g] : work[p] = "done" \/ p \in granted
  BY WaveIsReady
<1>2. g \notin granted /\ refused = {}
  BY DEF Calm, Matches, Ready
<1>3. g \in Steps /\ g # 0
  BY MissionAssumption DEF Ready, MissionAssumption
<1> QED
  BY <1>1, <1>2, <1>3 DEF Promise!Undecided, Promise!Passed

(* An operator's step grants a gate, refuses one, or does nothing of it;   *)
(* or decisions cross.                                                     *)
LEMMA OperatorPromise ==
  ASSUME Inv, ~crossed', ~crossed, NEW o \in Operators, OperatorStep(o)
  PROVE  [Promise!Next]_(Promise!workVars)
<1>1. CASE ~OpInsert(o)
  <2>1. UNCHANGED <<work, granted, refused, attempt>>
    BY <1>1 DEF OperatorStep, Register, Resolve, Resume, Prepare, OpSave, OpSaveFails, history
  <2>2. UNCHANGED crossed \/ OpSave(o)
    BY <1>1 DEF OperatorStep, Register, Resolve, Resume, Prepare, OpSaveFails, ghosts
  <2>3. OpSave(o) => crossed' = FALSE /\ crossed = FALSE
    <3>1. crossed \in BOOLEAN
      BY TypeParts DEF Inv, HistoryTypes
    <3>2. OpSave(o) => crossed' \in BOOLEAN
      BY DEF OpSave
    <3> QED
      BY <3>1, <3>2
  <2> QED
    BY <2>1, <2>2, <2>3 DEF Promise!workVars
<1>2. CASE OpInsert(o)
  <2>1. /\ Asks(o) /\ AtRest(mem) /\ mem = op[o].seen /\ UNCHANGED <<work, attempt, crossed>>
        /\ op[o].draft.phase \in {"Planning", "Executing", "Rejected"}
    <3>1. op[o].put = "insert" /\ mem = op[o].seen
      BY <1>2 DEF OpInsert, Inv, Shapes, Alone
    <3> QED
      BY <1>2, <3>1, RequestsRest DEF OpInsert, ghosts
  <2>2. mem.phase # "none" => mem \in Records
    BY NoRecordIsNone, TypeParts DEF Inv, ThingTypes
  <2>3. CASE mem.phase \in {"none", "Paused"}
    <3>1. op[o].gate = 0 /\ op[o].draft.phase # "Rejected"
      BY <2>1, <2>2, <2>3 DEF Asks, Planned, Records
    <3>2. UNCHANGED refused /\ granted' = granted \cup ({op[o].gate} \ {0})
      BY <1>2, <3>1 DEF OpInsert
    <3>3. granted' = granted
      BY <3>1, <3>2
    <3> QED
      BY <2>1, <3>2, <3>3 DEF Promise!workVars
  <2>4. CASE mem.phase = "AwaitingApproval"
    <3>1. op[o].gate = mem.gate /\ mem.gate \in Gates \cap Ready(mem.out) /\ Calm(mem.out)
      BY <2>1, <2>4 DEF Asks, AtRest
    <3>2. /\ Promise!Undecided(mem.gate) /\ mem.gate # 0 /\ refused = {}
      BY <3>1, ReadyGates DEF Calm, Matches
    <3>3. CASE op[o].draft.phase = "Rejected"
      <4>1. refused' = {mem.gate} /\ UNCHANGED granted
        BY <1>2, <3>1, <3>2, <3>3 DEF OpInsert
      <4>2. Promise!Refuse(mem.gate)
        BY <2>1, <3>2, <4>1 DEF Promise!Refuse
      <4> QED
        BY <3>1, <4>2 DEF Promise!Next
    <3>4. CASE op[o].draft.phase # "Rejected"
      <4>1. granted' = granted \cup {mem.gate} /\ UNCHANGED refused
        BY <1>2, <3>1, <3>2, <3>4 DEF OpInsert
      <4>2. Promise!Grant(mem.gate)
        BY <2>1, <3>2, <4>1 DEF Promise!Grant
      <4> QED
        BY <3>1, <4>2 DEF Promise!Next
    <3> QED
      BY <3>3, <3>4
  <2> QED
    BY <2>1, <2>3, <2>4 DEF Asks
<1> QED
  BY <1>1, <1>2

(* A drive's step refuses a gate, begins another attempt, or does nothing. *)
LEMMA DrivePromise ==
  ASSUME Inv, NEW d \in Drives, DriveStep(d) \/ DriveSaveFails(d)
  PROVE  [Promise!Next]_(Promise!workVars)
<1>c. UNCHANGED crossed
  BY DEF DriveStep, DriveSaveFails, DriveBegins, DriveSave, DriveInsert, Arm, Persist, Land,
         Cleanup, Retry, Judge, ghosts
<1>1. CASE ~DriveInsert(d)
  BY <1>c, <1>1 DEF DriveStep, DriveBegins, DriveSave, DriveSaveFails, Arm, Persist, Land, Cleanup,
              Judge, Retry, history, Promise!workVars
<1>2. CASE DriveInsert(d) /\ drive[d].at \notin {"land", "reset"}
  BY <1>c, <1>2 DEF DriveInsert, Promise!workVars
<1>3. CASE DriveInsert(d) /\ drive[d].at = "land"
  <2> DEFINE rec == drive[d].draft
  <2>1. /\ LandShape(rec) /\ UNCHANGED <<work, granted, attempt>>
        /\ refused' = {g \in Gates : rec.out[g] = "rejected"}
    BY <1>3, DriveWithoutRun DEF DriveInsert
  <2>2. Calm(mem.out) /\ refused = {} /\ Gates \subseteq Steps
    BY <2>1, MissionAssumption DEF LandShape, Calm, Matches, MissionAssumption
  <2>3. \A g \in Gates : mem.out[g] # "rejected"
    BY <2>2 DEF Calm, Matches
  <2>4. CASE rec.phase # "Rejected"
    <3>1. rec.out = mem.out
      BY <2>1, <2>4 DEF LandShape
    <3>2. refused' = refused
      BY <2>1, <2>2, <2>3, <3>1
    <3> QED
      BY <1>c, <2>1, <3>2 DEF Promise!workVars
  <2>5. CASE rec.phase = "Rejected"
    <3>1. PICK g \in Gates \cap Ready(mem.out) : rec.out = [mem.out EXCEPT ![g] = "rejected"]
      BY <2>1, <2>5 DEF LandShape
    <3>2. Promise!Undecided(g)
      BY <2>2, ReadyGates
    <3>3. mem.out \in [Steps -> Outputs]
      BY <1>3, PutsOwn DEF DriveInsert, Records
    <3>4. \A s \in Steps : rec.out[s] = IF s = g THEN "rejected" ELSE mem.out[s]
      BY <3>1, <3>3
    <3>5. refused' = {g}
      BY <2>1, <2>2, <2>3, <3>4
    <3>6. Promise!Refuse(g)
      BY <1>c, <2>1, <3>2, <3>5 DEF Promise!Refuse
    <3> QED
      BY <3>6 DEF Promise!Next
  <2> QED
    BY <2>4, <2>5
<1>4. CASE DriveInsert(d) /\ drive[d].at = "reset"
  <2>1. /\ work' = [s \in Steps |-> "no"] /\ granted' = {} /\ refused' = {}
        /\ attempt' = attempt + 1
    BY <1>4 DEF DriveInsert
  <2>2. /\ Calm(mem.out) /\ Complete(mem.out) /\ Counted(mem)
        /\ mem.attempts + 1 < MaxAttempts
    BY <1>4, DriveWithoutRun DEF VerifyShape
  <2>3. \A s \in Steps : work[s] = "done" \/ s \in granted
    BY <2>2 DEF Calm, Matches, Complete
  <2>4. Promise!Again
    BY <1>c, <2>1, <2>2, <2>3 DEF Promise!Again, Promise!Passed, Counted
  <2> QED
    BY <2>4 DEF Promise!Next
<1> QED
  BY <1>1, <1>2, <1>3, <1>4

(* A run's step begins a wave, finishes steps of one, or does nothing. *)
LEMMA RunPromise ==
  ASSUME Inv, NEW d \in Drives, RunStep(d)
  PROVE  [Promise!Next]_(Promise!workVars)
<1>1. UNCHANGED <<granted, refused, attempt, crossed>>
  BY DEF RunStep, Boundary, Abandoned, WaveOver, RunKeeps
<1>2. CASE UNCHANGED work
  BY <1>1, <1>2 DEF Promise!workVars
<1>3. CASE Boundary(d) /\ ~UNCHANGED work
  <2> DEFINE wave == Ready(run[d].out) \ Gates
  <2>1. /\ run[d].at = "boundary" /\ wave # {}
        /\ work' = [s \in Steps |-> IF s \notin wave THEN work[s]
                                    ELSE IF work[s] = "no" THEN "going" ELSE "again"]
    BY <1>3 DEF Boundary, Ends
  <2>2. RunShape(d) /\ Form(d)
    BY <2>1, DriveWithoutRun DEF Inv, Shapes, Forms
  <2>3. Calm(run[d].out) /\ refused = {}
    BY <2>1, <2>2 DEF RunShape, Form, Calm, Matches
  <2>4. /\ \A s \in wave : work[s] = "no" /\ s \in Steps \ Gates
        /\ \A s \in wave : \A p \in Deps[s] : work[p] = "done" \/ p \in granted
    <3>1. /\ \A s \in Ready(run[d].out) : work[s] = "no" /\ s \in Steps
          /\ \A s \in Ready(run[d].out) : \A p \in Deps[s] :
               work[p] = "done" \/ p \in granted
      BY <2>3, WaveIsReady
    <3> QED
      BY <3>1
  <2> HIDE DEF wave
  <2>5. work' = [s \in Steps |-> IF s \in wave THEN "going" ELSE work[s]]
    BY <2>1, <2>4
  <2>6. Promise!Begin(wave)
    BY <1>1, <2>3, <2>4, <2>5 DEF Promise!Begin, Promise!Passed
  <2>7. wave \in SUBSET (Steps \ Gates)
    BY <2>4
  <2> QED
    BY <2>1, <2>6, <2>7 DEF Promise!Next
<1>4. ASSUME NEW failed \in Steps \cup {0}, WaveOver(d, failed), ~UNCHANGED work
      PROVE  Promise!Next
  <2> DEFINE good == {s \in run[d].wave : failed = 0 \/ s < failed}
  <2>1. /\ run[d].at = "wave" /\ work \in [Steps -> {"no", "going", "done", "again"}]
        /\ work' = [s \in Steps |-> IF s \in good /\ work[s] = "going" THEN "done"
                                    ELSE work[s]]
    BY <1>4, TypeParts DEF WaveOver, Inv, HistoryTypes
  <2>2. RunShape(d) /\ Form(d)
    BY <2>1, DriveWithoutRun DEF Inv, Shapes, Forms
  <2>3. run[d].wave \subseteq Steps \ Gates /\ Matches(run[d].out, run[d].wave)
    BY <2>1, <2>2, TypeParts DEF RunShape, Form, Inv, ThingTypes, RunRecords
  <2>4. good \subseteq Steps \ Gates /\ \A s \in good : work[s] = "going"
    BY <2>3 DEF Matches
  <2> HIDE DEF good
  <2>5. good # {}
    BY <1>4, <2>1
  <2>6. work' = [s \in Steps |-> IF s \in good THEN "done" ELSE work[s]]
    BY <2>1, <2>4
  <2>7. Promise!Finish(good)
    BY <1>1, <2>4, <2>6 DEF Promise!Finish
  <2> QED
    BY <2>4, <2>5, <2>7 DEF Promise!Next
<1> QED
  BY <1>2, <1>3, <1>4 DEF RunStep, Abandoned

(* However the mission is driven, paused, decided, retried, failed or      *)
(* restarted, it keeps the promise of MissionWork until decisions cross:   *)
(* no step is begun twice in an attempt, before what it needs, past a gate *)
(* nobody granted or after a refusal; an attempt follows only a complete   *)
(* one, and there are never more of them than MAX_MISSION_ATTEMPTS.        *)
THEOREM ImplementsMissionWork == Spec => WorksOnce
<1>1. Init => Promise!Init
  BY DEF Init, Promise!Init
<1>2. Safe /\ [Next]_vars => [Promise!Next]_(Promise!workVars)
  <2> SUFFICES ASSUME Safe, [Next]_vars
               PROVE  [Promise!Next]_(Promise!workVars)
    OBVIOUS
  <2>1. CASE crossed'
    BY <2>1 DEF Promise!Next
  <2>2. CASE ~crossed'
    <3>1. Inv /\ ~crossed
      BY <2>2, CrossedStays DEF Safe, Firm, Inv
    <3>2. Abort \/ Pause \/ Restart \/ UNCHANGED vars => UNCHANGED Promise!workVars
      BY DEF Abort, Pause, Request, Restart, vars, history, ghosts, Promise!workVars
    <3> QED
      BY <2>2, <3>1, <3>2, OperatorPromise, DrivePromise, RunPromise DEF Next
  <2> QED
    BY <2>1, <2>2
<1> QED
  BY <1>1, <1>2, AlwaysSafe, PTL DEF Spec, WorksOnce, Promise!Spec

=============================================================================
