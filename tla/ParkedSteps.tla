---------------------------- MODULE ParkedSteps -----------------------------
(***************************************************************************)
(* The queue of tool calls that unattended runs park for the operator's    *)
(* review (StepParker).  Tasks park, resolve and list steps, each in steps *)
(* of its own with the store's answers awaited in between; one lock is to  *)
(* keep the operations apart, and nothing but Enter and Return knows of    *)
(* it.                                                                     *)
(*                                                                         *)
(* A call stands for a tool and its input.  Times are kept as ages: that   *)
(* of a pending step since it was parked, that of a resolved one since its *)
(* outcome, both capped just past the expiry.  Eight random hex digits are *)
(* a number that is never drawn again.                                     *)
(***************************************************************************)
EXTENDS Naturals, FiniteSets, Sequences

CONSTANTS Tasks, Sweeper,   \* the hourly lapse task is one of the tasks
          NoTask, NoCall,   \* nobody, nothing
          Calls,
          MaxPending,       \* MAX_PENDING
          KeepResolved,     \* KEEP_RESOLVED
          Expiry,           \* expiry_secs
          MaxParks,         \* bound: steps ever parked
          MaxFaults         \* bound: crashes and failed writes

ASSUME ParkAssumption ==
  /\ Sweeper \in Tasks /\ NoTask \notin Tasks /\ NoCall \notin Calls
  /\ MaxPending \in Nat /\ KeepResolved \in Nat /\ Expiry \in Nat
  /\ MaxParks \in Nat /\ MaxFaults \in Nat

VARIABLES
  store,     \* id -> step, KeyDomain::ParkedSteps
  nextId,    \* the id of the next step
  lock,      \* the task in its critical section, or none
  op,        \* task -> the operation it is in
  trail,     \* id -> audit events about the step, in order
  executed,  \* id -> times the call ran
  lost,      \* id -> runs whose outcome never reached the store
  faults

vars == <<store, nextId, lock, op, trail, executed, lost, faults>>

-----------------------------------------------------------------------------

Ids     == 1 .. MaxParks
NoId    == 0
(* Where a task is.  id: the step it decides, parks or lapses; due: the    *)
(* steps its tidy still has to lapse; decided: the decision is written.    *)
Idle    == [at |-> "idle", kind |-> "none", call |-> NoCall, id |-> NoId,
            approve |-> FALSE, due |-> {}, lapsing |-> NoId, outcome |-> "none",
            decided |-> FALSE]
Pending == {i \in DOMAIN store : store[i].state = "pending"}
Resolved == DOMAIN store \ Pending

Mut_ExpiredAny == {i \in DOMAIN store : store[i].age > Expiry}

(* tidy: the pending steps that have waited past the expiry. *)
Expired == {i \in Pending : store[i].age > Expiry}

Mut_DroppableAny == {i \in DOMAIN store :
  Cardinality({j \in DOMAIN store \ {i} : store[j].age <= store[i].age})
    >= KeepResolved}

(* tidy: all but the KeepResolved newest outcomes; equal times either way. *)
Droppable == {i \in Resolved :
  Cardinality({j \in Resolved \ {i} : store[j].age <= store[i].age})
    >= KeepResolved}

Put(i, step) == store' = [j \in DOMAIN store \cup {i} |->
                            IF j = i THEN step ELSE store[j]]
Resolve(i, state) == Put(i, [store[i] EXCEPT !.state = state, !.age = 0])
Audit(i, event)   == trail' = [trail EXCEPT ![i] = Append(@, event)]

Goto(t, at)  == op' = [op EXCEPT ![t].at = at]
Return(t)    == op' = [op EXCEPT ![t] = Idle] /\ lock' = NoTask
InSection(t, at) == op[t].at = at

Fault == faults < MaxFaults /\ faults' = faults + 1

Init ==
  /\ store = [i \in {} |-> Idle]
  /\ nextId = 1
  /\ lock = NoTask
  /\ op = [t \in Tasks |-> Idle]
  /\ trail = [i \in Ids |-> <<>>]
  /\ executed = [i \in Ids |-> 0]
  /\ lost = [i \in Ids |-> 0]
  /\ faults = 0

-----------------------------------------------------------------------------
(* An operation begins when its task gets the lock: until then it has      *)
(* changed nothing.  It reads the store, and tidy also reads the clock.    *)

(* Mutant: the operation does not wait for the lock. *)
Mut_EnterUnlocked(t, request) ==
  /\ op[t] = Idle
  /\ lock' = t
  /\ op' = [op EXCEPT ![t] = request]
  /\ UNCHANGED <<store, nextId, trail, executed, lost, faults>>

Enter(t, request) ==
  /\ op[t] = Idle
  /\ lock = NoTask
  /\ lock' = t
  /\ op' = [op EXCEPT ![t] = request]
  /\ UNCHANGED <<store, nextId, trail, executed, lost, faults>>

Park(t, c) == Enter(t, [Idle EXCEPT !.at = "park", !.kind = "park", !.call = c])

Decide(t, i, approve) ==
  Enter(t, [Idle EXCEPT !.at = "tidy", !.kind = "resolve", !.id = i,
                        !.approve = approve, !.due = Expired])

Mut_SweepOnlyDrops(t) == Enter(t, [Idle EXCEPT !.at = "tidy", !.kind = "sweep"])

(* list and lapse_expired, which change the same state. *)
Sweep(t) == Enter(t, [Idle EXCEPT !.at = "tidy", !.kind = "sweep",
                                  !.due = Expired])

-----------------------------------------------------------------------------
(* try_park *)

Twin(c) == {i \in Pending : store[i].call = c}

(* The steps that were read show an identical one, or too many. *)
ParkSkips(t) ==
  /\ InSection(t, "park")
  /\ \/ Twin(op[t].call) # {}
     \/ Cardinality(Pending) >= MaxPending
     \/ nextId > MaxParks
  /\ Return(t)
  /\ UNCHANGED <<store, nextId, trail, executed, lost, faults>>

(* They show neither, and the new step is on its way to the store. *)
ParkReads(t) ==
  /\ InSection(t, "park")
  /\ Twin(op[t].call) = {}
  /\ Cardinality(Pending) < MaxPending
  /\ nextId <= MaxParks
  /\ Goto(t, "write")
  /\ UNCHANGED <<store, nextId, lock, trail, executed, lost, faults>>

ParkWrites(t) ==
  /\ InSection(t, "write")
  /\ Put(nextId, [call |-> op[t].call, state |-> "pending", age |-> 0])
  /\ nextId' = nextId + 1
  /\ op' = [op EXCEPT ![t].at = "parked", ![t].id = nextId]
  /\ UNCHANGED <<lock, trail, executed, lost, faults>>

ParkAudits(t) ==
  /\ InSection(t, "parked")
  /\ Audit(op[t].id, "parked")
  /\ Return(t)
  /\ UNCHANGED <<store, nextId, executed, lost, faults>>

-----------------------------------------------------------------------------
(* tidy, before the decision and again after it *)

(* One expired step lapses: its write, then its audit event. *)
Lapse(t, i) ==
  /\ InSection(t, "tidy")
  /\ i \in op[t].due
  /\ Resolve(i, "lapsed")
  /\ op' = [op EXCEPT ![t].due = @ \ {i}, ![t].lapsing = i, ![t].at = "lapsed"]
  /\ UNCHANGED <<nextId, lock, trail, executed, lost, faults>>

LapseAudits(t) ==
  /\ InSection(t, "lapsed")
  /\ Audit(op[t].lapsing, "lapsed")
  /\ op' = [op EXCEPT ![t].at = "tidy", ![t].lapsing = NoId]
  /\ UNCHANGED <<store, nextId, lock, executed, lost, faults>>

Drop(t, i) ==
  /\ InSection(t, "tidy")
  /\ op[t].due = {}
  /\ i \in Droppable
  /\ store' = [j \in DOMAIN store \ {i} |-> store[j]]
  /\ UNCHANGED <<nextId, lock, op, trail, executed, lost, faults>>

TidyDone(t) ==
  /\ InSection(t, "tidy")
  /\ op[t].due = {} /\ Droppable = {}
  /\ IF op[t].kind = "resolve" /\ ~op[t].decided
     THEN Goto(t, "decide") /\ UNCHANGED lock
     ELSE Return(t)
  /\ UNCHANGED <<store, nextId, trail, executed, lost, faults>>

-----------------------------------------------------------------------------
(* resolve *)

(* The step is unknown or has its outcome: nothing runs. *)
NotPending(t) ==
  /\ InSection(t, "decide")
  /\ op[t].id \notin Pending
  /\ Return(t)
  /\ UNCHANGED <<store, nextId, trail, executed, lost, faults>>

Deny(t) ==
  /\ InSection(t, "decide")
  /\ op[t].id \in Pending
  /\ ~op[t].approve
  /\ op' = [op EXCEPT ![t].at = "record", ![t].outcome = "denied"]
  /\ UNCHANGED <<store, nextId, lock, trail, executed, lost, faults>>

(* run_approved_call: the tool or its capability may be gone, in which     *)
(* case the call is not executed; a tool that is executed may fail.        *)
RunRefused(t) ==
  /\ InSection(t, "decide")
  /\ op[t].id \in Pending
  /\ op[t].approve
  /\ op' = [op EXCEPT ![t].at = "record", ![t].outcome = "failed"]
  /\ UNCHANGED <<store, nextId, lock, trail, executed, lost, faults>>

Mut_RunStartsAnyway(t) ==
  /\ InSection(t, "decide")
  /\ op[t].id \in DOMAIN store
  /\ op[t].approve
  /\ executed' = [executed EXCEPT ![op[t].id] = @ + 1]
  /\ op' = [op EXCEPT ![t].at = "running"]
  /\ UNCHANGED <<store, nextId, lock, trail, lost, faults>>

RunStarts(t) ==
  /\ InSection(t, "decide")
  /\ op[t].id \in Pending
  /\ op[t].approve
  /\ executed' = [executed EXCEPT ![op[t].id] = @ + 1]
  /\ op' = [op EXCEPT ![t].at = "running"]
  /\ UNCHANGED <<store, nextId, lock, trail, lost, faults>>

RunEnds(t, outcome) ==
  /\ InSection(t, "running")
  /\ op' = [op EXCEPT ![t].at = "record", ![t].outcome = outcome]
  /\ UNCHANGED <<store, nextId, lock, trail, executed, lost, faults>>

Record(t) ==
  /\ InSection(t, "record")
  /\ Resolve(op[t].id, op[t].outcome)
  /\ op' = [op EXCEPT ![t].at = "recorded"]
  /\ UNCHANGED <<nextId, lock, trail, executed, lost, faults>>

(* The outcome's audit event, and the second tidy begins. *)
RecordAudits(t) ==
  /\ InSection(t, "recorded")
  /\ Audit(op[t].id, op[t].outcome)
  /\ op' = [op EXCEPT ![t].at = "tidy", ![t].decided = TRUE, ![t].due = Expired]
  /\ UNCHANGED <<store, nextId, lock, executed, lost, faults>>

-----------------------------------------------------------------------------
(* Storage failures, crashes, time *)

(* The call of t ran, or may have, and its outcome is not in the store. *)
RanUnrecorded(t) ==
  op[t].at = "running" \/ (op[t].at = "record" /\ op[t].outcome # "denied")

Lose(t) == lost' = IF RanUnrecorded(t)
                   THEN [lost EXCEPT ![op[t].id] = @ + 1] ELSE lost

(* A read, write or delete fails: the operation returns the error. *)
StorageFails(t) ==
  /\ op[t].at \in {"park", "write", "tidy", "record"}
  /\ Fault
  /\ Lose(t)
  /\ Return(t)
  /\ UNCHANGED <<store, nextId, trail, executed>>

(* The daemon dies and starts again with the store it had. *)
Crash ==
  /\ Fault
  /\ IF lock = NoTask THEN lost' = lost ELSE Lose(lock)
  /\ op' = [t \in Tasks |-> Idle]
  /\ lock' = NoTask
  /\ UNCHANGED <<store, nextId, trail, executed>>

Tick ==
  /\ store' = [i \in DOMAIN store |->
                 [store[i] EXCEPT !.age = IF @ > Expiry THEN @ ELSE @ + 1]]
  /\ UNCHANGED <<nextId, lock, op, trail, executed, lost, faults>>

-----------------------------------------------------------------------------

(* What a task does once it has the lock. *)
Step(t) ==
  \/ ParkSkips(t) \/ ParkReads(t) \/ ParkWrites(t) \/ ParkAudits(t)
  \/ LapseAudits(t) \/ TidyDone(t)
  \/ \E i \in Ids : Lapse(t, i) \/ Drop(t, i)
  \/ NotPending(t) \/ Deny(t) \/ RunRefused(t) \/ RunStarts(t)
  \/ \E outcome \in {"approved", "failed"} : RunEnds(t, outcome)
  \/ Record(t) \/ RecordAudits(t)

Next ==
  \/ \E t \in Tasks \ {Sweeper} :
       \/ \E c \in Calls : Park(t, c)
       \/ \E i \in Ids, approve \in BOOLEAN : Decide(t, i, approve)
  \/ Sweep(Sweeper)
  \/ \E t \in Tasks : Step(t) \/ StorageFails(t)
  \/ Crash \/ Tick

Spec == Init /\ [][Next]_vars

(* Tasks are polled, an approved call returns, time passes, the sweep      *)
(* comes around and its turn for the lock comes (first come first served). *)
FairSpec == /\ Spec
            /\ WF_vars(Tick) /\ SF_vars(Sweep(Sweeper))
            /\ \A t \in Tasks : WF_vars(Step(t))

-----------------------------------------------------------------------------
(* Properties *)

Outcomes == {"approved", "failed", "denied", "lapsed"}

StepType == [call : Calls, state : Outcomes \cup {"pending"},
             age : 0 .. Expiry + 1]

OpType == [at : {"idle", "park", "write", "parked", "tidy", "lapsed", "decide",
                 "running", "record", "recorded"},
           kind : {"none", "park", "resolve", "sweep"},
           call : Calls \cup {NoCall}, id : Ids \cup {NoId},
           approve : BOOLEAN, due : SUBSET Ids, lapsing : Ids \cup {NoId},
           outcome : Outcomes \cup {"none"}, decided : BOOLEAN]

TypeOK ==
  /\ DOMAIN store \subseteq Ids /\ \A i \in DOMAIN store : store[i] \in StepType
  /\ nextId \in 1 .. MaxParks + 1
  /\ lock \in Tasks \cup {NoTask}
  /\ op \in [Tasks -> OpType]
  /\ trail \in [Ids -> Seq(Outcomes \cup {"parked"})]
  /\ executed \in [Ids -> Nat] /\ lost \in [Ids -> Nat]
  /\ faults \in 0 .. MaxFaults

(* An approved step runs once, as long as its outcome reaches the store:   *)
(* every further run of the same step is paid for by a lost outcome, and   *)
(* only a step that was approved or failed, or is being decided, has run.  *)
RunsOnlyIfApproved ==
  \A i \in Ids :
    /\ executed[i] <= lost[i] + 1
    /\ i \in DOMAIN store /\ executed[i] > lost[i]
         => \/ store[i].state \in {"approved", "failed"}
            \/ \E t \in Tasks : RanUnrecorded(t) /\ op[t].id = i

(* The places of a step's trail that tell an outcome. *)
Told(i) == {m \in DOMAIN trail[i] : trail[i][m] # "parked"}

(* The audit trail of a step is its parking and then one outcome, the one  *)
(* the store has; a crash can only leave events out.                       *)
TrailTellsOneOutcome ==
  \A i \in Ids :
    /\ \A m \in DOMAIN trail[i] \ Told(i) : m = 1
    /\ \A m, n \in Told(i) : m = n
    /\ i \in DOMAIN store => \A m \in Told(i) : store[i].state = trail[i][m]

(* Two identical calls never wait side by side, however many runs park     *)
(* them at once: the operator is asked once.                               *)
NoTwinsWaiting ==
  \A i, j \in Pending : store[i].call = store[j].call => i = j

(* Every pending step is decided or lapses: a sweep reaches it although    *)
(* other operations, failures and restarts come in between.                *)
NothingWaitsForever == \A i \in Ids : (i \in Pending) ~> (i \notin Pending)

(* "Turned down; never ran" and "not reviewed in time; never ran": a step  *)
(* recorded as denied or lapsed was not executed.                          *)
NeverRan ==
  \A i \in DOMAIN store :
    store[i].state \in {"denied", "lapsed"} => executed[i] = 0

Status(i) == IF i \in DOMAIN store THEN store[i].state
             ELSE IF i < nextId THEN "forgotten" ELSE "absent"

ReviewStatus == [i \in Ids |-> Status(i)]

Review == INSTANCE StepReview WITH status <- ReviewStatus

(* Through lapses, failures, restarts and drops, a stored step waits and   *)
(* takes one final outcome, at most MaxPending wait, and no pending step   *)
(* is ever dropped.                                                        *)
ImplementsReview == Review!Spec

=============================================================================
