------------------------- MODULE ParkedSteps_proofs -------------------------
(***************************************************************************)
(* Proofs about the queue of parked steps, for every number of tasks,      *)
(* calls, steps, failures and every limit of the queue.                    *)
(***************************************************************************)
EXTENDS ParkedSteps, TLAPS

(* Only the holder of the lock is in an operation, and what it remembers   *)
(* of the store from its first read still holds: the steps it is about to  *)
(* lapse and the step it is deciding are pending, and the step it is about *)
(* to park has no twin and a place.                                        *)
RemembersOK(o) ==
  /\ o.at \in {"tidy", "lapsed"} => o.due \subseteq Pending
  /\ o.at \in {"running", "record"} => o.id \in Pending
  /\ o.at \in {"parked", "recorded"} => o.id \in Ids
  /\ o.at = "lapsed" => o.lapsing \in Ids
  /\ o.at \in {"record", "recorded"} => o.outcome \in Outcomes
  /\ o.at = "record" => o.outcome # "lapsed"
  /\ o.at \in {"park", "write"} => o.call \in Calls
  /\ o.at = "write" => /\ Twin(o.call) = {} /\ Cardinality(Pending) < MaxPending
                       /\ nextId <= MaxParks

SectionOK(t) == RemembersOK(op[t])

SectionInv ==
  /\ \A t \in Tasks : op[t] # Idle => lock = t
  /\ \A t \in Tasks : SectionOK(t)
  /\ \A i \in DOMAIN store : i < nextId

(* A run whose outcome is neither lost nor recorded is the one under way.  *)
RunOK(i) ==
  /\ executed[i] <= lost[i] + 1
  /\ executed[i] > lost[i] =>
       \/ i < nextId /\ i \notin DOMAIN store
       \/ i \in DOMAIN store /\ store[i].state \in {"approved", "failed"}
       \/ \E t \in Tasks : RanUnrecorded(t) /\ op[t].id = i

RunInv == \A i \in Ids : RunOK(i)

IInv == TypeOK /\ SectionInv /\ RunInv /\ NoTwinsWaiting

-----------------------------------------------------------------------------
(* Lemmas about sections *)

(* A task that is in no operation has a well-formed state. *)
LEMMA IdleType == Idle \in OpType
  BY DEF Idle, OpType, Outcomes

(* While t is in its section, or nobody is, every other task is idle. *)
LEMMA OthersIdle ==
  ASSUME IInv, NEW t \in Tasks, lock \in {t, NoTask}, NEW u \in Tasks, u # t
  PROVE  op[u] = Idle
  BY ParkAssumption DEF IInv, SectionInv

(* A task that is in an operation has the lock. *)
LEMMA Holder ==
  ASSUME IInv, NEW t \in Tasks, op[t].at # "idle"
  PROVE  lock = t
  BY DEF IInv, SectionInv, Idle

(* Only the holder has a run under way. *)
LEMMA OnlyHolder ==
  ASSUME IInv
  PROVE  \A u \in Tasks : /\ op[u].at # "idle" => lock = u
                          /\ RanUnrecorded(u) => lock = u
  BY Holder DEF RanUnrecorded

(* A step of t's section rewrites what t remembers and nothing else. *)
LEMMA OneSection ==
  ASSUME IInv, NEW t \in Tasks, lock \in {t, NoTask}, NEW new \in OpType,
         op' = [op EXCEPT ![t] = new],
         lock' = t \/ (lock' = NoTask /\ new = Idle)
  PROVE  /\ op' \in [Tasks -> OpType]
         /\ lock' \in Tasks \cup {NoTask}
         /\ op'[t] = new
         /\ \A u \in Tasks : u # t => op'[u] = Idle
         /\ \A u \in Tasks : op'[u] # Idle => lock' = u
  BY OthersIdle DEF IInv, TypeOK

(* The conditions of SectionOK on a value of op and the store it meets. *)
LEMMA IdleSection ==
  ASSUME NEW t \in Tasks, op'[t] = Idle
  PROVE  SectionOK(t)'
  BY DEF SectionOK, RemembersOK, Idle

(* An empty queue satisfies the invariant. *)
LEMMA InitIInv ==
  ASSUME Init
  PROVE  IInv
<1>1. TypeOK
  BY IdleType, ParkAssumption DEF Init, TypeOK, Ids, Outcomes
<1>2. SectionInv
  BY DEF Init, SectionInv, SectionOK, RemembersOK, Idle
<1>3. RunInv
  BY DEF Init, RunInv, RunOK
<1>4. NoTwinsWaiting
  BY DEF Init, NoTwinsWaiting, Pending
<1> QED
  BY <1>1, <1>2, <1>3, <1>4 DEF IInv

-----------------------------------------------------------------------------
(* Steps that leave the store alone *)

(* What a step without a write has to show: where it goes is a section     *)

(* whose memory of the store is right, and no run goes missing.            *)
LEMMA QuietStep ==
  ASSUME IInv, NEW t \in Tasks, lock \in {t, NoTask}, NEW new \in OpType,
         op' = [op EXCEPT ![t] = new],
         lock' = t \/ (lock' = NoTask /\ new = Idle),
         UNCHANGED <<store, nextId>>,
         trail' \in [Ids -> Seq(Outcomes \cup {"parked"})],
         faults' \in 0 .. MaxFaults,
         SectionOK(t)',
         RunInv', executed' \in [Ids -> Nat], lost' \in [Ids -> Nat]
  PROVE  IInv' /\ UNCHANGED ReviewStatus
<1>1. /\ op' \in [Tasks -> OpType]
      /\ lock' \in Tasks \cup {NoTask}
      /\ \A u \in Tasks : u # t => op'[u] = Idle
      /\ \A u \in Tasks : op'[u] # Idle => lock' = u
  BY OneSection
<1>2. TypeOK'
  BY <1>1 DEF IInv, TypeOK
<1>3. \A u \in Tasks : SectionOK(u)'
  <2> SUFFICES ASSUME NEW u \in Tasks PROVE SectionOK(u)'
    OBVIOUS
  <2>1. CASE u = t
    BY <2>1
  <2>2. CASE u # t
    BY <2>2, <1>1, IdleSection
  <2> QED
    BY <2>1, <2>2
<1>4. SectionInv'
  BY <1>1, <1>3 DEF IInv, SectionInv, SectionOK
<1>5. NoTwinsWaiting' /\ UNCHANGED ReviewStatus
  BY DEF IInv, NoTwinsWaiting, Pending, ReviewStatus, Status
<1> QED
  BY <1>2, <1>4, <1>5 DEF IInv

(* A step of t that neither starts, loses nor records a run.               *)
LEMMA RunsKept ==
  ASSUME IInv, NEW t \in Tasks, lock \in {t, NoTask},
         UNCHANGED <<store, nextId, executed, lost>>,
         RanUnrecorded(t) => RanUnrecorded(t)' /\ op'[t].id = op[t].id
  PROVE  RunInv' /\ executed' \in [Ids -> Nat] /\ lost' \in [Ids -> Nat]
<1>1. ASSUME NEW i \in Ids, NEW u \in Tasks, RanUnrecorded(u), op[u].id = i
      PROVE  RanUnrecorded(t)' /\ op'[t].id = i
  BY <1>1, OthersIdle DEF RanUnrecorded, Idle
<1>2. ASSUME NEW i \in Ids PROVE RunOK(i)'
  <2>1. RunOK(i)
    BY DEF IInv, RunInv
  <2> QED
    BY <2>1, <1>1 DEF RunOK, RanUnrecorded
<1> QED
  BY <1>2 DEF IInv, TypeOK, RunInv, RunOK

(* The task that gets the lock is the only one in an operation. *)
LEMMA EnterOne ==
  ASSUME IInv, NEW t \in Tasks, NEW new \in OpType, Enter(t, new),
         new.at = "tidy" => new.due \subseteq Pending,
         new.at \in {"park", "tidy"},
         new.at = "park" => new.call \in Calls
  PROVE  IInv' /\ UNCHANGED ReviewStatus
<1>4. /\ lock = NoTask /\ lock' = t
      /\ op' = [op EXCEPT ![t] = new]
      /\ UNCHANGED <<store, nextId, trail, executed, lost, faults>>
  BY DEF Enter
<1>5. op'[t] = new
  BY <1>4 DEF IInv, TypeOK
<1>6. SectionOK(t)'
  BY <1>4, <1>5 DEF SectionOK, RemembersOK, Pending
<1>7. ~RanUnrecorded(t)
  BY OnlyHolder, <1>4, ParkAssumption DEF RanUnrecorded
<1>8. RunInv' /\ executed' \in [Ids -> Nat] /\ lost' \in [Ids -> Nat]
  BY <1>4, <1>7, RunsKept
<1>9. trail' \in [Ids -> Seq(Outcomes \cup {"parked"})] /\ faults' \in 0 .. MaxFaults
  BY <1>4 DEF IInv, TypeOK
<1> QED
  BY <1>4, <1>6, <1>8, <1>9, QuietStep

(* What an operation reads on entering holds of the store it reads. *)
LEMMA EnterKeeps ==
  ASSUME IInv, NEW t \in Tasks,
         \/ \E c \in Calls : Park(t, c)
         \/ \E i \in Ids, approve \in BOOLEAN : Decide(t, i, approve)
         \/ Sweep(t)
  PROVE  IInv' /\ UNCHANGED ReviewStatus
<1>1. Expired \subseteq Pending /\ Pending \subseteq Ids
  BY DEF Expired, Pending, IInv, TypeOK
<1>2. ASSUME NEW c \in Calls, Park(t, c)
      PROVE  IInv' /\ UNCHANGED ReviewStatus
  <2> DEFINE new == [Idle EXCEPT !.at = "park", !.kind = "park", !.call = c]
  <2>1. new \in OpType /\ new.at = "park" /\ new.call = c
    BY IdleType DEF OpType, Idle
  <2> QED
    BY <1>2, <2>1, EnterOne DEF Park
<1>3. ASSUME NEW i \in Ids, NEW approve \in BOOLEAN, Decide(t, i, approve)
      PROVE  IInv' /\ UNCHANGED ReviewStatus
  <2> DEFINE new == [Idle EXCEPT !.at = "tidy", !.kind = "resolve", !.id = i,
                                 !.approve = approve, !.due = Expired]
  <2>1. new \in OpType /\ new.at = "tidy" /\ new.due = Expired
    BY <1>1, IdleType DEF OpType, Idle
  <2> QED
    BY <1>1, <1>3, <2>1, EnterOne DEF Decide
<1>4. CASE Sweep(t)
  <2> DEFINE new == [Idle EXCEPT !.at = "tidy", !.kind = "sweep", !.due = Expired]
  <2>1. new \in OpType /\ new.at = "tidy" /\ new.due = Expired
    BY <1>1, IdleType DEF OpType, Idle
  <2> QED
    BY <1>1, <1>4, <2>1, EnterOne DEF Sweep
<1> QED
  BY <1>2, <1>3, <1>4

(* Early returns and audit events: nothing but the section changes. *)
LEMMA QuietMove ==
  ASSUME IInv, NEW t \in Tasks, lock = t, NEW new \in OpType,
         op' = [op EXCEPT ![t] = new],
         lock' = t \/ (lock' = NoTask /\ new = Idle),
         UNCHANGED <<store, nextId, executed, lost, faults>>,
         trail' \in [Ids -> Seq(Outcomes \cup {"parked"})],
         RemembersOK(new),
         RanUnrecorded(t) =>
           /\ new.id = op[t].id /\ lock' = t
           /\ new.at = "record" /\ new.outcome # "denied"
  PROVE  IInv' /\ UNCHANGED ReviewStatus
<1>1. op'[t] = new
  BY DEF IInv, TypeOK
<1>2. SectionOK(t)'
  BY <1>1 DEF SectionOK, RemembersOK, Pending, Twin
<1>3. RanUnrecorded(t) => RanUnrecorded(t)' /\ op'[t].id = op[t].id
  BY <1>1 DEF RanUnrecorded
<1>4. RunInv' /\ executed' \in [Ids -> Nat] /\ lost' \in [Ids -> Nat]
  BY <1>3, RunsKept
<1>5. faults' \in 0 .. MaxFaults
  BY DEF IInv, TypeOK
<1> QED
  BY <1>2, <1>4, <1>5, QuietStep

(* A task in no operation relies on nothing. *)
LEMMA IdleRemembers == RemembersOK(Idle)
  BY DEF RemembersOK, Idle

(* An operation that skips, has audited or finds nothing pending just ends. *)
LEMMA ReturnsKeep ==
  ASSUME IInv, NEW t \in Tasks, ParkSkips(t) \/ ParkAudits(t) \/ NotPending(t)
  PROVE  IInv' /\ UNCHANGED ReviewStatus
<1>1. /\ lock = t /\ lock' = NoTask
      /\ op' = [op EXCEPT ![t] = Idle]
      /\ UNCHANGED <<store, nextId, executed, lost, faults>>
  BY OnlyHolder DEF ParkSkips, ParkAudits, NotPending, InSection, Return
<1>2. ~RanUnrecorded(t)
  BY DEF ParkSkips, ParkAudits, NotPending, InSection, RanUnrecorded
<1>3. trail' \in [Ids -> Seq(Outcomes \cup {"parked"})]
  <2>1. CASE ParkAudits(t)
    <3>1. op[t].id \in Ids
      BY <2>1 DEF ParkAudits, InSection, IInv, SectionInv, SectionOK, RemembersOK
    <3> QED
      BY <2>1, <3>1 DEF ParkAudits, Audit, IInv, TypeOK
  <2>2. CASE ParkSkips(t) \/ NotPending(t)
    BY <2>2 DEF ParkSkips, NotPending, IInv, TypeOK
  <2> QED
    BY <2>1, <2>2
<1> QED
  BY <1>1, <1>2, <1>3, IdleType, IdleRemembers, QuietMove

(* The audit of a lapse changes no step. *)
LEMMA LapseAuditsKeeps ==
  ASSUME IInv, NEW t \in Tasks, LapseAudits(t)
  PROVE  IInv' /\ UNCHANGED ReviewStatus
<1> DEFINE new == [op[t] EXCEPT !.at = "tidy", !.lapsing = NoId]
<1>1. op \in [Tasks -> OpType] /\ op[t] \in OpType /\ SectionOK(t)
  BY DEF IInv, TypeOK, SectionInv
<1>2. /\ lock = t /\ lock' = t /\ op[t].at = "lapsed"
      /\ op' = [op EXCEPT ![t] = new]
      /\ UNCHANGED <<store, nextId, executed, lost, faults>>
  BY OnlyHolder, <1>1 DEF LapseAudits, InSection
<1>3. new \in OpType /\ RemembersOK(new)
  BY <1>1, <1>2 DEF OpType, SectionOK, RemembersOK
<1>4. trail' \in [Ids -> Seq(Outcomes \cup {"parked"})]
  BY <1>1, <1>2 DEF LapseAudits, Audit, IInv, TypeOK, SectionOK, RemembersOK,
                    Outcomes
<1>5. ~RanUnrecorded(t)
  BY <1>2 DEF RanUnrecorded
<1> HIDE DEF new
<1> QED
  BY <1>2, <1>3, <1>4, <1>5, QuietMove

(* The end of tidy leads to the decision and changes no step. *)
LEMMA TidyDoneKeeps ==
  ASSUME IInv, NEW t \in Tasks, TidyDone(t)
  PROVE  IInv' /\ UNCHANGED ReviewStatus
<1> DEFINE next == [op[t] EXCEPT !.at = "decide"]
<1>1. op \in [Tasks -> OpType] /\ op[t] \in OpType
  BY DEF IInv, TypeOK
<1>2. /\ lock = t /\ op[t].at = "tidy"
      /\ UNCHANGED <<store, nextId, executed, lost, faults, trail>>
  BY OnlyHolder DEF TidyDone, InSection
<1>3. \/ op' = [op EXCEPT ![t] = Idle] /\ lock' = NoTask
      \/ op' = [op EXCEPT ![t] = next] /\ lock' = t
  BY <1>1, <1>2 DEF TidyDone, Return, Goto
<1>4. next \in OpType /\ RemembersOK(next)
  BY <1>1 DEF OpType, RemembersOK
<1>5. ~RanUnrecorded(t) /\ trail' \in [Ids -> Seq(Outcomes \cup {"parked"})]
  BY <1>2 DEF RanUnrecorded, IInv, TypeOK
<1> HIDE DEF next
<1> QED
  BY <1>2, <1>3, <1>4, <1>5, IdleType, IdleRemembers, QuietMove

(* A decided outcome waits for its write with its step still pending. *)
LEMMA OutcomeKeeps ==
  ASSUME IInv, NEW t \in Tasks,
         \/ Deny(t) \/ RunRefused(t)
         \/ \E outcome \in {"approved", "failed"} : RunEnds(t, outcome)
  PROVE  IInv' /\ UNCHANGED ReviewStatus
<1> DEFINE new(o) == [op[t] EXCEPT !.at = "record", !.outcome = o]
<1>1. op \in [Tasks -> OpType] /\ op[t] \in OpType /\ SectionOK(t)
  BY DEF IInv, TypeOK, SectionInv
<1>2. PICK o \in {"approved", "failed", "denied"} :
        /\ lock = t /\ lock' = t /\ op[t].id \in Pending
        /\ op' = [op EXCEPT ![t] = new(o)]
        /\ op[t].at = "decide" \/ (op[t].at = "running" /\ o # "denied")
        /\ UNCHANGED <<store, nextId, executed, lost, faults, trail>>
  BY OnlyHolder, <1>1 DEF Deny, RunRefused, RunEnds, InSection, SectionOK, RemembersOK
<1>3. new(o) \in OpType /\ RemembersOK(new(o))
  BY <1>1, <1>2 DEF OpType, RemembersOK, Outcomes
<1>4. RanUnrecorded(t) => /\ new(o).id = op[t].id
                          /\ new(o).at = "record" /\ new(o).outcome # "denied"
  BY <1>1, <1>2 DEF OpType, RanUnrecorded
<1>5. trail' \in [Ids -> Seq(Outcomes \cup {"parked"})]
  BY <1>2 DEF IInv, TypeOK
<1> HIDE DEF new
<1> QED
  BY <1>2, <1>3, <1>4, <1>5, QuietMove

(* The audit of a decision changes no step. *)
LEMMA RecordAuditsKeeps ==
  ASSUME IInv, NEW t \in Tasks, RecordAudits(t)
  PROVE  IInv' /\ UNCHANGED ReviewStatus
<1> DEFINE new == [op[t] EXCEPT !.at = "tidy", !.decided = TRUE, !.due = Expired]
<1>1. /\ op \in [Tasks -> OpType] /\ op[t] \in OpType /\ SectionOK(t)
      /\ Expired \subseteq Pending /\ Expired \subseteq Ids
  BY DEF IInv, TypeOK, SectionInv, Expired, Pending
<1>2. /\ lock = t /\ lock' = t /\ op[t].at = "recorded"
      /\ op' = [op EXCEPT ![t] = new]
      /\ UNCHANGED <<store, nextId, executed, lost, faults>>
  BY OnlyHolder, <1>1 DEF RecordAudits, InSection
<1>3. new \in OpType /\ RemembersOK(new)
  BY <1>1 DEF OpType, RemembersOK
<1>4. trail' \in [Ids -> Seq(Outcomes \cup {"parked"})]
  BY <1>1, <1>2 DEF RecordAudits, Audit, IInv, TypeOK, SectionOK, RemembersOK
<1>5. ~RanUnrecorded(t)
  BY <1>2 DEF RanUnrecorded
<1> HIDE DEF new
<1> QED
  BY <1>2, <1>3, <1>4, <1>5, QuietMove

-----------------------------------------------------------------------------
(* Steps that write the store *)

Abstracted == Review!Next \/ UNCHANGED ReviewStatus

(* The write itself: types, and what the writer remembers. *)
LEMMA WriteStep ==
  ASSUME IInv, NEW t \in Tasks, lock = t, lock' = t, NEW new \in OpType,
         op' = [op EXCEPT ![t] = new],
         DOMAIN store' \subseteq Ids, nextId' \in 1 .. MaxParks + 1,
         \A i \in DOMAIN store' : store'[i] \in StepType /\ i < nextId',
         UNCHANGED <<trail, executed, lost, faults>>,
         SectionOK(t)'
  PROVE  TypeOK' /\ SectionInv'
<1>1. /\ op' \in [Tasks -> OpType]
      /\ \A u \in Tasks : u # t => op'[u] = Idle
      /\ \A u \in Tasks : op'[u] # Idle => lock' = u
  BY OneSection
<1>2. TypeOK'
  BY <1>1 DEF IInv, TypeOK
<1>3. \A u \in Tasks : SectionOK(u)'
  BY <1>1, IdleSection
<1> QED
  BY <1>1, <1>2, <1>3 DEF SectionInv

(* While the holder of the lock has no run to record, no pending step has  *)

(* a run that is neither lost nor recorded.                                *)
LEMMA NothingRunning ==
  ASSUME IInv, NEW t \in Tasks, lock = t, ~RanUnrecorded(t), NEW i \in Ids,
         i \in Pending \/ i = nextId
  PROVE  executed[i] <= lost[i]
<1>1. \A u \in Tasks : ~RanUnrecorded(u)
  BY OnlyHolder DEF RanUnrecorded
<1>2. RunOK(i) /\ executed[i] \in Nat /\ lost[i] \in Nat /\ nextId \in Nat
  BY ParkAssumption DEF IInv, RunInv, TypeOK
<1>3. i \in DOMAIN store => i < nextId
  BY DEF IInv, SectionInv
<1> QED
  BY <1>1, <1>2, <1>3 DEF RunOK, Pending

(* Taking steps out of the pending ones leaves no twins. *)
LEMMA FewerTwins ==
  ASSUME IInv, Pending' \subseteq Pending,
         \A i \in Pending' : store'[i].call = store[i].call
  PROVE  NoTwinsWaiting'
  BY DEF IInv, NoTwinsWaiting

(* A look-up that finds no twin and room is remembered for the write. *)
LEMMA ParkReadsKeeps ==
  ASSUME IInv, NEW t \in Tasks, ParkReads(t)
  PROVE  IInv' /\ UNCHANGED ReviewStatus
<1> DEFINE new == [op[t] EXCEPT !.at = "write"]
<1>1. op \in [Tasks -> OpType] /\ op[t] \in OpType /\ SectionOK(t)
  BY DEF IInv, TypeOK, SectionInv
<1>2. /\ lock = t /\ lock' = t /\ op[t].at = "park"
      /\ op' = [op EXCEPT ![t] = new]
      /\ Twin(op[t].call) = {} /\ Cardinality(Pending) < MaxPending
      /\ nextId <= MaxParks
      /\ UNCHANGED <<store, nextId, trail, executed, lost, faults>>
  BY <1>1, OnlyHolder DEF ParkReads, InSection, Goto
<1>3. new \in OpType /\ new.at = "write" /\ new.call = op[t].call
  BY <1>1 DEF OpType
<1>4. RemembersOK(new)
  BY <1>1, <1>2, <1>3 DEF SectionOK, RemembersOK
<1>5. ~RanUnrecorded(t) /\ trail' \in [Ids -> Seq(Outcomes \cup {"parked"})]
  BY <1>2 DEF RanUnrecorded, IInv, TypeOK
<1> HIDE DEF new
<1> QED
  BY <1>2, <1>3, <1>4, <1>5, QuietMove

(* What the review calls waiting is what the store has pending. *)
LEMMA WaitingArePending ==
  ASSUME IInv
  PROVE  /\ Review!Waiting = Pending
         /\ \A i \in Pending : i \in Ids /\ ReviewStatus[i] = "pending"
  BY DEF Review!Waiting, Pending, ReviewStatus, Status, IInv, TypeOK

(* A step is parked under a new id, and only when no twin is pending. *)
LEMMA ParkWritesKeeps ==
  ASSUME IInv, NEW t \in Tasks, ParkWrites(t)
  PROVE  IInv' /\ Abstracted
<1> DEFINE new == [op[t] EXCEPT !.at = "parked", !.id = nextId]
           step == [call |-> op[t].call, state |-> "pending", age |-> 0]
<1>1. /\ op \in [Tasks -> OpType] /\ op[t] \in OpType /\ SectionOK(t)
      /\ nextId \in Ids /\ \A i \in DOMAIN store : i < nextId
  <2>1. SectionOK(t) /\ op[t].at = "write"
    BY DEF IInv, SectionInv, ParkWrites, InSection
  <2>2. nextId <= MaxParks
    BY <2>1 DEF SectionOK, RemembersOK
  <2> QED
    BY <2>1, <2>2, ParkAssumption DEF IInv, TypeOK, SectionInv, Ids
<1>2. /\ lock = t /\ lock' = t /\ op[t].at = "write"
      /\ op' = [op EXCEPT ![t] = new]
      /\ store' = [j \in DOMAIN store \cup {nextId} |->
                     IF j = nextId THEN step ELSE store[j]]
      /\ nextId' = nextId + 1
      /\ Twin(op[t].call) = {}
      /\ Cardinality(Pending) < MaxPending
      /\ UNCHANGED <<trail, executed, lost, faults>>
  BY OnlyHolder, <1>1 DEF ParkWrites, InSection, Put, SectionOK, RemembersOK
<1>3. step \in StepType /\ op[t].call \in Calls
  BY <1>1, <1>2, ParkAssumption DEF SectionOK, RemembersOK, StepType
<1>4. new \in OpType /\ new.at = "parked" /\ new.id = nextId
  BY <1>1 DEF OpType
<1>5. SectionOK(t)'
  <2>1. op'[t] = new
    BY <1>1, <1>2
  <2> QED
    BY <2>1, <1>1, <1>4 DEF SectionOK, RemembersOK
<1>6. /\ nextId \notin DOMAIN store
      /\ DOMAIN store' = DOMAIN store \cup {nextId}
      /\ store'[nextId] = step /\ step.state = "pending" /\ step.call = op[t].call
      /\ \A j \in DOMAIN store : store'[j] = store[j]
  BY <1>1, <1>2 DEF Ids
<1>7. TypeOK' /\ SectionInv'
  <2>1. nextId' \in 1 .. MaxParks + 1
    BY <1>1, <1>2, ParkAssumption DEF Ids
  <2>2. DOMAIN store' \subseteq Ids
    BY <1>1, <1>6 DEF IInv, TypeOK
  <2>3. \A i \in DOMAIN store' : store'[i] \in StepType /\ i < nextId'
    BY <1>1, <1>2, <1>3, <1>6 DEF IInv, TypeOK, Ids
  <2> HIDE DEF new, step
  <2> QED
    BY <1>2, <1>4, <1>5, <2>1, <2>2, <2>3, WriteStep
<1> HIDE DEF new, step
<1>8. RunInv'
  <2>1. ~RanUnrecorded(t) /\ \A u \in Tasks : ~RanUnrecorded(u)
    BY OnlyHolder, <1>2 DEF RanUnrecorded
  <2>2. executed[nextId] <= lost[nextId]
    BY <1>1, <1>2, <2>1, NothingRunning
  <2>3. ASSUME NEW i \in Ids PROVE RunOK(i)'
    <3>1. RunOK(i) /\ i \in Nat /\ nextId \in Nat
          /\ executed[i] \in Nat /\ lost[i] \in Nat
      BY <1>1 DEF IInv, RunInv, TypeOK, Ids
    <3> QED
      BY <3>1, <2>1, <2>2, <1>2, <1>6 DEF RunOK
  <2> QED
    BY <1>2, <2>3 DEF RunInv
<1>9. NoTwinsWaiting'
  <2>1. Pending' = Pending \cup {nextId}
    BY <1>6 DEF Pending
  <2>2. \A i \in Pending : store'[i].call # op[t].call
    BY <1>2, <1>6 DEF Twin, Pending
  <2> QED
    BY <2>1, <2>2, <1>6 DEF IInv, NoTwinsWaiting, Pending
<1>10. Review!Park(nextId)
  <2>1. ReviewStatus[nextId] = "absent"
    BY <1>1, <1>6 DEF ReviewStatus, Status, Ids
  <2>2. ReviewStatus' = [ReviewStatus EXCEPT ![nextId] = "pending"]
    <3>1. ASSUME NEW i \in Ids
          PROVE  Status(i)' = IF i = nextId THEN "pending" ELSE Status(i)
      BY <1>1, <1>2, <1>6 DEF Status, Ids
    <3> QED
      BY <3>1, <1>1 DEF ReviewStatus
  <2>3. Review!Cardinality(Review!Waiting) < MaxPending
    <3>1. Review!Cardinality(Pending) = Cardinality(Pending)
      BY DEF Review!Cardinality, Cardinality
    <3> QED
      BY <1>2, <3>1, WaitingArePending
  <2> QED
    BY <2>1, <2>2, <2>3, <1>1 DEF Review!Park
<1> QED
  BY <1>1, <1>7, <1>8, <1>9, <1>10 DEF IInv, Abstracted, Review!Next

(* A pending step takes its outcome. *)
LEMMA OutcomeWritten ==
  ASSUME IInv, NEW t \in Tasks, lock = t, lock' = t, NEW new \in OpType,
         op' = [op EXCEPT ![t] = new],
         NEW i \in Pending, NEW state \in Outcomes, Resolve(i, state),
         UNCHANGED <<nextId, trail, executed, lost, faults>>,
         SectionOK(t)', ~RanUnrecorded(t)',
         RanUnrecorded(t) => op[t].id = i /\ state \in {"approved", "failed"}
  PROVE  IInv' /\ Abstracted
<1> DEFINE step == [store[i] EXCEPT !.state = state, !.age = 0]
<1>1. /\ i \in Ids /\ i \in DOMAIN store /\ store[i] \in StepType
      /\ store[i].state = "pending"
      /\ DOMAIN store \subseteq Ids
  BY DEF IInv, TypeOK, Pending
<1>2. /\ step \in StepType /\ step.call = store[i].call /\ step.state = state
      /\ state # "pending"
  <2>1. 0 \in 0 .. Expiry + 1
    BY ParkAssumption
  <2>2. step \in StepType
    BY <1>1, <2>1 DEF StepType
  <2> QED
    BY <1>1, <2>2 DEF StepType, Outcomes
<1>3. /\ DOMAIN store' = DOMAIN store
      /\ store'[i] = step
      /\ \A j \in DOMAIN store : j # i => store'[j] = store[j]
  BY <1>1 DEF Resolve, Put
<1> HIDE DEF step
<1>4. Pending' = Pending \ {i}
  BY <1>1, <1>2, <1>3 DEF Pending
<1>5. TypeOK' /\ SectionInv'
  <2>1. nextId' \in 1 .. MaxParks + 1
    BY DEF IInv, TypeOK
  <2>2. \A j \in DOMAIN store' : store'[j] \in StepType /\ j < nextId'
    BY <1>2, <1>3 DEF IInv, TypeOK, SectionInv
  <2> QED
    BY <1>1, <1>3, <2>1, <2>2, WriteStep
<1>6. RunInv'
  <2>1. \A u \in Tasks : RanUnrecorded(u) => u = t
    BY OnlyHolder DEF RanUnrecorded
  <2>2. ASSUME NEW j \in Ids PROVE RunOK(j)'
    <3>1. RunOK(j) /\ executed[j] \in Nat /\ lost[j] \in Nat
      BY DEF IInv, RunInv, TypeOK
    <3>2. CASE j = i
      <4>1. CASE RanUnrecorded(t)
        BY <3>1, <3>2, <4>1, <1>1, <1>2, <1>3 DEF RunOK
      <4>2. CASE ~RanUnrecorded(t)
        BY <3>1, <3>2, <4>2, <1>1, NothingRunning DEF RunOK
      <4> QED
        BY <4>1, <4>2
    <3>3. CASE j # i
      BY <3>1, <3>3, <2>1, <1>3 DEF RunOK
    <3> QED
      BY <3>2, <3>3
  <2> QED
    BY <2>2 DEF RunInv
<1>7. NoTwinsWaiting'
  BY <1>3, <1>4, FewerTwins DEF Pending
<1>8. Review!Resolve(i, state)
  <2>1. ReviewStatus[i] = "pending"
    BY WaitingArePending
  <2>2. ASSUME NEW j \in Ids
        PROVE  Status(j)' = IF j = i THEN state ELSE Status(j)
    BY <1>1, <1>2, <1>3 DEF Status
  <2>3. ReviewStatus' = [ReviewStatus EXCEPT ![i] = state]
    BY <2>2, <1>1 DEF ReviewStatus
  <2> QED
    BY <2>1, <2>3 DEF Review!Resolve
<1> QED
  BY <1>1, <1>5, <1>6, <1>7, <1>8
  DEF IInv, Abstracted, Review!Next, Review!Outcome, Outcomes

(* A lapse resolves one pending step and leaves the rest due. *)
LEMMA LapseKeeps ==
  ASSUME IInv, NEW t \in Tasks, NEW i \in Ids, Lapse(t, i)
  PROVE  IInv' /\ Abstracted
<1> DEFINE new == [op[t] EXCEPT !.due = @ \ {i}, !.lapsing = i, !.at = "lapsed"]
<1>1. /\ op \in [Tasks -> OpType] /\ op[t] \in OpType /\ SectionOK(t)
  BY DEF IInv, TypeOK, SectionInv
<1>2. /\ lock = t /\ lock' = t /\ op[t].at = "tidy" /\ i \in op[t].due
      /\ op' = [op EXCEPT ![t] = new]
      /\ Resolve(i, "lapsed")
      /\ UNCHANGED <<nextId, trail, executed, lost, faults>>
  BY OnlyHolder, <1>1 DEF Lapse, InSection
<1>3. /\ new \in OpType /\ new.at = "lapsed" /\ new.lapsing = i
      /\ new.due = op[t].due \ {i}
  BY <1>1 DEF OpType
<1>4. op[t].due \subseteq Pending
  BY <1>1, <1>2 DEF SectionOK, RemembersOK
<1>5. op'[t] = new
  BY <1>1, <1>2
<1> HIDE DEF new
<1>6. op[t].due \ {i} \subseteq Pending'
  BY <1>2, <1>4 DEF Resolve, Put, Pending
<1>7. SectionOK(t)'
  BY <1>3, <1>5, <1>6 DEF SectionOK, RemembersOK
<1>8. ~RanUnrecorded(t)' /\ ~RanUnrecorded(t)
  BY <1>2, <1>3, <1>5 DEF RanUnrecorded
<1>9. "lapsed" \in Outcomes
  BY DEF Outcomes
<1> QED
  BY <1>2, <1>3, <1>4, <1>7, <1>8, <1>9, OutcomeWritten

(* A recorded outcome pays for the run it records. *)
LEMMA RecordKeeps ==
  ASSUME IInv, NEW t \in Tasks, Record(t)
  PROVE  IInv' /\ Abstracted
<1> DEFINE new == [op[t] EXCEPT !.at = "recorded"]
<1>1. /\ op \in [Tasks -> OpType] /\ op[t] \in OpType /\ SectionOK(t)
      /\ Pending \subseteq Ids
  BY DEF IInv, TypeOK, SectionInv, Pending
<1>2. /\ lock = t /\ lock' = t /\ op[t].at = "record"
      /\ op' = [op EXCEPT ![t] = new]
      /\ Resolve(op[t].id, op[t].outcome)
      /\ UNCHANGED <<nextId, trail, executed, lost, faults>>
  BY OnlyHolder, <1>1 DEF Record, InSection
<1>3. /\ op[t].id \in Pending /\ op[t].id \in Ids
      /\ op[t].outcome \in Outcomes /\ op[t].outcome # "lapsed"
  BY <1>1, <1>2 DEF SectionOK, RemembersOK
<1>4. /\ new \in OpType /\ new.at = "recorded" /\ new.id = op[t].id
      /\ new.outcome = op[t].outcome
  BY <1>1 DEF OpType
<1>5. op'[t] = new
  BY <1>1, <1>2
<1> HIDE DEF new
<1>6. SectionOK(t)'
  BY <1>3, <1>4, <1>5 DEF SectionOK, RemembersOK
<1>7. ~RanUnrecorded(t)'
  BY <1>4, <1>5 DEF RanUnrecorded
<1>8. RanUnrecorded(t) => op[t].outcome \in {"approved", "failed"}
  BY <1>2, <1>3 DEF RanUnrecorded, Outcomes
<1> QED
  BY <1>2, <1>3, <1>4, <1>6, <1>7, <1>8, OutcomeWritten

(* Only resolved steps are dropped. *)
LEMMA DropKeeps ==
  ASSUME IInv, NEW t \in Tasks, NEW i \in Ids, Drop(t, i)
  PROVE  IInv' /\ Abstracted
<1>1. /\ op \in [Tasks -> OpType] /\ op[t] \in OpType /\ SectionOK(t)
      /\ DOMAIN store \subseteq Ids /\ store[i] \in StepType
      /\ i \in DOMAIN store /\ i \notin Pending
  BY DEF IInv, TypeOK, SectionInv, Drop, Droppable, Resolved
<1>2. /\ lock = t /\ lock' = t /\ op[t].at = "tidy" /\ op[t].due = {}
      /\ op' = op
      /\ DOMAIN store' = DOMAIN store \ {i}
      /\ \A j \in DOMAIN store' : store'[j] = store[j]
      /\ UNCHANGED <<nextId, trail, executed, lost, faults>>
  BY OnlyHolder DEF Drop, InSection
<1>3. Pending' = Pending
  BY <1>1, <1>2 DEF Pending
<1>4. SectionOK(t)'
  BY <1>1, <1>2, <1>3 DEF SectionOK, RemembersOK
<1>5. TypeOK' /\ SectionInv'
  <2>1. op' = [op EXCEPT ![t] = op[t]]
    BY <1>1, <1>2
  <2>2. nextId' \in 1 .. MaxParks + 1
    BY <1>2 DEF IInv, TypeOK
  <2>3. \A j \in DOMAIN store' : store'[j] \in StepType /\ j < nextId'
    BY <1>1, <1>2 DEF IInv, TypeOK, SectionInv
  <2> QED
    BY <1>1, <1>2, <1>4, <2>1, <2>2, <2>3, WriteStep
<1>6. RunInv'
  <2>1. \A u \in Tasks : ~RanUnrecorded(u)
    BY OnlyHolder, <1>2 DEF RanUnrecorded
  <2>2. i < nextId
    BY <1>1 DEF IInv, SectionInv
  <2>3. ASSUME NEW j \in Ids PROVE RunOK(j)'
    <3>1. RunOK(j)
      BY DEF IInv, RunInv
    <3> QED
      BY <3>1, <2>1, <2>2, <1>1, <1>2 DEF RunOK
  <2> QED
    BY <2>3 DEF RunInv
<1>7. NoTwinsWaiting'
  BY <1>2, <1>3, FewerTwins DEF Pending
<1>8. Review!Forget(i)
  <2>1. ReviewStatus[i] \in Outcomes
    BY <1>1 DEF ReviewStatus, Status, Pending, StepType
  <2>2. ASSUME NEW j \in Ids
        PROVE  Status(j)' = IF j = i THEN "forgotten" ELSE Status(j)
    BY <1>1, <1>2 DEF Status, IInv, SectionInv
  <2>3. ReviewStatus' = [ReviewStatus EXCEPT ![i] = "forgotten"]
    BY <2>2 DEF ReviewStatus
  <2> QED
    BY <2>1, <2>3 DEF Review!Forget, Review!Outcome, Outcomes
<1> QED
  BY <1>5, <1>6, <1>7, <1>8 DEF IInv, Abstracted, Review!Next

(* A run starts for a pending step that its task has just approved. *)
LEMMA RunStartsKeeps ==
  ASSUME IInv, NEW t \in Tasks, RunStarts(t)
  PROVE  IInv' /\ UNCHANGED ReviewStatus
<1> DEFINE new == [op[t] EXCEPT !.at = "running"]
<1>1. /\ op \in [Tasks -> OpType] /\ op[t] \in OpType /\ SectionOK(t)
      /\ Pending \subseteq Ids /\ executed \in [Ids -> Nat] /\ lost \in [Ids -> Nat]
  BY DEF IInv, TypeOK, SectionInv, Pending
<1>2. /\ lock = t /\ lock' = t /\ op[t].at = "decide" /\ op[t].id \in Pending
      /\ op' = [op EXCEPT ![t] = new]
      /\ executed' = [executed EXCEPT ![op[t].id] = executed[op[t].id] + 1]
      /\ UNCHANGED <<store, nextId, trail, lost, faults>>
  BY OnlyHolder, <1>1 DEF RunStarts, InSection
<1>3. new \in OpType /\ new.at = "running" /\ new.id = op[t].id
  BY <1>1 DEF OpType
<1>4. op'[t] = new
  BY <1>1, <1>2
<1> HIDE DEF new
<1>5. SectionOK(t)'
  BY <1>2, <1>3, <1>4 DEF SectionOK, RemembersOK, Pending
<1>6. RunInv'
  <2>1. ~RanUnrecorded(t) /\ \A u \in Tasks : ~RanUnrecorded(u)
    BY OnlyHolder, <1>2 DEF RanUnrecorded
  <2>2. RanUnrecorded(t)' /\ op'[t].id = op[t].id
    BY <1>2, <1>3, <1>4 DEF RanUnrecorded
  <2>3. executed[op[t].id] <= lost[op[t].id]
    BY <1>1, <1>2, <2>1, NothingRunning
  <2>4. ASSUME NEW j \in Ids PROVE RunOK(j)'
    <3>1. RunOK(j) /\ executed[j] \in Nat /\ lost[j] \in Nat
      BY <1>1 DEF IInv, RunInv
    <3>2. CASE j = op[t].id
      <4>1. executed'[j] = executed[j] + 1
        BY <1>1, <1>2, <3>2
      <4> QED
        BY <3>1, <3>2, <4>1, <2>2, <2>3, <1>2 DEF RunOK
    <3>3. CASE j # op[t].id
      <4>1. executed'[j] = executed[j]
        BY <1>1, <1>2, <3>3
      <4> QED
        BY <3>1, <4>1, <2>1, <1>2 DEF RunOK
    <3> QED
      BY <3>2, <3>3
  <2> QED
    BY <2>4 DEF RunInv
<1>7. /\ trail' \in [Ids -> Seq(Outcomes \cup {"parked"})]
      /\ faults' \in 0 .. MaxFaults
      /\ executed' \in [Ids -> Nat] /\ lost' \in [Ids -> Nat]
  BY <1>1, <1>2 DEF IInv, TypeOK
<1> QED
  BY <1>2, <1>3, <1>5, <1>6, <1>7, QuietStep

-----------------------------------------------------------------------------
(* Failures, crashes and time *)

(* Runs after a fault: the one under way is counted as lost. *)
LEMMA FaultRuns ==
  ASSUME IInv, NEW t \in Tasks, lock = t, Lose(t),
         UNCHANGED <<store, nextId, executed>>
  PROVE  RunInv' /\ lost' \in [Ids -> Nat]
<1>1. /\ executed \in [Ids -> Nat] /\ lost \in [Ids -> Nat]
      /\ \A u \in Tasks : RanUnrecorded(u) => u = t
      /\ RanUnrecorded(t) => op[t].id \in Ids
  BY OnlyHolder DEF IInv, TypeOK, SectionInv, SectionOK, RemembersOK, RanUnrecorded, Pending
<1>2. /\ lost' \in [Ids -> Nat]
      /\ \A j \in Ids : lost'[j] >= lost[j]
      /\ RanUnrecorded(t) => lost'[op[t].id] = lost[op[t].id] + 1
  <2>1. CASE RanUnrecorded(t)
    <3>1. lost' = [lost EXCEPT ![op[t].id] = lost[op[t].id] + 1]
      BY <2>1 DEF Lose
    <3> QED
      BY <2>1, <3>1, <1>1
  <2>2. CASE ~RanUnrecorded(t)
    BY <2>2, <1>1 DEF Lose
  <2> QED
    BY <2>1, <2>2
<1>3. ASSUME NEW j \in Ids PROVE RunOK(j)'
  <2>1. RunOK(j) /\ executed[j] \in Nat /\ lost[j] \in Nat /\ lost'[j] \in Nat
    BY <1>1, <1>2 DEF IInv, RunInv
  <2>2. lost'[j] >= lost[j]
    BY <1>2
  <2>3. RanUnrecorded(t) /\ op[t].id = j => lost'[j] = lost[j] + 1
    BY <1>2
  <2> QED
    BY <2>1, <2>2, <2>3, <1>1 DEF RunOK
<1> QED
  BY <1>2, <1>3 DEF RunInv

(* A failed write ends the operation and loses the run's outcome, if any. *)
LEMMA StorageFailsKeeps ==
  ASSUME IInv, NEW t \in Tasks, StorageFails(t)
  PROVE  IInv' /\ UNCHANGED ReviewStatus
<1>1. /\ lock = t /\ lock' = NoTask /\ op' = [op EXCEPT ![t] = Idle]
      /\ UNCHANGED <<store, nextId, trail, executed>>
      /\ Lose(t)
  BY OnlyHolder DEF StorageFails, Return
<1>2. /\ trail' \in [Ids -> Seq(Outcomes \cup {"parked"})]
      /\ faults' \in 0 .. MaxFaults /\ executed' \in [Ids -> Nat]
  BY <1>1, ParkAssumption DEF IInv, TypeOK, StorageFails, Fault
<1>3. RunInv' /\ lost' \in [Ids -> Nat]
  BY <1>1, FaultRuns
<1>4. SectionOK(t)'
  BY <1>1, IdleSection DEF IInv, TypeOK
<1> QED
  BY <1>1, <1>2, <1>3, <1>4, IdleType, QuietStep

(* A crash ends every operation and loses the outcome of a run under way. *)
LEMMA CrashKeeps ==
  ASSUME IInv, Crash
  PROVE  IInv' /\ UNCHANGED ReviewStatus
<1>1. /\ lock' = NoTask /\ \A u \in Tasks : op'[u] = Idle
      /\ op' = [u \in Tasks |-> Idle]
      /\ UNCHANGED <<store, nextId, trail, executed>>
  BY DEF Crash
<1>2. faults' \in 0 .. MaxFaults
  BY ParkAssumption DEF IInv, TypeOK, Crash, Fault
<1>3. RunInv' /\ lost' \in [Ids -> Nat]
  <2>1. CASE lock = NoTask
    <3>1. lost' = lost /\ \A u \in Tasks : ~RanUnrecorded(u)
      BY OnlyHolder, <2>1, ParkAssumption DEF Crash, RanUnrecorded
    <3>2. ASSUME NEW j \in Ids PROVE RunOK(j)'
      <4>1. RunOK(j)
        BY DEF IInv, RunInv
      <4> QED
        BY <4>1, <3>1, <1>1 DEF RunOK
    <3> QED
      BY <3>1, <3>2 DEF RunInv, IInv, TypeOK
  <2>2. CASE lock \in Tasks
    BY <2>2, <1>1, ParkAssumption, FaultRuns DEF Crash
  <2> QED
    BY <2>1, <2>2 DEF IInv, TypeOK
<1>4. TypeOK'
  BY <1>1, <1>2, <1>3, IdleType DEF IInv, TypeOK
<1>5. SectionInv'
  <2>1. \A u \in Tasks : SectionOK(u)'
    BY <1>1, IdleSection
  <2> QED
    BY <2>1, <1>1 DEF IInv, SectionInv
<1>6. NoTwinsWaiting' /\ UNCHANGED ReviewStatus
  BY <1>1 DEF IInv, NoTwinsWaiting, Pending, ReviewStatus, Status
<1> QED
  BY <1>3, <1>4, <1>5, <1>6 DEF IInv

(* The clock ages steps and changes no state of theirs. *)
LEMMA TickKeeps ==
  ASSUME IInv, Tick
  PROVE  IInv' /\ UNCHANGED ReviewStatus
<1>1. /\ DOMAIN store' = DOMAIN store
      /\ \A i \in DOMAIN store :
           store'[i] = [store[i] EXCEPT !.age = IF @ > Expiry THEN @ ELSE @ + 1]
      /\ UNCHANGED <<nextId, lock, op, trail, executed, lost, faults>>
  BY DEF Tick
<1>2. \A i \in DOMAIN store :
        /\ store'[i] \in StepType
        /\ store'[i].state = store[i].state /\ store'[i].call = store[i].call
  BY <1>1, ParkAssumption DEF IInv, TypeOK, StepType
<1>3. Pending' = Pending
  BY <1>1, <1>2 DEF Pending
<1>4. TypeOK'
  BY <1>1, <1>2 DEF IInv, TypeOK
<1>5. SectionInv'
  <2>1. ASSUME NEW u \in Tasks PROVE SectionOK(u)'
    <3>1. SectionOK(u)
      BY DEF IInv, SectionInv
    <3>2. Twin(op[u].call)' = Twin(op[u].call)
      BY <1>1, <1>2, <1>3 DEF Twin, Pending
    <3> QED
      BY <3>1, <3>2, <1>1, <1>3 DEF SectionOK, RemembersOK
  <2> QED
    BY <2>1, <1>1 DEF IInv, SectionInv
<1>6. RunInv'
  <2>1. ASSUME NEW j \in Ids PROVE RunOK(j)'
    <3>1. RunOK(j)
      BY DEF IInv, RunInv
    <3> QED
      BY <3>1, <1>1, <1>2 DEF RunOK, RanUnrecorded
  <2> QED
    BY <2>1 DEF RunInv
<1>7. NoTwinsWaiting'
  BY <1>2, <1>3, FewerTwins DEF Pending
<1>8. UNCHANGED ReviewStatus
  <2>1. ASSUME NEW j \in Ids PROVE Status(j)' = Status(j)
    BY <1>1, <1>2 DEF Status
  <2> QED
    BY <2>1 DEF ReviewStatus
<1> QED
  BY <1>4, <1>5, <1>6, <1>7, <1>8 DEF IInv

-----------------------------------------------------------------------------
(* The theorems *)

(* Every step keeps the invariant and is a step of the review or none. *)
LEMMA NextKeeps ==
  ASSUME IInv, [Next]_vars
  PROVE  IInv' /\ [Review!Next]_ReviewStatus
<1>1. ASSUME NEW t \in Tasks, Step(t)
      PROVE  IInv' /\ Abstracted
  <2>1. CASE ParkSkips(t) \/ ParkAudits(t) \/ NotPending(t)
    BY <2>1, ReturnsKeep DEF Abstracted
  <2>2. CASE LapseAudits(t) \/ TidyDone(t) \/ RecordAudits(t)
    BY <2>2, LapseAuditsKeeps, TidyDoneKeeps, RecordAuditsKeeps DEF Abstracted
  <2>3. CASE \/ Deny(t) \/ RunRefused(t)
             \/ \E outcome \in {"approved", "failed"} : RunEnds(t, outcome)
    BY <2>3, OutcomeKeeps DEF Abstracted
  <2>4. CASE ParkWrites(t) \/ Record(t)
    BY <2>4, ParkWritesKeeps, RecordKeeps
  <2>7. CASE ParkReads(t)
    BY <2>7, ParkReadsKeeps DEF Abstracted
  <2>5. CASE \E i \in Ids : Lapse(t, i) \/ Drop(t, i)
    BY <2>5, LapseKeeps, DropKeeps
  <2>6. CASE RunStarts(t)
    BY <2>6, RunStartsKeeps DEF Abstracted
  <2> QED
    BY <1>1, <2>1, <2>2, <2>3, <2>4, <2>5, <2>6, <2>7 DEF Step
<1>2. CASE \E t \in Tasks \ {Sweeper} :
             \/ \E c \in Calls : Park(t, c)
             \/ \E i \in Ids, approve \in BOOLEAN : Decide(t, i, approve)
  BY <1>2, EnterKeeps DEF Abstracted
<1>3. CASE Sweep(Sweeper)
  BY <1>3, EnterKeeps, ParkAssumption DEF Abstracted
<1>4. CASE \E t \in Tasks : Step(t) \/ StorageFails(t)
  BY <1>4, <1>1, StorageFailsKeeps DEF Abstracted
<1>5. CASE Crash \/ Tick
  BY <1>5, CrashKeeps, TickKeeps DEF Abstracted
<1>6. CASE UNCHANGED vars
  <2>1. UNCHANGED <<store, nextId, lock, op, trail, executed, lost, faults>>
    BY <1>6 DEF vars
  <2>2. TypeOK' /\ NoTwinsWaiting'
    BY <2>1 DEF IInv, TypeOK, NoTwinsWaiting, Pending
  <2>3. SectionInv'
    BY <2>1 DEF IInv, SectionInv, SectionOK, RemembersOK, Twin, Pending
  <2>4. RunInv'
    BY <2>1 DEF IInv, RunInv, RunOK, RanUnrecorded
  <2>5. UNCHANGED ReviewStatus
    BY <2>1 DEF ReviewStatus, Status
  <2> QED
    BY <2>2, <2>3, <2>4, <2>5 DEF IInv
<1> QED
  BY <1>2, <1>3, <1>4, <1>5, <1>6 DEF Next, Abstracted

(* The inductive invariant holds in every state. *)
THEOREM Invariance == Spec => []IInv
<1>1. Init => IInv
  BY InitIInv
<1>2. IInv /\ [Next]_vars => IInv'
  BY NextKeeps
<1> QED
  BY <1>1, <1>2, PTL DEF Spec

(* What a task remembers and what the store holds keep their shape through *)
(* every operation, failure and restart.                                   *)
THEOREM TypeCorrect == Spec => []TypeOK
<1>1. IInv => TypeOK
  BY DEF IInv
<1> QED
  BY <1>1, Invariance, PTL

(* However many runs park at once, no two identical calls wait. *)
THEOREM NoTwins == Spec => []NoTwinsWaiting
<1>1. IInv => NoTwinsWaiting
  BY DEF IInv
<1> QED
  BY <1>1, Invariance, PTL

(* Every run of a step beyond the first is paid for by an outcome that a   *)
(* crash or a failed write lost, and what ran was approved.                *)
THEOREM RunsApproved == Spec => []RunsOnlyIfApproved
<1>1. IInv => RunsOnlyIfApproved
  BY DEF IInv, RunInv, RunOK, RunsOnlyIfApproved
<1> QED
  BY <1>1, Invariance, PTL

(* The stored steps are the review queue: a step waits, takes one final    *)
(* outcome, and only then is forgotten.                                    *)
THEOREM Implements == Spec => ImplementsReview
<1>1. Init => Review!Init
  <2>1. ASSUME Init, NEW i \in Ids PROVE Status(i) = "absent"
    BY <2>1 DEF Init, Status, Ids
  <2> QED
    BY <2>1 DEF Review!Init, ReviewStatus
<1>2. IInv /\ [Next]_vars => [Review!Next]_ReviewStatus
  BY NextKeeps
<1> QED
  BY <1>1, <1>2, Invariance, PTL DEF Spec, ImplementsReview, Review!Spec
-----------------------------------------------------------------------------
(* The audit trail.  Every outcome is written first and told next, by the  *)
(* same holder of the lock: until then nothing of the step is told, and    *)
(* once it is told the step is not pending any more.                       *)

TrailOK(i) ==
  /\ i >= nextId => trail[i] = <<>>
  /\ i \in Pending => Told(i) = {}
  /\ \A m \in DOMAIN trail[i] \ Told(i) : m = 1
  /\ \A m, n \in Told(i) : m = n
  /\ i \in DOMAIN store => \A m \in Told(i) : store[i].state = trail[i][m]

(* What the holder still has to tell. *)
Untold(i, state) ==
  Told(i) = {} /\ i \in DOMAIN store /\ store[i].state = state

OwesOK(o) ==
  /\ o.at = "parked" => o.id < nextId /\ trail[o.id] = <<>>
  /\ o.at = "lapsed" => Untold(o.lapsing, "lapsed")
  /\ o.at = "recorded" => Untold(o.id, o.outcome)

TrailInv == /\ \A i \in Ids : TrailOK(i)
            /\ \A t \in Tasks : OwesOK(op[t])

TrailIInv == IInv /\ TrailInv

Tells == {"parked", "lapsed", "recorded"}

(* A task that is at no point of telling owes the trail nothing. *)
LEMMA OwesNothing ==
  ASSUME NEW o, o.at \notin Tells
  PROVE  OwesOK(o)
  BY DEF OwesOK, Tells

(* A step that writes neither trail nor outcome leaves the trail right if  *)

(* the task it moves has nothing to tell afterwards.                       *)
LEMMA TrailKept ==
  ASSUME IInv, TrailInv, NEW t \in Tasks, UNCHANGED <<trail, nextId>>,
         op' = [op EXCEPT ![t] = op'[t]], op'[t].at \notin Tells,
         lock \in {t, NoTask},
         DOMAIN store' \subseteq DOMAIN store,
         \A i \in DOMAIN store' : store'[i].state = store[i].state
  PROVE  TrailInv'
<1>1. ASSUME NEW i \in Ids PROVE TrailOK(i)'
  <2>1. TrailOK(i)
    BY DEF TrailInv
  <2> QED
    BY <2>1 DEF TrailOK, Pending, Told
<1>2. ASSUME NEW u \in Tasks PROVE OwesOK(op[u])'
  <2>1. op'[u].at \notin Tells
    <3>1. CASE u = t
      BY <3>1
    <3>2. CASE u # t
      BY <3>2, OthersIdle DEF IInv, TypeOK, Idle, Tells
    <3> QED
      BY <3>1, <3>2
  <2> QED
    BY <2>1 DEF OwesOK, Tells
<1> QED
  BY <1>1, <1>2 DEF TrailInv

(* Operations that begin, return, move on or fail tell nothing. *)
LEMMA QuietTrail ==
  ASSUME IInv, TrailInv, NEW t \in Tasks,
         \/ \E c \in Calls : Park(t, c)
         \/ \E i \in Ids, approve \in BOOLEAN : Decide(t, i, approve)
         \/ Sweep(t) \/ ParkSkips(t) \/ ParkReads(t) \/ TidyDone(t) \/ NotPending(t)
         \/ Deny(t) \/ RunRefused(t) \/ RunStarts(t)
         \/ \E outcome \in {"approved", "failed"} : RunEnds(t, outcome)
         \/ StorageFails(t)
  PROVE  TrailInv'
<1>1. op \in [Tasks -> OpType] /\ op[t] \in OpType /\ Expired \subseteq Ids
  BY DEF IInv, TypeOK, Expired, Pending
<1>2. UNCHANGED <<trail, nextId, store>> /\ lock \in {t, NoTask}
  BY OnlyHolder DEF Park, Decide, Sweep, Enter, ParkSkips, ParkReads, TidyDone, NotPending, Deny,
         RunRefused, RunStarts, RunEnds, StorageFails, InSection
<1>3. op' = [op EXCEPT ![t] = op'[t]] /\ op'[t].at \notin Tells
  <2>1. ASSUME NEW new \in OpType, Enter(t, new), new.at \notin Tells
        PROVE  op' = [op EXCEPT ![t] = op'[t]] /\ op'[t].at \notin Tells
    BY <2>1, <1>1 DEF Enter
  <2>2. CASE \E c \in Calls : Park(t, c)
    <3>1. PICK c \in Calls : Park(t, c)
      BY <2>2
    <3> DEFINE new == [Idle EXCEPT !.at = "park", !.kind = "park", !.call = c]
    <3>2. new \in OpType /\ new.at \notin Tells
      BY IdleType DEF OpType, Idle, Tells
    <3> QED
      BY <3>1, <3>2, <2>1 DEF Park
  <2>3. ASSUME NEW i \in Ids, NEW approve \in BOOLEAN, Decide(t, i, approve)
        PROVE  op' = [op EXCEPT ![t] = op'[t]] /\ op'[t].at \notin Tells
    <3> DEFINE new == [Idle EXCEPT !.at = "tidy", !.kind = "resolve", !.id = i,
                                   !.approve = approve, !.due = Expired]
    <3>1. Expired \subseteq Ids
      BY <1>1
    <3>2. new \in OpType /\ new.at = "tidy"
      BY <3>1, IdleType DEF OpType, Idle
    <3>3. new.at \notin Tells
      BY <3>2 DEF Tells
    <3> QED
      BY <2>3, <3>2, <3>3, <2>1 DEF Decide
  <2>4. CASE Sweep(t)
    <3> DEFINE new == [Idle EXCEPT !.at = "tidy", !.kind = "sweep", !.due = Expired]
    <3>1. new \in OpType /\ new.at \notin Tells
      BY <1>1, IdleType DEF OpType, Idle, Tells
    <3> QED
      BY <2>4, <3>1, <2>1 DEF Sweep
  <2>5. CASE ParkSkips(t) \/ NotPending(t) \/ StorageFails(t)
    BY <2>5, <1>1 DEF ParkSkips, NotPending, StorageFails, Return, Idle, Tells
  <2>6. CASE TidyDone(t)
    <3>1. CASE op' = [op EXCEPT ![t] = Idle]
      BY <3>1, <1>1 DEF Idle, Tells
    <3>2. CASE op' = [op EXCEPT ![t] = [op[t] EXCEPT !.at = "decide"]]
      BY <3>2, <1>1 DEF OpType, Tells
    <3> QED
      BY <2>6, <1>1, <3>1, <3>2 DEF TidyDone, Return, Goto
  <2>7. CASE Deny(t)
    BY <2>7, <1>1 DEF Deny, OpType, Tells
  <2>8. CASE RunRefused(t) \/ RunStarts(t)
    BY <2>8, <1>1 DEF RunRefused, RunStarts, OpType, Tells
  <2>9. CASE \E outcome \in {"approved", "failed"} : RunEnds(t, outcome)
    <3>1. PICK outcome \in {"approved", "failed"} : RunEnds(t, outcome)
      BY <2>9
    <3> QED
      BY <3>1, <1>1 DEF RunEnds, OpType, Tells
  <2>10. CASE ParkReads(t)
    BY <2>10, <1>1 DEF ParkReads, Goto, OpType, Tells
  <2> QED
    BY <2>2, <2>3, <2>4, <2>5, <2>6, <2>7, <2>8, <2>9, <2>10
<1> QED
  BY <1>2, <1>3, TrailKept

(* A step is parked under an id of which nothing has been told. *)
LEMMA ParkTrail ==
  ASSUME IInv, TrailInv, NEW t \in Tasks, ParkWrites(t)
  PROVE  TrailInv'
<1>1. /\ nextId \in Ids /\ nextId' = nextId + 1 /\ nextId \in Nat
      /\ \A i \in DOMAIN store : i < nextId
      /\ op[t] \in OpType /\ op \in [Tasks -> OpType] /\ lock = t
      /\ DOMAIN store \subseteq Ids
  <2>1. SectionOK(t) /\ op[t].at = "write" /\ nextId' = nextId + 1
    BY DEF IInv, SectionInv, ParkWrites, InSection
  <2>2. nextId <= MaxParks
    BY <2>1 DEF SectionOK, RemembersOK
  <2> QED
    BY <2>1, <2>2, OnlyHolder, ParkAssumption DEF IInv, TypeOK, SectionInv, Ids
<1>2. /\ UNCHANGED trail
      /\ op'[t].at = "parked" /\ op'[t].id = nextId
      /\ \A u \in Tasks \ {t} : op'[u] = Idle
  BY <1>1, OthersIdle DEF ParkWrites, OpType
<1>3. /\ DOMAIN store' = DOMAIN store \cup {nextId}
      /\ \A i \in DOMAIN store : store'[i] = store[i]
  BY <1>1 DEF ParkWrites, Put, Ids
<1>4. trail[nextId] = <<>> /\ Told(nextId) = {}
  <2>1. TrailOK(nextId) /\ nextId >= nextId
    BY <1>1 DEF TrailInv
  <2> QED
    BY <2>1 DEF TrailOK, Told
<1>5. ASSUME NEW i \in Ids PROVE TrailOK(i)'
  <2>1. TrailOK(i) /\ i \in Nat
    BY DEF TrailInv, Ids
  <2>2. CASE i = nextId
    BY <2>1, <2>2, <1>1, <1>2, <1>4 DEF TrailOK, Told
  <2>3. CASE i # nextId
    <3>1. /\ i \in DOMAIN store' <=> i \in DOMAIN store
          /\ i \in DOMAIN store => store'[i] = store[i]
          /\ i >= nextId' => i >= nextId
      BY <2>1, <2>3, <1>1, <1>3
    <3> QED
      BY <2>1, <3>1, <1>2 DEF TrailOK, Told, Pending
  <2> QED
    BY <2>2, <2>3
<1>6. ASSUME NEW u \in Tasks PROVE OwesOK(op[u])'
  <2>1. CASE u = t
    BY <2>1, <1>1, <1>2, <1>4 DEF OwesOK
  <2>2. CASE u # t
    BY <2>2, <1>2 DEF OwesOK, Idle
  <2> QED
    BY <2>1, <2>2
<1> QED
  BY <1>5, <1>6 DEF TrailInv

(* An event is told: the first of a parking, the only one of an outcome. *)
LEMMA Telling ==
  ASSUME IInv, TrailInv, NEW t \in Tasks, lock = t, NEW i \in Ids,
         NEW event \in Outcomes \cup {"parked"}, Audit(i, event),
         UNCHANGED <<store, nextId>>, i < nextId,
         op' = [op EXCEPT ![t] = op'[t]], op'[t].at \notin Tells,
         event = "parked" => trail[i] = <<>>,
         event # "parked" => Untold(i, event) /\ event # "pending"
  PROVE  TrailInv'
<1>1. trail \in [Ids -> Seq(Outcomes \cup {"parked"})] /\ nextId \in Nat
  BY ParkAssumption DEF IInv, TypeOK
<1>2. \A j \in Ids : j # i => trail'[j] = trail[j]
  BY <1>1 DEF Audit
<1>3. trail'[i] = Append(trail[i], event)
  BY <1>1 DEF Audit
<1>4. ASSUME NEW j \in Ids PROVE TrailOK(j)'
  <2>1. TrailOK(j) /\ j \in Nat
    BY DEF TrailInv, Ids
  <2>2. CASE j # i
    <3>1. Told(j)' = Told(j) /\ trail'[j] = trail[j]
      BY <1>2, <2>2 DEF Told
    <3> QED
      BY <2>1, <3>1 DEF TrailOK, Pending
  <2>3. CASE j = i
    <3>1. /\ trail[i] \in Seq(Outcomes \cup {"parked"})
          /\ Len(trail[i]) \in Nat
          /\ DOMAIN trail[i] = 1 .. Len(trail[i])
          /\ DOMAIN trail'[i] = 1 .. Len(trail[i]) + 1
          /\ \A m \in DOMAIN trail[i] : trail'[i][m] = trail[i][m]
          /\ trail'[i][Len(trail[i]) + 1] = event
      BY <1>1, <1>3
    <3>2. CASE event = "parked"
      <4>1. Len(trail[i]) = 0
        BY <3>2
      <4>2. Told(i)' = {} /\ DOMAIN trail'[i] = {1}
        BY <3>1, <3>2, <4>1 DEF Told
      <4> QED
        BY <4>2, <2>1, <2>3, <1>1 DEF TrailOK
    <3>3. CASE event # "parked"
      <4>1. Told(i) = {} /\ i \in DOMAIN store /\ store[i].state = event /\ event # "pending"
        BY <3>3 DEF Untold
      <4>2. Told(i)' = {Len(trail[i]) + 1}
        BY <3>1, <3>3, <4>1 DEF Told
      <4>3. i \notin Pending'
        BY <4>1 DEF Pending
      <4>4. \A m \in DOMAIN trail'[i] \ Told(i)' : m = 1
        BY <2>1, <2>3, <3>1, <4>1, <4>2 DEF TrailOK
      <4>5. \A m \in Told(i)' : store'[i].state = trail'[i][m]
        BY <3>1, <4>1, <4>2
      <4> QED
        BY <2>1, <2>3, <4>2, <4>3, <4>4, <4>5, <1>1 DEF TrailOK
    <3> QED
      BY <3>2, <3>3
  <2> QED
    BY <2>2, <2>3
<1>5. ASSUME NEW u \in Tasks PROVE OwesOK(op[u])'
  <2>1. op'[u].at \notin Tells
    <3>1. CASE u = t
      BY <3>1
    <3>2. CASE u # t
      BY <3>2, OthersIdle DEF IInv, TypeOK, Idle, Tells
    <3> QED
      BY <3>1, <3>2
  <2> QED
    BY <2>1 DEF OwesOK, Tells
<1> QED
  BY <1>4, <1>5 DEF TrailInv

(* Telling an outcome tells the one that was written. *)
LEMMA AuditsTrail ==
  ASSUME IInv, TrailInv, NEW t \in Tasks,
         ParkAudits(t) \/ LapseAudits(t) \/ RecordAudits(t)
  PROVE  TrailInv'
<1>1. /\ op \in [Tasks -> OpType] /\ op[t] \in OpType /\ SectionOK(t)
      /\ OwesOK(op[t]) /\ DOMAIN store \subseteq Ids
      /\ \A i \in DOMAIN store : i < nextId
  BY DEF IInv, TypeOK, SectionInv, TrailInv
<1>2. /\ lock = t /\ UNCHANGED <<store, nextId>>
      /\ op[t].at \in Tells
  BY OnlyHolder DEF ParkAudits, LapseAudits, RecordAudits, InSection, Tells
<1>3. op' = [op EXCEPT ![t] = op'[t]] /\ op'[t].at \notin Tells
  <2>1. CASE ParkAudits(t)
    BY <2>1, <1>1 DEF ParkAudits, Return, Idle, Tells
  <2>2. CASE LapseAudits(t)
    BY <2>2, <1>1 DEF LapseAudits, OpType, Tells
  <2>3. CASE RecordAudits(t)
    BY <2>3, <1>1 DEF RecordAudits, OpType, Tells
  <2> QED
    BY <2>1, <2>2, <2>3
<1>4. CASE ParkAudits(t)
  <2>1. /\ op[t].id \in Ids /\ Audit(op[t].id, "parked")
        /\ op[t].id < nextId /\ trail[op[t].id] = <<>>
    BY <1>1, <1>4 DEF ParkAudits, InSection, OwesOK, SectionOK, RemembersOK
  <2> QED
    BY <2>1, <1>2, <1>3, Telling
<1>5. CASE LapseAudits(t)
  <2>1. /\ op[t].lapsing \in Ids /\ Audit(op[t].lapsing, "lapsed")
        /\ Untold(op[t].lapsing, "lapsed")
    BY <1>1, <1>5 DEF LapseAudits, InSection, OwesOK, SectionOK, RemembersOK
  <2>2. op[t].lapsing < nextId /\ "lapsed" \in Outcomes
    BY <2>1, <1>1 DEF Untold, Outcomes
  <2> QED
    BY <2>1, <2>2, <1>2, <1>3, Telling
<1>6. CASE RecordAudits(t)
  <2>1. /\ op[t].id \in Ids /\ Audit(op[t].id, op[t].outcome)
        /\ Untold(op[t].id, op[t].outcome) /\ op[t].outcome \in Outcomes
    BY <1>1, <1>6 DEF RecordAudits, InSection, OwesOK, SectionOK, RemembersOK
  <2>2. /\ op[t].id < nextId
        /\ op[t].outcome # "parked" /\ op[t].outcome # "pending"
    BY <2>1, <1>1 DEF Untold, Outcomes
  <2> QED
    BY <2>1, <2>2, <1>2, <1>3, Telling
<1> QED
  BY <1>4, <1>5, <1>6

(* An outcome is written for a pending step, of which nothing was told. *)
LEMMA OutcomeTrail ==
  ASSUME IInv, TrailInv, NEW t \in Tasks, Record(t) \/ \E i \in Ids : Lapse(t, i)
  PROVE  TrailInv'
<1>1. /\ op \in [Tasks -> OpType] /\ op[t] \in OpType /\ SectionOK(t) /\ lock = t
      /\ \A i \in DOMAIN store : store[i] \in StepType
      /\ UNCHANGED <<trail, nextId>>
  BY OnlyHolder DEF IInv, TypeOK, SectionInv, Record, Lapse, InSection
<1>2. PICK i \in Pending, state \in Outcomes :
        /\ Resolve(i, state)
        /\ op' = [op EXCEPT ![t] = op'[t]]
        /\ \/ op'[t].at = "recorded" /\ op'[t].id = i /\ op'[t].outcome = state
           \/ op'[t].at = "lapsed" /\ op'[t].lapsing = i /\ state = "lapsed"
  <2>1. CASE Record(t)
    <3>1. op[t].id \in Pending /\ op[t].outcome \in Outcomes
      BY <2>1, <1>1 DEF Record, InSection, SectionOK, RemembersOK
    <3>2. /\ op' = [op EXCEPT ![t] = [op[t] EXCEPT !.at = "recorded"]]
          /\ Resolve(op[t].id, op[t].outcome)
      BY <2>1, <1>1 DEF Record
    <3> QED
      BY <3>1, <3>2, <1>1 DEF OpType
  <2>2. ASSUME NEW i \in Ids, Lapse(t, i)
        PROVE  /\ i \in Pending /\ Resolve(i, "lapsed")
               /\ op' = [op EXCEPT ![t] = op'[t]]
               /\ op'[t].at = "lapsed" /\ op'[t].lapsing = i
    <3>1. i \in Pending
      BY <2>2, <1>1 DEF Lapse, InSection, SectionOK, RemembersOK
    <3>2. op' = [op EXCEPT ![t] = [op[t] EXCEPT !.due = @ \ {i}, !.lapsing = i,
                                                 !.at = "lapsed"]]
      BY <2>2, <1>1 DEF Lapse
    <3> DEFINE new == [op[t] EXCEPT !.due = @ \ {i}, !.lapsing = i, !.at = "lapsed"]
    <3>3. new.at = "lapsed" /\ new.lapsing = i
      BY <1>1 DEF OpType
    <3>4. op'[t] = new
      BY <3>2, <1>1
    <3> HIDE DEF new
    <3>5. op' = [op EXCEPT ![t] = new] /\ Resolve(i, "lapsed")
      BY <3>2, <2>2 DEF new, Lapse
    <3> QED
      BY <3>1, <3>3, <3>4, <3>5
  <2> QED
    BY <2>1, <2>2 DEF Outcomes
<1>3. /\ DOMAIN store' = DOMAIN store /\ i \in DOMAIN store
      /\ store'[i].state = state /\ state # "pending"
      /\ \A j \in DOMAIN store : j # i => store'[j] = store[j]
  BY <1>1, <1>2 DEF Resolve, Put, Pending, Outcomes, StepType
<1>4. Told(i) = {} /\ Told(i)' = {}
  <2>1. i \in Ids
    BY DEF Pending, IInv, TypeOK
  <2> QED
    BY <2>1, <1>1 DEF TrailInv, TrailOK, Told
<1>5. ASSUME NEW j \in Ids PROVE TrailOK(j)'
  <2>1. TrailOK(j) /\ Told(j)' = Told(j)
    BY <1>1 DEF TrailInv, Told
  <2>2. CASE j = i
    BY <2>1, <2>2, <1>1, <1>4 DEF TrailOK
  <2>3. CASE j # i
    BY <2>1, <2>3, <1>1, <1>3 DEF TrailOK, Pending
  <2> QED
    BY <2>2, <2>3
<1>6. ASSUME NEW u \in Tasks PROVE OwesOK(op[u])'
  <2>1. CASE u = t
    BY <2>1, <1>2, <1>3, <1>4 DEF OwesOK, Untold
  <2>2. CASE u # t
    BY <2>2, <1>1, <1>2, OthersIdle DEF OwesOK, Idle
  <2> QED
    BY <2>1, <2>2
<1> QED
  BY <1>5, <1>6 DEF TrailInv

(* Neither time nor a crash writes a trail or an outcome. *)
LEMMA WorldTrail ==
  ASSUME IInv, TrailInv, Crash \/ Tick
  PROVE  TrailInv'
<1>1. /\ DOMAIN store' = DOMAIN store /\ UNCHANGED <<trail, nextId>>
      /\ \A i \in DOMAIN store : store'[i].state = store[i].state
  BY DEF Crash, Tick, IInv, TypeOK, StepType
<1>2. ASSUME NEW i \in Ids PROVE TrailOK(i)' /\ Told(i)' = Told(i)
  <2>1. TrailOK(i)
    BY DEF TrailInv
  <2> QED
    BY <2>1, <1>1 DEF TrailOK, Pending, Told
<1>3. ASSUME NEW u \in Tasks PROVE OwesOK(op[u])'
  <2>1. CASE Crash
    BY <2>1 DEF Crash, OwesOK, Idle
  <2>2. CASE Tick
    <3>1. OwesOK(op[u]) /\ op'[u] = op[u]
      BY <2>2 DEF TrailInv, Tick
    <3> QED
      BY <3>1, <1>1 DEF OwesOK, Untold, Told
  <2> QED
    BY <2>1, <2>2
<1> QED
  BY <1>2, <1>3 DEF TrailInv

(* The audit trail of a step tells its parking and one outcome, the one    *)
(* the store has, through lapses, decisions, failed writes and crashes:    *)
(* resolve and tidy write an outcome before they audit it and audit each   *)
(* outcome they write at most once.                                        *)
THEOREM TrailIsTrue == Spec => []TrailTellsOneOutcome
<1>1. Init => TrailIInv
  <2> SUFFICES ASSUME Init PROVE TrailInv
    BY InitIInv DEF TrailIInv
  <2> QED
    BY DEF Init, TrailInv, TrailOK, OwesOK, Told, Pending, Idle
<1>2. TrailIInv /\ [Next]_vars => TrailIInv'
  <2> SUFFICES ASSUME IInv, TrailInv, [Next]_vars PROVE TrailInv'
    BY NextKeeps DEF TrailIInv
  <2>1. ASSUME NEW t \in Tasks, Step(t) PROVE TrailInv'
    <3>1. CASE \E i \in Ids : Drop(t, i)
      <4>1. PICK i \in Ids : Drop(t, i)
        BY <3>1
      <4>2. /\ UNCHANGED <<trail, nextId>> /\ lock = t /\ op' = op
            /\ op[t].at = "tidy" /\ op \in [Tasks -> OpType]
            /\ DOMAIN store' \subseteq DOMAIN store
            /\ \A j \in DOMAIN store' : store'[j].state = store[j].state
        BY OnlyHolder, <4>1 DEF Drop, InSection, IInv, TypeOK
      <4>3. op' = [op EXCEPT ![t] = op'[t]] /\ op'[t].at \notin Tells
        BY <4>2 DEF Tells
      <4> QED
        BY <4>2, <4>3, TrailKept
    <3>2. CASE \/ ParkSkips(t) \/ ParkReads(t) \/ TidyDone(t) \/ NotPending(t)
               \/ Deny(t) \/ RunRefused(t) \/ RunStarts(t)
               \/ \E outcome \in {"approved", "failed"} : RunEnds(t, outcome)
      BY <3>2, QuietTrail
    <3>3. CASE ParkWrites(t)
      BY <3>3, ParkTrail
    <3>4. CASE ParkAudits(t) \/ LapseAudits(t) \/ RecordAudits(t)
      BY <3>4, AuditsTrail
    <3>5. CASE Record(t) \/ \E i \in Ids : Lapse(t, i)
      BY <3>5, OutcomeTrail
    <3> QED
      BY <2>1, <3>1, <3>2, <3>3, <3>4, <3>5 DEF Step
  <2>2. CASE \E t \in Tasks \ {Sweeper} :
               \/ \E c \in Calls : Park(t, c)
               \/ \E i \in Ids, approve \in BOOLEAN : Decide(t, i, approve)
    BY <2>2, QuietTrail
  <2>3. CASE Sweep(Sweeper)
    BY <2>3, QuietTrail, ParkAssumption
  <2>4. CASE \E t \in Tasks : Step(t) \/ StorageFails(t)
    BY <2>4, <2>1, QuietTrail
  <2>5. CASE Crash \/ Tick
    BY <2>5, WorldTrail
  <2>6. CASE UNCHANGED vars
    BY <2>6 DEF vars, TrailInv, TrailOK, OwesOK, Untold, Told, Pending
  <2> QED
    BY <2>2, <2>3, <2>4, <2>5, <2>6 DEF Next
<1>3. TrailIInv => TrailTellsOneOutcome
  BY DEF TrailIInv, TrailInv, TrailOK, TrailTellsOneOutcome
<1> QED
  BY <1>1, <1>2, <1>3, PTL DEF Spec

=============================================================================
