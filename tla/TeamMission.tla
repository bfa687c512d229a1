----------------------------- MODULE TeamMission -----------------------------
(***************************************************************************)
(* One team mission of the daemon: its record in the registry and in the   *)
(* store, the drives that work on it, the run of the plan each drive       *)
(* spawns, and the requests of operators: start, decide a gate, pause,     *)
(* resume, abort.  A step is what a task does between two awaits; every    *)
(* write of the record is a snapshot, a save and an insert, in three steps.*)
(***************************************************************************)
EXTENDS Naturals, FiniteSets, FiniteSetsExt

CONSTANTS Steps,        \* the plan: numbers, in the order of the step ids
          Deps,         \* step -> steps it needs
          Gates,        \* steps that wait for a human
          Policies,     \* of services and missions; the budget in steps
          MaxAttempts,  \* MAX_MISSION_ATTEMPTS
          Operators,    \* connections that make requests
          Drives,       \* bound: drives at a time
          MaxRequests, MaxRestarts, MaxFaults   \* bounds

ASSUME MissionAssumption ==
  /\ Steps \subseteq Nat \ {0} /\ IsFiniteSet(Steps)
  /\ Gates \subseteq Steps
  /\ Deps \in [Steps -> SUBSET Steps]
  /\ \A s \in Steps : \A p \in Deps[s] : p < s
  /\ Policies \subseteq [headless : BOOLEAN, verify : BOOLEAN, cap : Nat]
  /\ MaxAttempts \in Nat \ {0}
  /\ Drives \subseteq Nat \ {0}
  /\ MaxRequests \in Nat /\ MaxRestarts \in Nat /\ MaxFaults \in Nat

VARIABLES
  policy,   \* headless service? verify finished missions? the budget
  mem,      \* the registry's record
  disk,     \* the stored record
  armed,    \* the drive whose abort and pause flags are registered, or 0
  drive,    \* drive -> where it is, its part of a put, the record it puts
  run,      \* drive -> its run of the plan
  flag,     \* drive -> abort, pause, meter of its observer; unread pings
  op,       \* operator -> the record it puts, the gate it decides
  requests, restarts, faults,
  work, granted, refused, attempt, \* what was done for the plan
  cost,     \* steps paid for so far, all attempts
  aborted,  \* the last attempt whose run was told to abort
  accepted, \* the last finished attempt passed its verification
  broken,   \* a drive returned an error
  crossed   \* a decision was stored that another one had overtaken

bounds  == <<requests, restarts, faults>>
history == <<work, granted, refused, attempt>>
ghosts  == <<cost, aborted, accepted, broken, crossed>>
vars == <<policy, mem, disk, armed, drive, run, flag, op, bounds, history, ghosts>>

-----------------------------------------------------------------------------

Outputs  == {"none", "out", "approved", "rejected"}
Phases   == {"Planning", "Executing", "AwaitingApproval", "Paused",
             "Done", "Rejected", "Halted"}
Records  == [phase : Phases, out : [Steps -> Outputs], gate : Gates \cup {0},
             attempts : 0 .. MaxAttempts, spend : Nat]
NoRecord == [phase |-> "none"]

Empty    == [s \in Steps |-> "none"]
Planned  == [phase |-> "Planning", out |-> Empty, gate |-> 0, attempts |-> 0,
             spend |-> 0]

NoDrive  == [at |-> "off", put |-> "no", draft |-> NoRecord]
NoRun    == [at |-> "off", out |-> Empty, wave |-> {}, end |-> "none", gate |-> 0]
NoFlag   == [abort |-> FALSE, pause |-> FALSE, meter |-> 0, pinged |-> FALSE]
Idle     == [put |-> "no", draft |-> NoRecord, gate |-> 0, seen |-> NoRecord]

Free     == {d \in Drives : drive[d] = NoDrive /\ run[d] = NoRun}
Working  == {d \in Drives : run[d].at \in {"boundary", "wave"}}

Mut_ReadyPastGates(out) ==
  {s \in Steps : out[s] = "none" /\ \A p \in Deps[s] \ Gates : out[p] # "none"}

(* The plan's steps whose dependencies have an output. *)
Ready(out) == {s \in Steps : out[s] = "none" /\ \A p \in Deps[s] : out[p] # "none"}
Complete(out) == \A s \in Steps : out[s] # "none"
With(out, S, o) == [s \in Steps |-> IF s \in S THEN o ELSE out[s]]

Init ==
  /\ policy \in Policies
  /\ mem = NoRecord /\ disk = NoRecord /\ armed = 0
  /\ drive = [d \in Drives |-> NoDrive]
  /\ run = [d \in Drives |-> NoRun]
  /\ flag = [d \in Drives |-> NoFlag]
  /\ op = [o \in Operators |-> Idle]
  /\ requests = 0 /\ restarts = 0 /\ faults = 0
  /\ work = [s \in Steps |-> "no"] /\ granted = {} /\ refused = {} /\ attempt = 1
  /\ cost = 0 /\ aborted = 0 /\ accepted = FALSE /\ broken = FALSE
  /\ crossed = FALSE

-----------------------------------------------------------------------------
(* Requests of operators *)

Prepare(o, record, gate) ==
  /\ op[o] = Idle /\ requests < MaxRequests
  /\ requests' = requests + 1
  /\ op' = [op EXCEPT ![o] = [put |-> "save", draft |-> record, gate |-> gate,
                             seen |-> mem]]
  /\ UNCHANGED <<policy, mem, disk, armed, drive, run, flag, restarts, faults,
                 history, ghosts>>

(* start: the record is registered, then driven. *)
Register(o) ==
  /\ mem = NoRecord /\ requests = 0
  /\ Prepare(o, Planned, 0)

(* prepare_gate_resolution: the mission waits at this gate. *)
Resolve(o, g, approve) ==
  /\ mem.phase = "AwaitingApproval" /\ mem.gate = g
  /\ Prepare(o, [mem EXCEPT
                   !.gate = 0,
                   !.out[g] = IF approve THEN "approved" ELSE "rejected",
                   !.phase = IF approve THEN "Executing" ELSE "Rejected"], g)

(* prepare_pause_resolution *)
Resume(o) ==
  /\ mem.phase = "Paused"
  /\ Prepare(o, [mem EXCEPT !.phase = "Executing"], 0)

(* Nothing keeps a second decision from being taken on the same snapshot:  *)
(* it is stored although the mission has moved on, or is about to.         *)
Crosses(o) == \/ mem # op[o].seen
              \/ \E k \in Operators \ {o} : op[k].put = "insert"

OpSave(o) ==
  /\ op[o].put = "save"
  /\ disk' = op[o].draft
  /\ op' = [op EXCEPT ![o].put = "insert"]
  /\ crossed' = (crossed \/ Crosses(o))
  /\ UNCHANGED <<policy, mem, armed, drive, run, flag, bounds, history, cost,
                 aborted, accepted, broken>>

OpSaveFails(o) ==
  /\ op[o].put = "save" /\ faults < MaxFaults
  /\ faults' = faults + 1
  /\ op' = [op EXCEPT ![o] = Idle]
  /\ UNCHANGED <<policy, mem, disk, armed, drive, run, flag, requests, restarts,
                 history, ghosts>>

(* The record is shown; unless it is rejected, a drive is spawned. *)
OpInsert(o) ==
  LET record == op[o].draft
      g == op[o].gate
  IN /\ op[o].put = "insert"
     /\ mem' = record
     /\ op' = [op EXCEPT ![o] = Idle]
     /\ IF record.phase = "Rejected"
        THEN /\ refused' = refused \cup {g}
             /\ UNCHANGED <<drive, granted>>
        ELSE /\ Free # {}
             /\ drive' = [drive EXCEPT ![Min(Free)].at = "begin"]
             /\ granted' = granted \cup ({g} \ {0})
             /\ UNCHANGED refused
     /\ UNCHANGED <<policy, disk, armed, run, flag, bounds, work, attempt, ghosts>>

(* abort_mission, pause_mission: refused unless a flag is registered. *)
Request(f) ==
  /\ mem.phase = "Executing" /\ armed # 0
  /\ requests < MaxRequests
  /\ requests' = requests + 1
  /\ flag' = [flag EXCEPT ![armed] = f]
  /\ UNCHANGED <<policy, mem, disk, armed, drive, run, op, restarts, faults,
                 history, cost, accepted, broken, crossed>>

Abort == /\ Request([flag[armed] EXCEPT !.abort = TRUE])
         /\ aborted' = IF armed \in Working THEN attempt ELSE aborted

Pause == /\ Request([flag[armed] EXCEPT !.pause = TRUE])
         /\ UNCHANGED aborted

-----------------------------------------------------------------------------
(* A drive: drive_registered around drive *)

Goes(d, at)       == drive' = [drive EXCEPT ![d].at = at]
Puts(d, at, record) ==
  drive' = [drive EXCEPT ![d] = [at |-> at, put |-> "save", draft |-> record]]
Leaves(d)         == drive' = [drive EXCEPT ![d] = NoDrive]
DriveKeeps        == UNCHANGED <<policy, op, requests, restarts>>

Mut_FreshMeter(d) ==
  /\ drive[d].at = "begin"
  /\ Puts(d, "enter", [mem EXCEPT !.phase = "Executing", !.gate = 0])
  /\ flag' = [flag EXCEPT ![d] = NoFlag]
  /\ DriveKeeps
  /\ UNCHANGED <<mem, disk, armed, run, faults, history, ghosts>>

(* The record's spend seeds the meter. *)
DriveBegins(d) ==
  /\ drive[d].at = "begin"
  /\ Puts(d, "enter", [mem EXCEPT !.phase = "Executing", !.gate = 0])
  /\ flag' = [flag EXCEPT ![d] = [NoFlag EXCEPT !.meter = mem.spend]]
  /\ DriveKeeps
  /\ UNCHANGED <<mem, disk, armed, run, faults, history, ghosts>>

DriveSave(d) ==
  /\ drive[d].put = "save"
  /\ disk' = drive[d].draft
  /\ drive' = [drive EXCEPT ![d] = IF @.at = "drain" THEN [NoDrive EXCEPT !.at = "drain"]
                                   ELSE [@ EXCEPT !.put = "insert"]]
  /\ DriveKeeps
  /\ UNCHANGED <<mem, armed, run, flag, faults, history, ghosts>>

Mut_BestEffortPut(d) ==
  /\ drive[d].put = "save" /\ faults < MaxFaults
  /\ faults' = faults + 1
  /\ drive' = [drive EXCEPT ![d].put = IF drive[d].at = "drain" THEN "no"
                                       ELSE "insert"]
  /\ DriveKeeps
  /\ UNCHANGED <<mem, disk, armed, run, flag, history, ghosts>>

(* An error ends the drive, its guard disarms; the run goes on without it. *)
(* Only the put of a failed verification is best effort.                   *)
DriveSaveFails(d) ==
  /\ drive[d].put = "save" /\ faults < MaxFaults
  /\ faults' = faults + 1
  /\ drive' = [drive EXCEPT ![d] =
                 CASE drive[d].at \in {"enter", "reset"} -> NoDrive
                   [] drive[d].at \in {"drain", "land"} -> [NoDrive EXCEPT !.at = "cleanup"]
                   [] drive[d].at = "fail" -> [NoDrive EXCEPT !.at = "retry"]]
  /\ broken' = (broken \/ drive[d].at # "fail")
  /\ DriveKeeps
  /\ UNCHANGED <<mem, disk, armed, run, flag, history, cost, aborted, accepted,
                 crossed>>

NextAt(at) == CASE at = "enter" -> "arm"   [] at = "land" -> "cleanup"
                [] at = "fail" -> "retry"  [] at = "reset" -> "begin"

(* The record is shown.  For the history: a headless drive refuses its     *)
(* gate, a reset starts another attempt.                                   *)
DriveInsert(d) ==
  LET at == drive[d].at
      record == drive[d].draft
  IN /\ drive[d].put = "insert"
     /\ mem' = record
     /\ drive' = [drive EXCEPT ![d].at = NextAt(at), ![d].put = "no"]
     /\ IF at = "reset"
        THEN /\ work' = [s \in Steps |-> "no"] /\ granted' = {} /\ refused' = {}
             /\ attempt' = attempt + 1
        ELSE /\ refused' = IF at = "land"
                           THEN {g \in Gates : record.out[g] = "rejected"}
                           ELSE refused
             /\ UNCHANGED <<work, granted, attempt>>
     /\ DriveKeeps
     /\ UNCHANGED <<disk, armed, run, flag, faults, ghosts>>

(* Fresh flags are registered and the run of the plan is spawned. *)
Arm(d) ==
  /\ drive[d].at = "arm"
  /\ armed' = d
  /\ run' = [run EXCEPT ![d] = [NoRun EXCEPT !.at = "boundary",
                                             !.out = drive[d].draft.out]]
  /\ drive' = [drive EXCEPT ![d] = [NoDrive EXCEPT !.at = "drain"]]
  /\ DriveKeeps
  /\ UNCHANGED <<mem, disk, flag, faults, history, ghosts>>

Mut_PingsNeverDrain(d) ==
  /\ drive[d].at = "drain" /\ drive[d].put = "no" /\ flag[d].pinged
  /\ Puts(d, "drain", mem)
  /\ DriveKeeps
  /\ UNCHANGED <<mem, disk, armed, run, flag, faults, history, ghosts>>

(* persist_current, once per batch of pings. *)
Persist(d) ==
  /\ drive[d].at = "drain" /\ drive[d].put = "no" /\ flag[d].pinged
  /\ Puts(d, "drain", mem)
  /\ flag' = [flag EXCEPT ![d].pinged = FALSE]
  /\ DriveKeeps
  /\ UNCHANGED <<mem, disk, armed, run, faults, history, ghosts>>

(* The record a run's outcome leads to. *)
Landed(d) ==
  LET r == run[d]
      record == [mem EXCEPT !.out = r.out, !.gate = 0, !.spend = flag[d].meter]
  IN CASE r.end = "completed" -> [record EXCEPT !.phase = "Done"]
       [] r.end = "paused"    -> [record EXCEPT !.phase = "Paused"]
       [] r.end = "halted"    -> [record EXCEPT !.phase = "Halted"]
       [] r.end = "awaiting" /\ policy.headless ->
            [record EXCEPT !.phase = "Rejected", !.out[r.gate] = "rejected"]
       [] r.end = "awaiting" /\ ~policy.headless ->
            [record EXCEPT !.phase = "AwaitingApproval", !.gate = r.gate]

(* The run is over and its pings are drained. *)
Land(d) ==
  /\ drive[d].at = "drain" /\ drive[d].put = "no" /\ ~flag[d].pinged
  /\ run[d].at = "ended"
  /\ IF run[d].end = "error"
     THEN Goes(d, "cleanup") /\ broken' = TRUE
     ELSE Puts(d, "land", Landed(d)) /\ UNCHANGED broken
  /\ run' = [run EXCEPT ![d] = NoRun]
  /\ accepted' = FALSE
  /\ DriveKeeps
  /\ UNCHANGED <<mem, disk, armed, flag, faults, history, cost, aborted, crossed>>

(* DriveCleanupGuard: the flags registered for the mission are dropped. *)
Cleanup(d) ==
  /\ drive[d].at = "cleanup"
  /\ armed' = 0
  /\ IF drive[d].draft.phase = "Done" /\ policy.verify
     THEN drive' = [drive EXCEPT ![d] = [NoDrive EXCEPT !.at = "judge"]]
     ELSE Leaves(d)
  /\ DriveKeeps
  /\ UNCHANGED <<mem, disk, run, flag, faults, history, ghosts>>

Mut_VerdictOnlyLogged(d, passed) ==
  /\ drive[d].at = "judge"
  /\ Leaves(d)
  /\ accepted' = passed
  /\ DriveKeeps
  /\ UNCHANGED <<mem, disk, armed, run, flag, faults, history, cost, aborted,
                 broken, crossed>>

(* verify_mission_artifact *)
Judge(d, passed) ==
  /\ drive[d].at = "judge"
  /\ IF passed THEN Leaves(d) ELSE Puts(d, "fail", [mem EXCEPT !.phase = "Rejected"])
  /\ accepted' = passed
  /\ DriveKeeps
  /\ UNCHANGED <<mem, disk, armed, run, flag, faults, history, cost, aborted,
                 broken, crossed>>

(* Give up, or clear the checkpoint for another drive. *)
Retry(d) ==
  /\ drive[d].at = "retry"
  /\ IF mem.attempts + 1 >= MaxAttempts
     THEN Leaves(d)
     ELSE Puts(d, "reset", [mem EXCEPT !.phase = "Executing", !.out = Empty,
                                       !.gate = 0, !.attempts = @ + 1])
  /\ DriveKeeps
  /\ UNCHANGED <<mem, disk, armed, run, flag, faults, history, ghosts>>

-----------------------------------------------------------------------------
(* The run of the plan: run_until_pause *)

RunKeeps == UNCHANGED <<policy, disk, armed, drive, op, bounds, granted, refused,
                        attempt, aborted, accepted, broken, crossed>>

Ends(d, end, gate) ==
  /\ run' = [run EXCEPT ![d].at = "ended", ![d].end = end, ![d].gate = gate]
  /\ UNCHANGED work

Mut_AbortNotRead(d) ==
  CASE flag[d].pause -> "paused"
    [] ~flag[d].pause /\ flag[d].meter >= policy.cap -> "halted"
    [] OTHER -> "no"

(* should_halt: an abort before a pause before the budget. *)
Halt(d) == CASE flag[d].abort -> "halted"
             [] ~flag[d].abort /\ flag[d].pause -> "paused"
             [] ~flag[d].abort /\ ~flag[d].pause /\ flag[d].meter >= policy.cap -> "halted"
             [] OTHER -> "no"

(* Between waves: done, stopped, at a gate, or the next wave starts. *)
Boundary(d) ==
  LET ready == Ready(run[d].out)
      wave == ready \ Gates
  IN /\ run[d].at = "boundary"
     /\ \/ Complete(run[d].out) /\ Ends(d, "completed", 0)
        \/ ~Complete(run[d].out) /\ Halt(d) # "no" /\ Ends(d, Halt(d), 0)
        \/ /\ ~Complete(run[d].out) /\ Halt(d) = "no" /\ wave = {}
           /\ Ends(d, "awaiting", Min(ready))
        \/ /\ ~Complete(run[d].out) /\ Halt(d) = "no" /\ wave # {}
           /\ run' = [run EXCEPT ![d].at = "wave", ![d].wave = wave]
           /\ work' = [s \in Steps |-> IF s \notin wave THEN work[s]
                                       ELSE IF work[s] = "no" THEN "going" ELSE "again"]
     /\ RunKeeps
     /\ UNCHANGED <<mem, flag, cost>>

(* The wave's steps have all run; their results are recorded in order, up  *)
(* to the first that failed (0: none did).                                 *)
WaveOver(d, failed) ==
  LET good == {s \in run[d].wave : failed = 0 \/ s < failed}
      paid == Cardinality(run[d].wave)
  IN /\ run[d].at = "wave" /\ failed \in run[d].wave \cup {0}
     /\ mem' = [mem EXCEPT !.out = With(mem.out, good, "out")]
     /\ run' = [run EXCEPT ![d].out = With(run[d].out, good, "out"),
                           ![d].wave = {},
                           ![d].at = IF failed = 0 THEN "boundary" ELSE "ended",
                           ![d].end = IF failed = 0 THEN "none" ELSE "error"]
     /\ flag' = [flag EXCEPT ![d].meter = @ + paid,
                             ![d].pinged = @ \/ good # {}]
     /\ work' = [s \in Steps |-> IF s \in good /\ work[s] = "going" THEN "done"
                                 ELSE work[s]]
     /\ cost' = cost + paid
     /\ RunKeeps

(* The outcome of a run whose drive has failed goes nowhere. *)
Abandoned(d) ==
  /\ run[d].at = "ended" /\ drive[d] = NoDrive
  /\ run' = [run EXCEPT ![d] = NoRun]
  /\ flag' = [flag EXCEPT ![d] = NoFlag]
  /\ RunKeeps
  /\ UNCHANGED <<mem, work, cost>>

-----------------------------------------------------------------------------
(* reload: a mission that was executing is halted, the others are kept.    *)
(* Writing the halted record back is best effort.                          *)

Recover(record) == IF record.phase = "Executing"
                   THEN [record EXCEPT !.phase = "Halted", !.gate = 0] ELSE record

Restart ==
  /\ restarts < MaxRestarts
  /\ restarts' = restarts + 1
  /\ mem' = Recover(disk)
  /\ disk' \in {disk, Recover(disk)}
  /\ armed' = 0
  /\ drive' = [d \in Drives |-> NoDrive]
  /\ run' = [d \in Drives |-> NoRun]
  /\ flag' = [d \in Drives |-> NoFlag]
  /\ op' = [o \in Operators |-> Idle]
  /\ UNCHANGED <<policy, requests, faults, history, ghosts>>

-----------------------------------------------------------------------------

OperatorStep(o) ==
  \/ Register(o) \/ Resume(o) \/ OpSave(o) \/ OpSaveFails(o) \/ OpInsert(o)
  \/ \E g \in Gates, approve \in BOOLEAN : Resolve(o, g, approve)

DriveStep(d) ==
  \/ DriveBegins(d) \/ DriveSave(d) \/ DriveInsert(d) \/ Arm(d) \/ Persist(d)
  \/ Land(d) \/ Cleanup(d) \/ Retry(d)
  \/ \E passed \in BOOLEAN : Judge(d, passed)

RunStep(d) ==
  \/ Boundary(d) \/ Abandoned(d)
  \/ \E failed \in Steps \cup {0} : WaveOver(d, failed)

Next ==
  \/ \E o \in Operators : OperatorStep(o)
  \/ \E d \in Drives : DriveStep(d) \/ DriveSaveFails(d) \/ RunStep(d)
  \/ Abort \/ Pause \/ Restart

Spec == Init /\ [][Next]_vars

(* Tasks are polled and a specialist's turn has a deadline; nobody has to  *)
(* make a request, and nothing has to fail.                                *)
FairSpec == /\ Spec
            /\ \A d \in Drives : WF_vars(DriveStep(d)) /\ WF_vars(RunStep(d))
            /\ \A o \in Operators : WF_vars(OpSave(o) \/ OpInsert(o))

-----------------------------------------------------------------------------
(* Properties *)

TypeOK ==
  /\ policy \in Policies
  /\ mem \in Records \cup {NoRecord} /\ disk \in Records \cup {NoRecord}
  /\ armed \in Drives \cup {0}
  /\ drive \in [Drives -> [at : {"off", "begin", "enter", "arm", "drain", "land",
                                 "cleanup", "judge", "fail", "retry", "reset"},
                           put : {"no", "save", "insert"},
                           draft : Records \cup {NoRecord}]]
  /\ run \in [Drives -> [at : {"off", "boundary", "wave", "ended"},
                         out : [Steps -> Outputs], wave : SUBSET (Steps \ Gates),
                         end : {"none", "completed", "halted", "paused",
                                "awaiting", "error"},
                         gate : Gates \cup {0}]]
  /\ flag \in [Drives -> [abort : BOOLEAN, pause : BOOLEAN, meter : Nat,
                          pinged : BOOLEAN]]
  /\ op \in [Operators -> [put : {"no", "save", "insert"},
                           draft : Records \cup {NoRecord}, gate : Gates \cup {0},
                           seen : Records \cup {NoRecord}]]
  /\ requests \in 0 .. MaxRequests /\ restarts \in 0 .. MaxRestarts
  /\ faults \in 0 .. MaxFaults
  /\ work \in [Steps -> {"no", "going", "done", "again"}]
  /\ granted \subseteq Gates /\ refused \subseteq Gates
  /\ attempt \in Nat \ {0} /\ cost \in Nat /\ aborted \in Nat
  /\ accepted \in BOOLEAN /\ broken \in BOOLEAN /\ crossed \in BOOLEAN

(* Every promise below is off once decisions have crossed: nothing in the  *)
(* code keeps a second operator's decision of the same snapshot from being *)
(* stored, and with it comes a second drive.                               *)

(* Whatever is driven, paused, decided, retried, failed or restarted: a    *)
(* step is begun once per attempt, after all it depends on, never past a   *)
(* gate that was not granted or after a refusal; the attempts are bounded. *)
Promise == INSTANCE MissionWork
WorksOnce == Promise!Spec

(* Between writes, a restart shows the operator what he saw before it: a   *)
(* mission that waits, is paused or is over is stored as it is shown.      *)
RestartShowsTheSame ==
  (/\ \A d \in Drives : drive[d].put # "insert"
   /\ \A o \in Operators : op[o].put # "insert"
   /\ mem.phase # "Executing") => Recover(disk) = mem \/ crossed

(* The budget covers the mission, not a drive: over gates, pauses and      *)
(* retries, no step begins once the steps paid for have reached the cap.   *)
NoWorkPastCap ==
  [][cost >= policy.cap /\ ~crossed
       => \A s \in Steps : work'[s] = "going" => work[s] = "going"]_vars

(* An abort that reaches a working run: no step of that attempt begins any *)
(* more, in whatever drive, whatever operators decide after it.            *)
AbortHolds ==
  [][aborted = attempt /\ attempt' = attempt /\ ~crossed
       => \A s \in Steps : work'[s] = "going" => work[s] = "going"]_vars

(* A mission at rest as Done passed its verification, if there is one: a   *)
(* restart or a failed write in between is all that can leave it unchecked.*)
DoneWasAccepted ==
  /\ mem.phase = "Done" /\ policy.verify
  /\ \A d \in Drives : drive[d] = NoDrive
  => accepted \/ restarts > 0 \/ faults > 0 \/ crossed

(* At most one run works on the mission. *)
OneRun == Cardinality(Working) <= 1 \/ crossed

(* A mission that executes gets somewhere (a gate, a pause, an end) unless *)
(* its drive returned an error: that leaves it executing.                  *)
Settles == (mem.phase = "Executing") ~> (mem.phase # "Executing" \/ broken \/ crossed)

(* "Executing in the record but no armed flag (e.g. a just-finished race): *)
(* nothing to halt": a run that works can be aborted.                      *)
RunIsAbortable == \A d \in Working : armed = d

=============================================================================
