----------------------------- MODULE LoopDriver -----------------------------
(***************************************************************************)
(* The autonomous loop: the shared run state that operators start and      *)
(* stop, the one driver task that fires iterations over the backlog, and   *)
(* the persisted marker that lets a restart resume a run.  A driver step   *)
(* is what the task does between two awaits; requests, the agent's turn    *)
(* and other users of the backlog run in between.                          *)
(***************************************************************************)
EXTENDS Naturals, FiniteSets, FiniteSetsExt

CONSTANTS Stories,      \* numbers, in the order the loop takes them
          Complex,      \* stories the loop hands to the team
          Backlogs,     \* the stories the daemon may find pending at first
          Policies,     \* configurations: see Switches
          MaxIterations,   \* [loop] max_iterations
          Caps,         \* the caps a start may ask for
          MaxIdle,         \* idle iterations before the breaker; 0: off
          MaxMissions,     \* MAX_DELEGATION_ATTEMPTS
          Operators,
          MaxRequests,  \* bound: requests of operators
          MaxFaults     \* bound: restarts, panics and lost marker writes

Switches == [gate : BOOLEAN, judge : BOOLEAN, delegate : BOOLEAN,
             escalate : BOOLEAN, resume : BOOLEAN]

ASSUME LoopAssumption ==
  /\ Stories \subseteq Nat \ {0} /\ IsFiniteSet(Stories) /\ Complex \subseteq Stories
  /\ Backlogs \subseteq SUBSET Stories
  /\ Policies \subseteq Switches
  /\ MaxIterations \in Nat \ {0} /\ Caps \subseteq 1 .. MaxIterations
  /\ MaxIdle \in Nat /\ MaxMissions \in Nat \ {0}
  /\ MaxRequests \in Nat /\ MaxFaults \in Nat

VARIABLES
  policy,
  active, count, limit, reason, permit,   \* the shared run state
  marker,   \* the persisted run marker
  story,    \* story -> its status in the backlog
  at,       \* where the driver is
  why,      \* the reason it is about to end the run with
  left, cand, noted,   \* of the iteration: stories at its start, the one it is
                       \* about, whether the turn left a progress note
  idle, fails, arm, rescued,   \* of the run: idle streak, failed missions per
                       \* story, how to arm the next turn, the rescue is spent
  boot,     \* the daemon has still to decide whether to resume
  op,       \* operator -> the marker he is about to write
  requests, restarts, faults,
  begun,    \* iterations begun since the last start
  late,     \* iterations begun since the last stop
  streak,   \* iterations without progress since the last start or progress
  stopped,  \* the run of the last start was stopped by an operator
  untimely, \* a start's notification is not what woke the driver
  saved,    \* an armed rescue turn was fired in this run of the driver
  missions, \* story -> missions of this run of the driver
  crossed,  \* marker writes of two operators were under way together
  wanted    \* the last request: running or not

runState == <<active, count, limit, reason, permit>>
iteration == <<left, cand, noted>>
breaker  == <<idle, fails, arm, rescued>>
bounds   == <<requests, restarts, faults>>
ghosts   == <<begun, late, streak, stopped, untimely, saved, missions, crossed, wanted>>
vars == <<policy, runState, marker, story, at, why, iteration, breaker, boot, op,
          bounds, ghosts>>

-----------------------------------------------------------------------------

Pending   == {s \in Stories : story[s] = "pending"}
NextStory == IF Pending = {} THEN 0 ELSE Min(Pending)
Resolve(s, status) ==
  story' = IF s \in Pending THEN [story EXCEPT ![s] = status] ELSE story

NoFails  == [s \in Stories |-> 0]
Inner    == {"top", "stop", "notes", "turn", "gate", "close", "judge", "mission"}

Init ==
  /\ policy \in Policies
  /\ active = FALSE /\ count = 0 /\ limit = 0 /\ reason = "none" /\ permit = FALSE
  /\ marker = FALSE
  /\ \E backlog \in Backlogs :
       story = [s \in Stories |-> IF s \in backlog THEN "pending" ELSE "none"]
  /\ at = "outer" /\ why = "none" /\ left = 0 /\ cand = 0 /\ noted = FALSE
  /\ idle = 0 /\ fails = NoFails /\ arm = "none" /\ rescued = FALSE
  /\ boot = TRUE /\ op = [o \in Operators |-> "idle"]
  /\ requests = 0 /\ restarts = 0 /\ faults = 0
  /\ begun = 0 /\ late = 0 /\ streak = 0 /\ stopped = FALSE /\ untimely = FALSE
  /\ saved = FALSE /\ missions = NoFails /\ crossed = FALSE /\ wanted = FALSE

-----------------------------------------------------------------------------
(* Operators and the boot *)

Mut_NoWake(n) ==
  /\ ~active
  /\ active' = TRUE /\ count' = 0 /\ limit' = n /\ reason' = "none" /\ UNCHANGED permit
  /\ begun' = 0 /\ late' = 0 /\ streak' = 0 /\ stopped' = FALSE /\ wanted' = TRUE
  /\ untimely' = (untimely \/ at # "wait")

(* request_start: the driver is notified; a permit waits for it if it does *)
(* not.                                                                    *)
RequestStart(n) ==
  /\ ~active
  /\ active' = TRUE /\ count' = 0 /\ limit' = n /\ reason' = "none" /\ permit' = TRUE
  /\ begun' = 0 /\ late' = 0 /\ streak' = 0 /\ stopped' = FALSE /\ wanted' = TRUE
  /\ untimely' = (untimely \/ at # "wait")

Asks(o, writes) ==
  /\ ~boot /\ op[o] = "idle" /\ requests < MaxRequests
  /\ requests' = requests + 1
  /\ op' = [op EXCEPT ![o] = writes]
  /\ crossed' = (crossed \/ \E p \in Operators : op[p] # "idle")
  /\ UNCHANGED <<policy, marker, story, at, why, iteration, breaker, boot, restarts,
                 faults, saved, missions>>

Start(o) == \E n \in Caps : RequestStart(n) /\ Asks(o, "on")

Mut_StopKeepsMarker(o) ==
  /\ active
  /\ active' = FALSE
  /\ stopped' = TRUE /\ late' = 0 /\ wanted' = FALSE
  /\ Asks(o, "on")
  /\ UNCHANGED <<count, limit, reason, permit, begun, streak, untimely>>

(* request_stop: the driver ends the run between iterations. *)
Stop(o) ==
  /\ active
  /\ active' = FALSE
  /\ stopped' = TRUE /\ late' = 0 /\ wanted' = FALSE
  /\ Asks(o, "off")
  /\ UNCHANGED <<count, limit, reason, permit, begun, streak, untimely>>

Marks(o) ==
  /\ op[o] # "idle"
  /\ op' = [op EXCEPT ![o] = "idle"]
  /\ UNCHANGED <<policy, runState, story, at, why, iteration, breaker, boot, requests,
                 restarts, ghosts>>

(* persist_run_marker: best effort, and only if the loop may be resumed. *)
PersistMarker(o) ==
  /\ Marks(o)
  /\ marker' = IF policy.resume THEN op[o] = "on" ELSE marker
  /\ UNCHANGED faults

MarkerFails(o) ==
  /\ Marks(o) /\ restarts + faults < MaxFaults
  /\ faults' = faults + 1
  /\ UNCHANGED marker

(* The backlog has other users: an operator adds a story or skips one. *)
BacklogKeeps ==
  /\ ~boot /\ requests < MaxRequests
  /\ requests' = requests + 1
  /\ UNCHANGED <<policy, runState, marker, at, why, iteration, breaker, boot, op,
                 restarts, faults, ghosts>>

AddStory(s) == /\ story[s] = "none"
               /\ story' = [story EXCEPT ![s] = "pending"]
               /\ BacklogKeeps

SkipStory(s) == s \in Pending /\ Resolve(s, "skipped") /\ BacklogKeeps

(* At boot: resume what was running and has work left. *)
BootDecides ==
  /\ boot
  /\ boot' = FALSE
  /\ IF policy.resume /\ marker /\ Pending # {}
     THEN RequestStart(MaxIterations)
     ELSE UNCHANGED <<runState, begun, late, streak, stopped, wanted, untimely>>
  /\ UNCHANGED <<policy, marker, story, at, why, iteration, breaker, op, bounds,
                 saved, missions, crossed>>

-----------------------------------------------------------------------------
(* The driver, between runs *)

DriverKeeps == UNCHANGED <<policy, limit, marker, boot, op, bounds, crossed, wanted,
                           stopped, untimely>>
Keeps == DriverKeeps /\ UNCHANGED <<active, count, reason, permit, story, why, iteration,
                                    breaker, begun, late, streak, saved, missions>>

(* A run that is active is driven at once, otherwise the driver waits. *)
Outer == /\ at = "outer"
         /\ at' = IF active THEN "begin" ELSE "wait"
         /\ Keeps

(* Woken by a notification, or by the poll that looks again. *)
Woken == /\ at = "wait" /\ permit
         /\ permit' = FALSE
         /\ at' = "begin"
         /\ DriverKeeps
         /\ UNCHANGED <<active, count, reason, story, why, iteration, breaker, begun,
                        late, streak, saved, missions>>

Poll == /\ at = "wait"
        /\ at' = "outer"
        /\ untimely' = (untimely \/ permit)
        /\ UNCHANGED <<policy, runState, marker, story, why, iteration, breaker, boot, op,
                       bounds, begun, late, streak, stopped, saved, missions, crossed,
                       wanted>>

FinishRun(r) == active' = FALSE /\ reason' = r

Mut_KeepsIdle == /\ UNCHANGED idle
                 /\ fails' = NoFails /\ arm' = "none" /\ rescued' = FALSE

FreshBreaker == idle' = 0 /\ fails' = NoFails /\ arm' = "none" /\ rescued' = FALSE

(* A run of the driver: the pre-flight gate, then fresh counters. *)
Begin(green) ==
  /\ at = "begin"
  /\ green \/ policy.gate
  /\ IF green
     THEN /\ at' = "top"
          /\ UNCHANGED <<active, reason>>
     ELSE FinishRun("gate") /\ at' = "outer"
  /\ FreshBreaker
  /\ saved' = FALSE /\ missions' = NoFails
  /\ DriverKeeps
  /\ UNCHANGED <<count, permit, story, why, iteration, begun, late, streak>>

-----------------------------------------------------------------------------
(* An iteration *)

Mut_StopNotRead(over) == CASE over -> "budget"
                           [] ~over /\ count >= limit -> "max iterations"
                           [] ~over /\ count < limit /\ Pending = {} -> "complete"
                           [] OTHER -> "continue"

(* decide; over: the wall clock, the tokens or the dollars are used up. *)
Decision(over) == CASE ~active -> "operator stop"
                    [] active /\ over -> "budget"
                    [] active /\ ~over /\ count >= limit -> "max iterations"
                    [] active /\ ~over /\ count < limit /\ Pending = {} -> "complete"
                    [] OTHER -> "continue"

Mut_RescueDelegated == policy.delegate /\ NextStory \in Pending \cap Complex

Delegates == policy.delegate /\ arm # "rescue" /\ NextStory \in Pending \cap Complex

IterationBegins == /\ begun' = begun + 1
                   /\ late' = IF active THEN late ELSE late + 1

Decide(over) ==
  /\ at = "top"
  /\ left' = Cardinality(Pending)
  /\ IF Decision(over) # "continue"
     THEN /\ at' = "stop" /\ why' = Decision(over)
          /\ UNCHANGED <<count, cand, missions, begun, late>>
     ELSE /\ UNCHANGED why
          /\ IF Delegates
             THEN /\ at' = "mission" /\ cand' = NextStory /\ count' = count + 1
                  /\ missions' = [missions EXCEPT ![NextStory] = @ + 1]
                  /\ IterationBegins
             ELSE at' = "notes" /\ UNCHANGED <<count, cand, missions, begun, late>>
  /\ DriverKeeps
  /\ UNCHANGED <<active, reason, permit, story, noted, breaker, streak, saved>>

EndRun ==
  /\ at = "stop"
  /\ FinishRun(why)
  /\ at' = "outer" /\ why' = "none"
  /\ DriverKeeps
  /\ UNCHANGED <<count, permit, story, iteration, breaker, begun, late, streak, saved,
                 missions>>

(* The notes are read; the turn is fired, armed if the last one asked so. *)
Fire ==
  /\ at = "notes"
  /\ at' = "turn" /\ cand' = NextStory
  /\ arm' = "none" /\ saved' = (saved \/ arm = "rescue")
  /\ IterationBegins
  /\ DriverKeeps
  /\ UNCHANGED <<active, count, reason, permit, story, why, left, noted, idle, fails,
                 rescued, streak, missions>>

Mut_CountsDone(done, note) ==
  /\ at = "turn"
  /\ at' = "gate" /\ noted' = note
  /\ count' = IF done = 0 THEN count ELSE count + 1
  /\ Resolve(done, "done")
  /\ DriverKeeps
  /\ UNCHANGED <<active, reason, permit, why, left, cand, breaker, begun, late, streak,
                 saved, missions>>

(* The agent may complete a story and leave a note. *)
TurnOver(done, note) ==
  /\ at = "turn"
  /\ at' = "gate" /\ count' = count + 1 /\ noted' = note
  /\ Resolve(done, "done")
  /\ DriverKeeps
  /\ UNCHANGED <<active, reason, permit, why, left, cand, breaker, begun, late, streak,
                 saved, missions>>

(* The gate after the turn: a red one ends the run. *)
Gate(green) ==
  /\ at = "gate"
  /\ green \/ policy.gate
  /\ IF green THEN at' = "close" /\ UNCHANGED <<active, reason>>
              ELSE at' = "outer" /\ FinishRun("gate")
  /\ DriverKeeps
  /\ UNCHANGED <<count, permit, story, why, iteration, breaker, begun, late, streak,
                 saved, missions>>

(* StallTracker::record and next_arm: the first stall of a run is worth    *)
(* one armed rescue, if the loop escalates; then a stall ends the run.     *)
Stalls(progress) == MaxIdle > 0 /\ ~progress /\ idle + 1 >= MaxIdle

Rescues(stalled) == stalled /\ policy.escalate /\ ~rescued

Settle(progress, failed) ==
  LET stalled == Stalls(progress)
      rescue == Rescues(stalled)
  IN /\ idle' = IF MaxIdle = 0 \/ progress THEN 0
                ELSE IF rescue THEN MaxIdle - 1 ELSE idle + 1
     /\ arm' = IF rescue THEN "rescue"
               ELSE IF policy.escalate /\ ~stalled /\ failed THEN "verdict" ELSE "none"
     /\ rescued' = (rescued \/ rescue)
     /\ streak' = IF progress THEN 0 ELSE streak + 1
     /\ IF stalled /\ ~rescue THEN FinishRun("stall") /\ at' = "outer"
                              ELSE at' = "top" /\ UNCHANGED <<active, reason>>

(* verify_and_close: a story the turn left pending is judged; then the     *)
(* iteration is judged by what it moved.  A story that is closed leaves a  *)
(* note, so it counts as progress also if an operator was faster.          *)
Progress(pending) == noted \/ Cardinality(pending) < left

Close ==
  /\ at = "close"
  /\ IF policy.judge /\ cand \in Pending
     THEN /\ at' = "judge"
          /\ UNCHANGED <<active, reason, idle, arm, rescued, streak>>
     ELSE Settle(Progress(Pending), FALSE)
  /\ DriverKeeps
  /\ UNCHANGED <<count, permit, story, why, iteration, fails, begun, late, saved, missions>>

Verdict(passed) ==
  /\ at = "judge"
  /\ IF passed THEN Resolve(cand, "done") ELSE UNCHANGED story
  /\ Settle(passed \/ Progress(Pending), ~passed)
  /\ DriverKeeps
  /\ UNCHANGED <<count, permit, why, iteration, fails, begun, late, saved, missions>>

(* The team's mission is over and accepted, or counted as failed: at the   *)
(* bound the story is skipped, which is progress.                          *)
GivesUp == fails[cand] + 1 >= MaxMissions

MissionOver(accepted) ==
  LET skips == ~accepted /\ GivesUp
  IN /\ at = "mission"
     /\ IF accepted THEN Resolve(cand, "done")
        ELSE IF skips THEN Resolve(cand, "skipped") ELSE UNCHANGED story
     /\ fails' = [fails EXCEPT ![cand] = IF accepted \/ skips THEN 0 ELSE @ + 1]
     /\ Settle(accepted \/ skips, FALSE)
     /\ DriverKeeps
     /\ UNCHANGED <<count, permit, why, iteration, begun, late, saved, missions>>

(* An iteration panics: the guard clears the run, the task is gone. *)
Panic ==
  /\ at \in {"turn", "mission"} /\ restarts + faults < MaxFaults
  /\ faults' = faults + 1
  /\ at' = "dead" /\ FinishRun("aborted")
  /\ UNCHANGED <<policy, count, limit, permit, marker, story, why, iteration, breaker,
                 boot, op, requests, restarts, ghosts>>

-----------------------------------------------------------------------------

(* The backlog and the marker survive, nothing else does. *)
Restart ==
  /\ restarts + faults < MaxFaults
  /\ restarts' = restarts + 1
  /\ active' = FALSE /\ count' = 0 /\ limit' = 0 /\ reason' = "none" /\ permit' = FALSE
  /\ at' = "outer" /\ why' = "none" /\ left' = 0 /\ cand' = 0 /\ noted' = FALSE
  /\ idle' = 0 /\ fails' = NoFails /\ arm' = "none" /\ rescued' = FALSE
  /\ boot' = TRUE
  /\ crossed' = (crossed \/ \E o \in Operators : op[o] # "idle")
  /\ op' = [o \in Operators |-> "idle"]
  /\ begun' = 0 /\ late' = 0 /\ streak' = 0 /\ saved' = FALSE /\ missions' = NoFails
  /\ untimely' = FALSE
  /\ UNCHANGED <<policy, marker, story, requests, faults, stopped, wanted>>

DriverStep ==
  \/ Outer \/ Woken \/ EndRun \/ Fire \/ Close
  \/ \E green \in BOOLEAN : Begin(green) \/ Gate(green)
  \/ \E over \in BOOLEAN : Decide(over)
  \/ \E done \in Pending \cup {0}, note \in BOOLEAN : TurnOver(done, note)
  \/ \E passed \in BOOLEAN : Verdict(passed) \/ MissionOver(passed)

Next ==
  \/ DriverStep \/ Poll \/ Panic \/ Restart \/ BootDecides
  \/ \E o \in Operators : Start(o) \/ Stop(o) \/ PersistMarker(o) \/ MarkerFails(o)
  \/ \E s \in Stories : AddStory(s) \/ SkipStory(s)

Spec == Init /\ [][Next]_vars

(* The driver is polled, its turns, missions and gates end; the boot goes  *)
(* on.  Nobody has to make a request.                                      *)
FairSpec == Spec /\ WF_vars(DriverStep) /\ WF_vars(BootDecides)

-----------------------------------------------------------------------------
(* Properties *)

TypeOK ==
  /\ policy \in Policies /\ active \in BOOLEAN /\ permit \in BOOLEAN
  /\ count \in 0 .. MaxIterations /\ limit \in 0 .. MaxIterations
  /\ reason \in {"none", "operator stop", "budget", "max iterations", "complete",
                 "gate", "stall", "aborted"}
  /\ marker \in BOOLEAN
  /\ story \in [Stories -> {"none", "pending", "done", "skipped"}]
  /\ at \in Inner \cup {"outer", "wait", "begin", "dead"}
  /\ why \in {"none", "operator stop", "budget", "max iterations", "complete"}
  /\ left \in 0 .. Cardinality(Stories) /\ cand \in Stories \cup {0}
  /\ noted \in BOOLEAN
  /\ idle \in Nat /\ fails \in [Stories -> 0 .. MaxMissions]
  /\ arm \in {"none", "verdict", "rescue"} /\ rescued \in BOOLEAN
  /\ boot \in BOOLEAN /\ op \in [Operators -> {"idle", "on", "off"}]
  /\ requests \in 0 .. MaxRequests /\ restarts \in 0 .. MaxFaults
  /\ faults \in 0 .. MaxFaults
  /\ begun \in Nat /\ late \in Nat /\ streak \in Nat
  /\ stopped \in BOOLEAN /\ untimely \in BOOLEAN /\ saved \in BOOLEAN
  /\ missions \in [Stories -> Nat] /\ crossed \in BOOLEAN /\ wanted \in BOOLEAN

(* A run never begins more iterations than it was allowed, solo or         *)
(* delegated, also when it takes over the driver of a run just stopped.    *)
CapHolds == begun <= limit

(* After an acknowledged stop at most the iteration just decided on still  *)
(* begins.                                                                 *)
StopHolds == ~active => late <= 1

(* The breaker bounds the iterations in a row without progress, the one    *)
(* rescue included.                                                        *)
IdleBounded == MaxIdle > 0 => streak <= MaxIdle + (IF policy.escalate THEN 1 ELSE 0)

(* A run said to have stalled had its full slack, unless its start found   *)
(* the driver busy: then it inherits the streak of the run before.         *)
StallIsEarned == reason = "stall" => streak >= MaxIdle \/ untimely

(* "The run's one rescue must never be spent without an armed turn": while *)
(* a run goes on with its rescue spent, the armed turn is next or was fired.*)
RescueIsArmed ==
  at \in {"top", "notes", "mission"} /\ rescued => arm = "rescue" \/ saved

(* No story costs the team more than the bound of failed missions per run, *)
(* whoever else resolves stories meanwhile.                                *)
MissionsBounded == \A s \in Stories : missions[s] <= MaxMissions

(* What a run may cost is bounded on every side, also where the cap, the   *)
(* streak's extension and a story's attempts meet in one run.              *)
Bounded == CapHolds /\ IdleBounded /\ MissionsBounded

(* The status tells the operator that he stopped the run only if he did,   *)
(* unless the notification of a start was left over: it wakes the driver   *)
(* for a run that is not there.                                            *)
StopWasAsked == reason = "operator stop" => stopped \/ untimely

(* A run stops when the operator asks, and says so only then.              *)
StopsWhenAsked == StopHolds /\ StopWasAsked

(* With no marker write under way, lost or overtaken, a restart resumes    *)
(* exactly what the operators last asked for.                              *)
MarkerIsWanted ==
  policy.resume /\ (\A o \in Operators : op[o] = "idle") /\ ~crossed /\ faults = 0
     => (marker <=> wanted)

(* A run ends, while the driver lives: the cap, the breaker and the gate    *)
(* end it whatever the turns, the team and the backlog's users do.         *)
RunEnds == active ~> (~active \/ at = "dead")

(* The guard of a run "clears the flag so the next start can proceed": a   *)
(* started run begins an iteration or ends.                                *)
StartProceeds == active ~> (~active \/ begun > 0)

=============================================================================
