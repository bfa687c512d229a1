-------------------------- MODULE LoopDriver_proofs --------------------------
(***************************************************************************)
(* Proofs about LoopDriver, for any backlog, caps, bounds and operators.   *)
(*                                                                         *)
(* The counts of the doc are counts since the last start, the driver's are *)
(* its own: a start may find it in the middle of the run before.  The      *)
(* shapes say how far the two can be apart at each place of the driver.    *)
(***************************************************************************)
EXTENDS LoopDriver, FiniteSetTheorems, WellFoundedInduction, TLAPS

Busy == {"turn", "gate", "close", "judge", "mission"}

(* As far as the proofs need them. *)
RunTypes ==
  /\ active \in BOOLEAN /\ permit \in BOOLEAN /\ count \in Nat /\ limit \in Nat
  /\ marker \in BOOLEAN /\ faults \in Nat
  /\ op \in [Operators -> {"idle", "on", "off"}]

DriverTypes ==
  /\ at \in Inner \cup {"outer", "wait", "begin", "dead"}
  /\ story \in [Stories -> {"none", "pending", "done", "skipped"}]
  /\ idle \in Nat /\ fails \in [Stories -> Nat] /\ rescued \in BOOLEAN
  /\ at = "mission" => cand \in Stories
  /\ why # "stall"

CountTypes ==
  /\ begun \in Nat /\ late \in Nat /\ streak \in Nat /\ missions \in [Stories -> Nat]
  /\ stopped \in BOOLEAN /\ untimely \in BOOLEAN /\ saved \in BOOLEAN
  /\ crossed \in BOOLEAN /\ wanted \in BOOLEAN

Types == RunTypes /\ DriverTypes /\ CountTypes

(* An iteration is begun below the limit, and counted when its turn is over. *)
CapShape ==
  /\ begun <= limit
  /\ at = "notes" => begun < limit
  /\ at # "dead" => begun <= count + (IF at = "turn" THEN 1 ELSE 0)

(* The streak is the idle count and the rescue, but for a run that is over. *)
IdleShape ==
  /\ rescued => policy.escalate
  /\ MaxIdle > 0 => streak <= MaxIdle + (IF policy.escalate THEN 1 ELSE 0)
  /\ MaxIdle > 0 /\ at \in Inner => idle < MaxIdle
  /\ at \in {"outer", "wait", "begin"} /\ active => streak = 0
  /\ MaxIdle > 0 /\ at \in Inner /\ (active \/ at \notin {"top", "stop"})
       => streak <= idle + (IF rescued THEN 1 ELSE 0)
  /\ at \in Inner => streak >= idle \/ untimely

(* The missions of a story that is still to be done are those that failed. *)
Flying(s) == IF at = "mission" /\ cand = s THEN 1 ELSE 0
MissionShape ==
  /\ at = "mission" => story[cand] # "none"
  /\ \A s \in Stories :
       /\ missions[s] <= MaxMissions
       /\ fails[s] < MaxMissions
       /\ story[s] \in {"none", "pending"} /\ at # "dead"
            => missions[s] <= fails[s] + Flying(s)

LateShape == late <= 1 /\ (at = "notes" /\ ~active => late = 0)

(* Why the driver may find itself awake with no run, but for a start whose *)
(* notification was left over.                                             *)
WakeShape ==
  /\ permit => untimely \/ (at = "wait" /\ (active \/ stopped))
  /\ at \in Inner \cup {"begin"} /\ ~active => stopped \/ untimely
  /\ at = "stop" /\ why = "operator stop" => stopped \/ untimely

(* A stalled run is over, and the driver is not awake for another one.     *)
StallShape ==
  reason = "stall" =>
    ~active /\ (permit \/ at \in Inner \cup {"begin"} => untimely)

RescueShape ==
  /\ at = "mission" => arm # "rescue"
  /\ at \in Busy /\ rescued => saved

(* At most one write of the marker is under way, of the last request. *)
MarkerShape ==
  /\ boot => \A o \in Operators : op[o] = "idle"
  /\ policy.resume /\ ~crossed /\ faults = 0 =>
       \/ (\A o \in Operators : op[o] = "idle") /\ (marker <=> wanted)
       \/ \E o \in Operators : /\ op[o] = IF wanted THEN "on" ELSE "off"
                               /\ \A p \in Operators : op[p] # "idle" => p = o

LoopInv == /\ Types /\ CapShape /\ IdleShape /\ MissionShape /\ LateShape
           /\ WakeShape /\ StallShape /\ RescueShape /\ MarkerShape
           /\ StopWasAsked /\ StallIsEarned /\ RescueIsArmed

-----------------------------------------------------------------------------

(* A start makes a fresh run, also while the driver is in the last one. *)
LEMMA StartKeeps ==
  ASSUME LoopInv, NEW o \in Operators, NEW n \in Caps, RequestStart(n), Asks(o, "on")
  PROVE  LoopInv'
<1>0. /\ n \in Nat /\ limit' = n /\ count' = 0 /\ active' = TRUE /\ permit' = TRUE
      /\ begun' = 0 /\ late' = 0 /\ streak' = 0 /\ stopped' = FALSE
      /\ untimely' = (untimely \/ at # "wait") /\ reason' = "none"
      /\ UNCHANGED <<policy, at, why, story, cand, idle, rescued>>
  BY LoopAssumption DEF RequestStart, Asks, iteration, breaker
<1>1. RunTypes'
  BY LoopAssumption DEF RunTypes, Types, LoopInv, RequestStart, Asks
<1>2. DriverTypes'
  BY DEF DriverTypes, Types, LoopInv, RequestStart, Asks, iteration, breaker
<1>3. CountTypes'
  BY DEF CountTypes, Types, LoopInv, RequestStart, Asks
<1>4. CapShape'
  BY <1>0, LoopAssumption DEF CapShape, Types, LoopInv
<1>5. IdleShape'
  <2>1. /\ rescued' => policy'.escalate
        /\ MaxIdle > 0 => streak' <= MaxIdle + (IF policy'.escalate THEN 1 ELSE 0)
        /\ MaxIdle > 0 /\ at' \in Inner => idle' < MaxIdle
        /\ at' \in {"outer", "wait", "begin"} /\ active' => streak' = 0
    BY <1>0, LoopAssumption DEF LoopInv, IdleShape
  <2>2. MaxIdle > 0 /\ at' \in Inner /\ (active' \/ at' \notin {"top", "stop"})
          => streak' <= idle' + (IF rescued' THEN 1 ELSE 0)
    BY <1>0 DEF LoopInv, Types, DriverTypes
  <2>3. at' \in Inner => streak' >= idle' \/ untimely'
    BY <1>0 DEF Inner
  <2>. QED BY <2>1, <2>2, <2>3, SMTT(20) DEF IdleShape
<1>6. MissionShape'
  BY DEF MissionShape, Types, Flying, LoopInv, RequestStart, Asks, iteration,
     breaker
<1>7. LateShape'
  BY DEF LateShape, Types, LoopInv, RequestStart
<1>8. WakeShape'
  BY <1>0 DEF WakeShape, Types, LoopInv
<1>9. StallShape'
  BY DEF StallShape, Types, LoopInv, RequestStart
<1>10. RescueShape'
  BY DEF RescueShape, Types, LoopInv, RequestStart, Asks, breaker
<1>11. MarkerShape'
  BY DEF MarkerShape, Types, RunTypes, LoopInv, RequestStart, Asks
<1>12. StopWasAsked'
  BY DEF StopWasAsked, Types, LoopInv, RequestStart
<1>13. StallIsEarned'
  BY DEF StallIsEarned, Types, LoopInv, RequestStart
<1>14. RescueIsArmed'
  BY DEF RescueIsArmed, Types, LoopInv, RequestStart, Asks, breaker
<1>. QED BY <1>1, <1>2, <1>3, <1>4, <1>5, <1>6, <1>7, <1>8, <1>9, <1>10,
     <1>11, <1>12, <1>13, <1>14 DEF LoopInv, Types

(* A stop ends the run and leaves the driver where it is. *)
LEMMA StopKeeps ==
  ASSUME LoopInv, NEW o \in Operators, Stop(o)
  PROVE  LoopInv'
<1>1. RunTypes'
  BY DEF RunTypes, Types, LoopInv, Stop, Asks
<1>2. DriverTypes'
  BY DEF DriverTypes, Types, LoopInv, Stop, Asks, iteration, breaker
<1>3. CountTypes'
  BY DEF CountTypes, Types, LoopInv, Stop, Asks
<1>4. CapShape'
  BY DEF CapShape, Types, LoopInv, Stop, Asks
<1>5. IdleShape'
  BY DEF IdleShape, Types, LoopInv, Stop, Asks, breaker
<1>6. MissionShape'
  BY DEF MissionShape, Types, Flying, LoopInv, Stop, Asks, iteration, breaker
<1>7. LateShape'
  BY DEF LateShape, Types, LoopInv, Stop
<1>8. WakeShape'
  BY DEF WakeShape, Types, LoopInv, Stop, Asks
<1>9. StallShape'
  BY DEF StallShape, Types, LoopInv, Stop
<1>10. RescueShape'
  BY DEF RescueShape, Types, LoopInv, Stop, Asks, breaker
<1>11. MarkerShape'
  BY DEF MarkerShape, Types, RunTypes, LoopInv, Stop, Asks
<1>12. StopWasAsked'
  BY DEF StopWasAsked, Types, LoopInv, Stop
<1>13. StallIsEarned'
  BY DEF StallIsEarned, Types, LoopInv, Stop
<1>14. RescueIsArmed'
  BY DEF RescueIsArmed, Types, LoopInv, Stop, Asks, breaker
<1>. QED BY <1>1, <1>2, <1>3, <1>4, <1>5, <1>6, <1>7, <1>8, <1>9, <1>10,
     <1>11, <1>12, <1>13, <1>14 DEF LoopInv, Types

(* A marker that cannot be written leaves what the store had. *)
LEMMA MarkerFailsKeeps ==
  ASSUME LoopInv, NEW o \in Operators, MarkerFails(o)
  PROVE  LoopInv'
<1>1. RunTypes'
  BY DEF RunTypes, Types, LoopInv, MarkerFails, Marks, runState
<1>2. DriverTypes'
  BY DEF DriverTypes, Types, LoopInv, MarkerFails, Marks, iteration, breaker
<1>3. CountTypes'
  BY DEF CountTypes, Types, LoopInv, MarkerFails, Marks, ghosts
<1>4. CapShape'
  BY DEF CapShape, Types, LoopInv, MarkerFails, Marks, runState, ghosts
<1>5. IdleShape'
  BY DEF IdleShape, Types, LoopInv, MarkerFails, Marks, runState, breaker,
     ghosts
<1>6. MissionShape'
  BY DEF MissionShape, Types, Flying, LoopInv, MarkerFails, Marks, iteration,
     breaker, ghosts
<1>7. LateShape'
  BY DEF LateShape, Types, LoopInv, MarkerFails, Marks, runState, ghosts
<1>8. WakeShape'
  BY DEF WakeShape, Types, LoopInv, MarkerFails, Marks, runState, ghosts
<1>9. StallShape'
  BY DEF StallShape, Types, LoopInv, MarkerFails, Marks, runState, ghosts
<1>10. RescueShape'
  BY DEF RescueShape, Types, LoopInv, MarkerFails, Marks, breaker, ghosts
<1>11. MarkerShape'
  BY DEF MarkerShape, Types, RunTypes, LoopInv, MarkerFails, Marks
<1>12. StopWasAsked'
  BY DEF StopWasAsked, Types, LoopInv, MarkerFails, Marks, runState, ghosts
<1>13. StallIsEarned'
  BY DEF StallIsEarned, Types, LoopInv, MarkerFails, Marks, runState, ghosts
<1>14. RescueIsArmed'
  BY DEF RescueIsArmed, Types, LoopInv, MarkerFails, Marks, breaker, ghosts
<1>. QED BY <1>1, <1>2, <1>3, <1>4, <1>5, <1>6, <1>7, <1>8, <1>9, <1>10,
     <1>11, <1>12, <1>13, <1>14 DEF LoopInv, Types

(* The marker becomes what the operator asked for last. *)
LEMMA MarkerKeeps ==
  ASSUME LoopInv, NEW o \in Operators, PersistMarker(o)
  PROVE  LoopInv'
<1>1. RunTypes'
  BY DEF RunTypes, Types, LoopInv, PersistMarker, Marks, runState
<1>2. DriverTypes'
  BY DEF DriverTypes, Types, LoopInv, PersistMarker, Marks, iteration, breaker
<1>3. CountTypes'
  BY DEF CountTypes, Types, LoopInv, PersistMarker, Marks, ghosts
<1>4. CapShape'
  BY DEF CapShape, Types, LoopInv, PersistMarker, Marks, runState, ghosts
<1>5. IdleShape'
  BY DEF IdleShape, Types, LoopInv, PersistMarker, Marks, runState, breaker,
     ghosts
<1>6. MissionShape'
  BY DEF MissionShape, Types, Flying, LoopInv, PersistMarker, Marks, iteration,
     breaker, ghosts
<1>7. LateShape'
  BY DEF LateShape, Types, LoopInv, PersistMarker, Marks, runState, ghosts
<1>8. WakeShape'
  BY DEF WakeShape, Types, LoopInv, PersistMarker, Marks, runState, ghosts
<1>9. StallShape'
  BY DEF StallShape, Types, LoopInv, PersistMarker, Marks, runState, ghosts
<1>10. RescueShape'
  BY DEF RescueShape, Types, LoopInv, PersistMarker, Marks, breaker, ghosts
<1>11. MarkerShape'
  BY DEF MarkerShape, Types, RunTypes, LoopInv, PersistMarker, Marks, ghosts
<1>12. StopWasAsked'
  BY DEF StopWasAsked, Types, LoopInv, PersistMarker, Marks, runState, ghosts
<1>13. StallIsEarned'
  BY DEF StallIsEarned, Types, LoopInv, PersistMarker, Marks, runState, ghosts
<1>14. RescueIsArmed'
  BY DEF RescueIsArmed, Types, LoopInv, PersistMarker, Marks, breaker, ghosts
<1>. QED BY <1>1, <1>2, <1>3, <1>4, <1>5, <1>6, <1>7, <1>8, <1>9, <1>10,
     <1>11, <1>12, <1>13, <1>14 DEF LoopInv, Types

(* A story added or skipped moves no counter of the driver. *)
LEMMA BacklogKept ==
  ASSUME LoopInv, NEW s \in Stories, AddStory(s) \/ SkipStory(s)
  PROVE  LoopInv'
<1>1. RunTypes'
  BY DEF RunTypes, Types, LoopInv, AddStory, SkipStory, BacklogKeeps, runState
<1>2. DriverTypes'
  BY DEF DriverTypes, Types, LoopInv, AddStory, SkipStory, Resolve,
     BacklogKeeps, iteration, breaker
<1>3. CountTypes'
  BY DEF CountTypes, Types, LoopInv, AddStory, SkipStory, BacklogKeeps, ghosts
<1>4. CapShape'
  BY DEF CapShape, Types, LoopInv, AddStory, SkipStory, BacklogKeeps, runState,
     ghosts
<1>5. IdleShape'
  BY DEF IdleShape, Types, LoopInv, AddStory, SkipStory, BacklogKeeps, runState,
     breaker, ghosts
<1>6. MissionShape'
  <2>1. UNCHANGED <<at, cand, missions, fails>>
    BY DEF AddStory, SkipStory, BacklogKeeps, iteration, breaker, ghosts
  <2>2. \A r \in Stories : /\ story'[r] = "none" => story[r] = "none"
                           /\ story'[r] = "pending" => story[r] \in {"none", "pending"}
    BY DEF LoopInv, Types, DriverTypes, AddStory, SkipStory, Resolve
  <2>3. at = "mission" => cand \in Stories /\ story[cand] # "none"
    BY DEF LoopInv, Types, DriverTypes, MissionShape
  <2>4. at' = "mission" => story'[cand'] # "none"
    BY <2>1, <2>2, <2>3
  <2>5. \A r \in Stories : Flying(r)' = Flying(r)
    BY <2>1 DEF Flying
  <2>. QED BY <2>1, <2>2, <2>4, <2>5 DEF LoopInv, MissionShape
<1>7. LateShape'
  BY DEF LateShape, Types, LoopInv, AddStory, SkipStory, BacklogKeeps, runState,
     ghosts
<1>8. WakeShape'
  <2>1. UNCHANGED <<permit, untimely, at, active, stopped, why>>
    BY DEF AddStory, SkipStory, BacklogKeeps, runState, ghosts
  <2>. QED BY <2>1 DEF LoopInv, WakeShape
<1>9. StallShape'
  BY DEF StallShape, Types, LoopInv, AddStory, SkipStory, BacklogKeeps,
     runState, ghosts
<1>10. RescueShape'
  BY DEF RescueShape, Types, LoopInv, AddStory, SkipStory, BacklogKeeps,
     breaker, ghosts
<1>11. MarkerShape'
  BY DEF MarkerShape, Types, LoopInv, AddStory, SkipStory, BacklogKeeps, ghosts
<1>12. StopWasAsked'
  BY DEF StopWasAsked, Types, LoopInv, AddStory, SkipStory, BacklogKeeps,
     runState, ghosts
<1>13. StallIsEarned'
  BY DEF StallIsEarned, Types, LoopInv, AddStory, SkipStory, BacklogKeeps,
     runState, ghosts
<1>14. RescueIsArmed'
  BY DEF RescueIsArmed, Types, LoopInv, AddStory, SkipStory, BacklogKeeps,
     breaker, ghosts
<1>. QED BY <1>1, <1>2, <1>3, <1>4, <1>5, <1>6, <1>7, <1>8, <1>9, <1>10,
     <1>11, <1>12, <1>13, <1>14 DEF LoopInv, Types

(* A boot with nothing to resume leaves the driver idle. *)
LEMMA BootIdles ==
  ASSUME LoopInv, BootDecides, ~(policy.resume /\ marker /\ Pending # {})
  PROVE  LoopInv'
<1>1. RunTypes'
  BY DEF RunTypes, Types, LoopInv, BootDecides, runState, bounds
<1>2. DriverTypes'
  BY DEF DriverTypes, Types, LoopInv, BootDecides, iteration, breaker
<1>3. CountTypes'
  BY DEF CountTypes, Types, LoopInv, BootDecides
<1>4. CapShape'
  BY DEF CapShape, Types, LoopInv, BootDecides, runState
<1>5. IdleShape'
  BY DEF IdleShape, Types, LoopInv, BootDecides, runState, breaker
<1>6. MissionShape'
  BY DEF MissionShape, Types, Flying, LoopInv, BootDecides, iteration, breaker
<1>7. LateShape'
  BY DEF LateShape, Types, LoopInv, BootDecides, runState
<1>8. WakeShape'
  BY DEF WakeShape, Types, LoopInv, BootDecides, runState
<1>9. StallShape'
  BY DEF StallShape, Types, LoopInv, BootDecides, runState
<1>10. RescueShape'
  BY DEF RescueShape, Types, LoopInv, BootDecides, breaker
<1>11. MarkerShape'
  BY DEF MarkerShape, Types, LoopInv, BootDecides, bounds
<1>12. StopWasAsked'
  BY DEF StopWasAsked, Types, LoopInv, BootDecides, runState
<1>13. StallIsEarned'
  BY DEF StallIsEarned, Types, LoopInv, BootDecides, runState
<1>14. RescueIsArmed'
  BY DEF RescueIsArmed, Types, LoopInv, BootDecides, breaker
<1>. QED BY <1>1, <1>2, <1>3, <1>4, <1>5, <1>6, <1>7, <1>8, <1>9, <1>10,
     <1>11, <1>12, <1>13, <1>14 DEF LoopInv, Types

(* A boot that resumes starts a run as an operator would. *)
LEMMA BootResumes ==
  ASSUME LoopInv, BootDecides, policy.resume /\ marker /\ Pending # {}
  PROVE  LoopInv'
<1>0. /\ active' = TRUE /\ permit' = TRUE /\ count' = 0 /\ limit' = MaxIterations
      /\ begun' = 0 /\ late' = 0 /\ streak' = 0 /\ stopped' = FALSE /\ wanted' = TRUE
      /\ untimely' = (untimely \/ at # "wait") /\ MaxIterations \in Nat
      /\ UNCHANGED <<policy, at, why, story, cand, idle, rescued, saved, missions,
                    crossed, marker, op, faults>>
  BY LoopAssumption DEF BootDecides, RequestStart, iteration, breaker, bounds
<1>1. RunTypes'
  BY <1>0 DEF RunTypes, Types, LoopInv
<1>2. DriverTypes'
  BY DEF DriverTypes, Types, LoopInv, BootDecides, RequestStart, iteration,
     breaker
<1>3. CountTypes'
  BY <1>0 DEF CountTypes, Types, LoopInv
<1>4. CapShape'
  BY <1>0, LoopAssumption DEF CapShape, Types, LoopInv
<1>5. IdleShape'
  <2>1. /\ rescued' => policy'.escalate
        /\ MaxIdle > 0 => streak' <= MaxIdle + (IF policy'.escalate THEN 1 ELSE 0)
        /\ MaxIdle > 0 /\ at' \in Inner => idle' < MaxIdle
        /\ at' \in {"outer", "wait", "begin"} /\ active' => streak' = 0
    BY <1>0, LoopAssumption DEF LoopInv, IdleShape
  <2>2. MaxIdle > 0 /\ at' \in Inner /\ (active' \/ at' \notin {"top", "stop"})
          => streak' <= idle' + (IF rescued' THEN 1 ELSE 0)
    BY <1>0 DEF LoopInv, Types, DriverTypes
  <2>3. at' \in Inner => streak' >= idle' \/ untimely'
    BY <1>0 DEF Inner
  <2>. QED BY <2>1, <2>2, <2>3, SMTT(20) DEF IdleShape
<1>6. MissionShape'
  BY DEF MissionShape, Types, Flying, LoopInv, BootDecides, RequestStart,
     iteration, breaker
<1>7. LateShape'
  BY DEF LateShape, Types, LoopInv, BootDecides, RequestStart
<1>8. WakeShape'
  BY DEF WakeShape, Types, LoopInv, BootDecides, RequestStart
<1>9. StallShape'
  BY DEF StallShape, Types, LoopInv, BootDecides, RequestStart
<1>10. RescueShape'
  BY DEF RescueShape, Types, LoopInv, BootDecides, RequestStart, breaker
<1>11. MarkerShape'
  BY DEF MarkerShape, Types, LoopInv, BootDecides, RequestStart
<1>12. StopWasAsked'
  BY DEF StopWasAsked, Types, LoopInv, BootDecides, RequestStart
<1>13. StallIsEarned'
  BY DEF StallIsEarned, Types, LoopInv, BootDecides, RequestStart
<1>14. RescueIsArmed'
  BY DEF RescueIsArmed, Types, LoopInv, BootDecides, RequestStart, breaker
<1>. QED BY <1>1, <1>2, <1>3, <1>4, <1>5, <1>6, <1>7, <1>8, <1>9, <1>10,
     <1>11, <1>12, <1>13, <1>14 DEF LoopInv, Types

(* The driver waits, or enters an active run. *)
LEMMA OuterKeeps ==
  ASSUME LoopInv, Outer
  PROVE  LoopInv'
<1>1. RunTypes'
  BY DEF RunTypes, Types, LoopInv, Outer, Keeps, DriverKeeps, bounds
<1>2. DriverTypes'
  BY DEF DriverTypes, Types, LoopInv, Outer, Keeps, DriverKeeps, breaker
<1>3. CountTypes'
  BY DEF CountTypes, Types, LoopInv, Outer, Keeps, DriverKeeps
<1>4. CapShape'
  BY DEF CapShape, Types, LoopInv, Outer, Keeps, DriverKeeps
<1>5. IdleShape'
  BY DEF IdleShape, Types, Inner, LoopInv, Outer, Keeps, DriverKeeps, breaker
<1>6. MissionShape'
  BY DEF MissionShape, Types, Flying, LoopInv, Outer, Keeps, DriverKeeps,
     breaker
<1>7. LateShape'
  BY DEF LateShape, Types, LoopInv, Outer, Keeps, DriverKeeps
<1>8. WakeShape'
  BY DEF WakeShape, Types, Inner, LoopInv, Outer, Keeps, DriverKeeps
<1>9. StallShape'
  BY DEF StallShape, Types, Inner, LoopInv, Outer, Keeps, DriverKeeps
<1>10. RescueShape'
  BY DEF RescueShape, Types, Busy, LoopInv, Outer, Keeps, DriverKeeps
<1>11. MarkerShape'
  BY DEF MarkerShape, Types, LoopInv, Outer, Keeps, DriverKeeps, bounds
<1>12. StopWasAsked'
  BY DEF StopWasAsked, Types, LoopInv, Outer, Keeps, DriverKeeps
<1>13. StallIsEarned'
  BY DEF StallIsEarned, Types, LoopInv, Outer, Keeps, DriverKeeps
<1>14. RescueIsArmed'
  BY DEF RescueIsArmed, Types, LoopInv, Outer, Keeps, DriverKeeps
<1>. QED BY <1>1, <1>2, <1>3, <1>4, <1>5, <1>6, <1>7, <1>8, <1>9, <1>10,
     <1>11, <1>12, <1>13, <1>14 DEF LoopInv, Types

(* The driver takes the permit a start left. *)
LEMMA WokenKeeps ==
  ASSUME LoopInv, Woken
  PROVE  LoopInv'
<1>1. RunTypes'
  BY DEF RunTypes, Types, LoopInv, Woken, DriverKeeps, bounds
<1>2. DriverTypes'
  BY DEF DriverTypes, Types, LoopInv, Woken, DriverKeeps, breaker
<1>3. CountTypes'
  BY DEF CountTypes, Types, LoopInv, Woken, DriverKeeps
<1>4. CapShape'
  BY DEF CapShape, Types, LoopInv, Woken, DriverKeeps
<1>5. IdleShape'
  BY DEF IdleShape, Types, Inner, LoopInv, Woken, DriverKeeps, breaker
<1>6. MissionShape'
  BY DEF MissionShape, Types, Flying, LoopInv, Woken, DriverKeeps, breaker
<1>7. LateShape'
  BY DEF LateShape, Types, LoopInv, Woken, DriverKeeps
<1>8. WakeShape'
  BY DEF WakeShape, Types, LoopInv, Woken, DriverKeeps
<1>9. StallShape'
  BY DEF StallShape, Types, LoopInv, Woken, DriverKeeps
<1>10. RescueShape'
  BY DEF RescueShape, Types, Busy, LoopInv, Woken, DriverKeeps
<1>11. MarkerShape'
  BY DEF MarkerShape, Types, LoopInv, Woken, DriverKeeps, bounds
<1>12. StopWasAsked'
  BY DEF StopWasAsked, Types, LoopInv, Woken, DriverKeeps
<1>13. StallIsEarned'
  BY DEF StallIsEarned, Types, LoopInv, Woken, DriverKeeps
<1>14. RescueIsArmed'
  BY DEF RescueIsArmed, Types, LoopInv, Woken, DriverKeeps
<1>. QED BY <1>1, <1>2, <1>3, <1>4, <1>5, <1>6, <1>7, <1>8, <1>9, <1>10,
     <1>11, <1>12, <1>13, <1>14 DEF LoopInv, Types

(* The driver looks again without taking the permit. *)
LEMMA PollKeeps ==
  ASSUME LoopInv, Poll
  PROVE  LoopInv'
<1>1. RunTypes'
  BY DEF RunTypes, Types, LoopInv, Poll, runState, bounds
<1>2. DriverTypes'
  BY DEF DriverTypes, Types, LoopInv, Poll, breaker
<1>3. CountTypes'
  BY DEF CountTypes, Types, LoopInv, Poll
<1>4. CapShape'
  BY DEF CapShape, Types, LoopInv, Poll, runState
<1>5. IdleShape'
  BY DEF IdleShape, Types, Inner, LoopInv, Poll, runState, breaker
<1>6. MissionShape'
  BY DEF MissionShape, Types, Flying, LoopInv, Poll, breaker
<1>7. LateShape'
  BY DEF LateShape, Types, LoopInv, Poll
<1>8. WakeShape'
  BY DEF WakeShape, Types, Inner, LoopInv, Poll, runState
<1>9. StallShape'
  BY DEF StallShape, Types, Inner, LoopInv, Poll, runState
<1>10. RescueShape'
  BY DEF RescueShape, Types, Busy, LoopInv, Poll
<1>11. MarkerShape'
  BY DEF MarkerShape, Types, LoopInv, Poll, bounds
<1>12. StopWasAsked'
  BY DEF StopWasAsked, Types, LoopInv, Poll, runState
<1>13. StallIsEarned'
  BY DEF StallIsEarned, Types, LoopInv, Poll, runState
<1>14. RescueIsArmed'
  BY DEF RescueIsArmed, Types, LoopInv, Poll
<1>. QED BY <1>1, <1>2, <1>3, <1>4, <1>5, <1>6, <1>7, <1>8, <1>9, <1>10,
     <1>11, <1>12, <1>13, <1>14 DEF LoopInv, Types

(* The driver enters a run with its gate and fresh counters. *)
LEMMA BeginKeeps ==
  ASSUME LoopInv, NEW green \in BOOLEAN, Begin(green)
  PROVE  LoopInv'
<1>1. RunTypes'
  BY DEF RunTypes, Types, LoopInv, Begin, FinishRun, FreshBreaker, DriverKeeps,
     bounds
<1>2. DriverTypes'
  BY DEF DriverTypes, Types, Inner, LoopInv, Begin, FreshBreaker, NoFails,
     DriverKeeps
<1>3. CountTypes'
  BY DEF CountTypes, Types, LoopInv, Begin, FreshBreaker, NoFails, DriverKeeps
<1>4. CapShape'
  BY DEF CapShape, Types, LoopInv, Begin, FreshBreaker, DriverKeeps
<1>5. IdleShape'
  BY DEF IdleShape, Types, CountTypes, Inner, LoopInv, Begin, FinishRun,
     FreshBreaker, DriverKeeps
<1>6. MissionShape'
  BY LoopAssumption DEF MissionShape, Types, Flying, LoopInv, Begin,
     FreshBreaker, NoFails, DriverKeeps
<1>7. LateShape'
  BY DEF LateShape, Types, LoopInv, Begin, FreshBreaker, DriverKeeps
<1>8. WakeShape'
  BY DEF WakeShape, Types, Inner, LoopInv, Begin, FreshBreaker, DriverKeeps
<1>9. StallShape'
  BY DEF StallShape, Types, LoopInv, Begin, FinishRun, FreshBreaker, DriverKeeps
<1>10. RescueShape'
  BY DEF RescueShape, Types, LoopInv, Begin, FreshBreaker, DriverKeeps
<1>11. MarkerShape'
  BY DEF MarkerShape, Types, LoopInv, Begin, FreshBreaker, DriverKeeps, bounds
<1>12. StopWasAsked'
  BY DEF StopWasAsked, Types, LoopInv, Begin, FinishRun, FreshBreaker,
     DriverKeeps
<1>13. StallIsEarned'
  BY DEF StallIsEarned, Types, LoopInv, Begin, FinishRun, FreshBreaker,
     DriverKeeps
<1>14. RescueIsArmed'
  BY DEF RescueIsArmed, Types, LoopInv, Begin, FreshBreaker, DriverKeeps
<1>. QED BY <1>1, <1>2, <1>3, <1>4, <1>5, <1>6, <1>7, <1>8, <1>9, <1>10,
     <1>11, <1>12, <1>13, <1>14 DEF LoopInv, Types

(* A decision that ends the run begins no iteration. *)
LEMMA DecideEnds ==
  ASSUME LoopInv, NEW over \in BOOLEAN, Decide(over), Decision(over) # "continue"
  PROVE  LoopInv'
<1>1. RunTypes'
  BY DEF RunTypes, Types, LoopInv, Decide, DriverKeeps, bounds
<1>2. DriverTypes'
  BY DEF DriverTypes, Types, Inner, LoopInv, Decide, Decision, DriverKeeps,
     breaker
<1>3. CountTypes'
  BY DEF CountTypes, Types, LoopInv, Decide, DriverKeeps
<1>4. CapShape'
  BY DEF CapShape, Types, LoopInv, Decide, DriverKeeps
<1>5. IdleShape'
  BY DEF IdleShape, Types, Inner, LoopInv, Decide, DriverKeeps, breaker
<1>6. MissionShape'
  BY DEF MissionShape, Types, Flying, LoopInv, Decide, DriverKeeps, breaker
<1>7. LateShape'
  BY DEF LateShape, Types, LoopInv, Decide, DriverKeeps
<1>8. WakeShape'
  BY DEF WakeShape, Types, Inner, LoopInv, Decide, Decision, DriverKeeps
<1>9. StallShape'
  BY DEF StallShape, Types, Inner, LoopInv, Decide, DriverKeeps
<1>10. RescueShape'
  BY DEF RescueShape, Types, Busy, LoopInv, Decide, DriverKeeps
<1>11. MarkerShape'
  BY DEF MarkerShape, Types, LoopInv, Decide, DriverKeeps, bounds
<1>12. StopWasAsked'
  BY DEF StopWasAsked, Types, LoopInv, Decide, DriverKeeps
<1>13. StallIsEarned'
  BY DEF StallIsEarned, Types, LoopInv, Decide, DriverKeeps
<1>14. RescueIsArmed'
  BY DEF RescueIsArmed, Types, LoopInv, Decide, DriverKeeps
<1>. QED BY <1>1, <1>2, <1>3, <1>4, <1>5, <1>6, <1>7, <1>8, <1>9, <1>10,
     <1>11, <1>12, <1>13, <1>14 DEF LoopInv, Types

(* An iteration that is not delegated leads to a turn. *)
LEMMA DecideFires ==
  ASSUME LoopInv, NEW over \in BOOLEAN, Decide(over), Decision(over) = "continue", ~Delegates
  PROVE  LoopInv'
<1>0. /\ at = "top" /\ at' = "notes" /\ active /\ ~(count >= limit)
      /\ UNCHANGED <<count, limit, begun, late, active>>
  BY DEF Decide, Decision, DriverKeeps
<1>1. RunTypes'
  BY DEF RunTypes, Types, LoopInv, Decide, DriverKeeps, bounds
<1>2. DriverTypes'
  BY DEF DriverTypes, Types, Inner, LoopInv, Decide, DriverKeeps, breaker
<1>3. CountTypes'
  BY DEF CountTypes, Types, LoopInv, Decide, DriverKeeps
<1>4. CapShape'
  BY <1>0 DEF CapShape, Types, RunTypes, CountTypes, LoopInv
<1>5. IdleShape'
  BY DEF IdleShape, Types, Inner, LoopInv, Decide, Decision, DriverKeeps,
     breaker
<1>6. MissionShape'
  BY DEF MissionShape, Types, Flying, LoopInv, Decide, DriverKeeps, breaker
<1>7. LateShape'
  BY DEF LateShape, Types, LoopInv, Decide, Decision, DriverKeeps
<1>8. WakeShape'
  BY DEF WakeShape, Types, LoopInv, Decide, Decision, DriverKeeps
<1>9. StallShape'
  BY DEF StallShape, Types, LoopInv, Decide, Decision, DriverKeeps
<1>10. RescueShape'
  BY DEF RescueShape, Types, Busy, LoopInv, Decide, DriverKeeps
<1>11. MarkerShape'
  BY DEF MarkerShape, Types, LoopInv, Decide, DriverKeeps, bounds
<1>12. StopWasAsked'
  BY DEF StopWasAsked, Types, LoopInv, Decide, DriverKeeps
<1>13. StallIsEarned'
  BY DEF StallIsEarned, Types, LoopInv, Decide, DriverKeeps
<1>14. RescueIsArmed'
  BY DEF RescueIsArmed, Types, LoopInv, Decide, DriverKeeps, breaker
<1>. QED BY <1>1, <1>2, <1>3, <1>4, <1>5, <1>6, <1>7, <1>8, <1>9, <1>10,
     <1>11, <1>12, <1>13, <1>14 DEF LoopInv, Types

(* An iteration with delegation takes the next pending story. *)
LEMMA DecideDelegates ==
  ASSUME LoopInv, NEW over \in BOOLEAN, Decide(over), Decision(over) = "continue", Delegates
  PROVE  LoopInv'
<1>0. /\ at = "top" /\ at' = "mission" /\ active /\ ~(count >= limit)
      /\ cand' = NextStory /\ NextStory \in Stories /\ story[NextStory] = "pending"
      /\ count' = count + 1 /\ begun' = begun + 1
      /\ missions' = [missions EXCEPT ![NextStory] = @ + 1]
      /\ UNCHANGED <<limit, late, active, permit, marker, faults, op, story, fails, streak,
                    stopped, untimely, saved, crossed, wanted>>
  BY DEF Decide, Decision, Delegates, IterationBegins, Pending, DriverKeeps,
     breaker, bounds
<1>1. RunTypes'
  BY <1>0 DEF RunTypes, Types, LoopInv
<1>2. DriverTypes'
  BY DEF DriverTypes, Types, Inner, LoopInv, Decide, Delegates, Pending,
     DriverKeeps, breaker
<1>3. CountTypes'
  BY <1>0 DEF CountTypes, Types, LoopInv
<1>4. CapShape'
  BY <1>0 DEF CapShape, Types, RunTypes, CountTypes, LoopInv
<1>5. IdleShape'
  BY DEF IdleShape, Types, Inner, LoopInv, Decide, Decision, Delegates,
     DriverKeeps, breaker
<1>6. MissionShape'
  BY <1>0, LoopAssumption DEF MissionShape, Types, DriverTypes, CountTypes,
     Flying, LoopInv
<1>7. LateShape'
  BY DEF LateShape, Types, LoopInv, Decide, Decision, Delegates,
     IterationBegins, DriverKeeps
<1>8. WakeShape'
  BY DEF WakeShape, Types, LoopInv, Decide, Decision, Delegates, DriverKeeps
<1>9. StallShape'
  BY DEF StallShape, Types, LoopInv, Decide, Decision, Delegates, DriverKeeps
<1>10. RescueShape'
  BY DEF RescueShape, Types, RescueIsArmed, LoopInv, Decide, Delegates,
     DriverKeeps, breaker
<1>11. MarkerShape'
  BY DEF MarkerShape, Types, LoopInv, Decide, Delegates, DriverKeeps, bounds
<1>12. StopWasAsked'
  BY DEF StopWasAsked, Types, LoopInv, Decide, Delegates, DriverKeeps
<1>13. StallIsEarned'
  BY DEF StallIsEarned, Types, LoopInv, Decide, Delegates, DriverKeeps
<1>14. RescueIsArmed'
  BY DEF RescueIsArmed, Types, LoopInv, Decide, Delegates, DriverKeeps, breaker
<1>. QED BY <1>1, <1>2, <1>3, <1>4, <1>5, <1>6, <1>7, <1>8, <1>9, <1>10,
     <1>11, <1>12, <1>13, <1>14 DEF LoopInv, Types

(* The run ends with the reason the driver gave. *)
LEMMA EndRunKeeps ==
  ASSUME LoopInv, EndRun
  PROVE  LoopInv'
<1>1. RunTypes'
  BY DEF RunTypes, Types, LoopInv, EndRun, FinishRun, DriverKeeps, bounds
<1>2. DriverTypes'
  BY DEF DriverTypes, Types, LoopInv, EndRun, DriverKeeps, breaker
<1>3. CountTypes'
  BY DEF CountTypes, Types, LoopInv, EndRun, DriverKeeps
<1>4. CapShape'
  BY DEF CapShape, Types, LoopInv, EndRun, DriverKeeps
<1>5. IdleShape'
  BY DEF IdleShape, Types, Inner, LoopInv, EndRun, FinishRun, DriverKeeps,
     breaker
<1>6. MissionShape'
  BY DEF MissionShape, Types, Flying, LoopInv, EndRun, DriverKeeps, breaker
<1>7. LateShape'
  BY DEF LateShape, Types, LoopInv, EndRun, DriverKeeps
<1>8. WakeShape'
  BY DEF WakeShape, Types, Inner, LoopInv, EndRun, DriverKeeps
<1>9. StallShape'
  BY DEF StallShape, Types, Inner, WakeShape, LoopInv, EndRun, FinishRun,
     DriverKeeps
<1>10. RescueShape'
  BY DEF RescueShape, Types, Busy, LoopInv, EndRun, DriverKeeps
<1>11. MarkerShape'
  BY DEF MarkerShape, Types, LoopInv, EndRun, DriverKeeps, bounds
<1>12. StopWasAsked'
  BY DEF StopWasAsked, Types, WakeShape, LoopInv, EndRun, FinishRun, DriverKeeps
<1>13. StallIsEarned'
  BY DEF StallIsEarned, Types, DriverTypes, LoopInv, EndRun, FinishRun,
     DriverKeeps
<1>14. RescueIsArmed'
  BY DEF RescueIsArmed, Types, LoopInv, EndRun, DriverKeeps
<1>. QED BY <1>1, <1>2, <1>3, <1>4, <1>5, <1>6, <1>7, <1>8, <1>9, <1>10,
     <1>11, <1>12, <1>13, <1>14 DEF LoopInv, Types

(* The turn is fired with the rescue that was armed for it. *)
LEMMA FireKeeps ==
  ASSUME LoopInv, Fire
  PROVE  LoopInv'
<1>1. RunTypes'
  BY DEF RunTypes, Types, LoopInv, Fire, DriverKeeps, bounds
<1>2. DriverTypes'
  BY DEF DriverTypes, Types, Inner, LoopInv, Fire, DriverKeeps
<1>3. CountTypes'
  BY DEF CountTypes, Types, LoopInv, Fire, IterationBegins, DriverKeeps
<1>4. CapShape'
  BY DEF CapShape, Types, RunTypes, CountTypes, LoopInv, Fire, IterationBegins,
     DriverKeeps
<1>5. IdleShape'
  BY DEF IdleShape, Types, Inner, LoopInv, Fire, DriverKeeps
<1>6. MissionShape'
  BY DEF MissionShape, Types, Flying, LoopInv, Fire, DriverKeeps
<1>7. LateShape'
  BY DEF LateShape, Types, LoopInv, Fire, IterationBegins, DriverKeeps
<1>8. WakeShape'
  BY DEF WakeShape, Types, Inner, LoopInv, Fire, DriverKeeps
<1>9. StallShape'
  BY DEF StallShape, Types, Inner, LoopInv, Fire, DriverKeeps
<1>10. RescueShape'
  BY DEF RescueShape, Types, RescueIsArmed, LoopInv, Fire, DriverKeeps
<1>11. MarkerShape'
  BY DEF MarkerShape, Types, LoopInv, Fire, DriverKeeps, bounds
<1>12. StopWasAsked'
  BY DEF StopWasAsked, Types, LoopInv, Fire, DriverKeeps
<1>13. StallIsEarned'
  BY DEF StallIsEarned, Types, LoopInv, Fire, DriverKeeps
<1>14. RescueIsArmed'
  BY DEF RescueIsArmed, Types, LoopInv, Fire, DriverKeeps
<1>. QED BY <1>1, <1>2, <1>3, <1>4, <1>5, <1>6, <1>7, <1>8, <1>9, <1>10,
     <1>11, <1>12, <1>13, <1>14 DEF LoopInv, Types

(* A turn that ends is counted. *)
LEMMA TurnKeeps ==
  ASSUME LoopInv, NEW done, NEW note \in BOOLEAN, TurnOver(done, note)
  PROVE  LoopInv'
<1>1. RunTypes'
  BY DEF RunTypes, Types, LoopInv, TurnOver, DriverKeeps, bounds
<1>2. DriverTypes'
  BY DEF DriverTypes, Types, Inner, LoopInv, TurnOver, Resolve, DriverKeeps,
     breaker
<1>3. CountTypes'
  BY DEF CountTypes, Types, LoopInv, TurnOver, DriverKeeps
<1>4. CapShape'
  BY DEF CapShape, Types, LoopInv, TurnOver, DriverKeeps
<1>5. IdleShape'
  BY DEF IdleShape, Types, Inner, LoopInv, TurnOver, DriverKeeps, breaker
<1>6. MissionShape'
  BY DEF MissionShape, Types, Flying, LoopInv, TurnOver, Resolve, DriverKeeps,
     breaker
<1>7. LateShape'
  BY DEF LateShape, Types, LoopInv, TurnOver, DriverKeeps
<1>8. WakeShape'
  BY DEF WakeShape, Types, Inner, LoopInv, TurnOver, DriverKeeps
<1>9. StallShape'
  BY DEF StallShape, Types, Inner, LoopInv, TurnOver, DriverKeeps
<1>10. RescueShape'
  BY DEF RescueShape, Types, Busy, LoopInv, TurnOver, DriverKeeps, breaker
<1>11. MarkerShape'
  BY DEF MarkerShape, Types, LoopInv, TurnOver, DriverKeeps, bounds
<1>12. StopWasAsked'
  BY DEF StopWasAsked, Types, LoopInv, TurnOver, DriverKeeps
<1>13. StallIsEarned'
  BY DEF StallIsEarned, Types, LoopInv, TurnOver, DriverKeeps
<1>14. RescueIsArmed'
  BY DEF RescueIsArmed, Types, LoopInv, TurnOver, DriverKeeps
<1>. QED BY <1>1, <1>2, <1>3, <1>4, <1>5, <1>6, <1>7, <1>8, <1>9, <1>10,
     <1>11, <1>12, <1>13, <1>14 DEF LoopInv, Types

(* The gate after a turn ends the run or moves the driver on. *)
LEMMA GateKeeps ==
  ASSUME LoopInv, NEW green \in BOOLEAN, Gate(green)
  PROVE  LoopInv'
<1>1. RunTypes'
  BY DEF RunTypes, Types, LoopInv, Gate, FinishRun, DriverKeeps, bounds
<1>2. DriverTypes'
  BY DEF DriverTypes, Types, Inner, LoopInv, Gate, DriverKeeps, breaker
<1>3. CountTypes'
  BY DEF CountTypes, Types, LoopInv, Gate, DriverKeeps
<1>4. CapShape'
  BY DEF CapShape, Types, LoopInv, Gate, DriverKeeps
<1>5. IdleShape'
  BY DEF IdleShape, Types, Inner, LoopInv, Gate, FinishRun, DriverKeeps, breaker
<1>6. MissionShape'
  BY DEF MissionShape, Types, Flying, LoopInv, Gate, DriverKeeps, breaker
<1>7. LateShape'
  BY DEF LateShape, Types, LoopInv, Gate, DriverKeeps
<1>8. WakeShape'
  BY DEF WakeShape, Types, Inner, LoopInv, Gate, DriverKeeps
<1>9. StallShape'
  BY DEF StallShape, Types, Inner, LoopInv, Gate, FinishRun, DriverKeeps
<1>10. RescueShape'
  BY DEF RescueShape, Types, Busy, LoopInv, Gate, DriverKeeps, breaker
<1>11. MarkerShape'
  BY DEF MarkerShape, Types, LoopInv, Gate, DriverKeeps, bounds
<1>12. StopWasAsked'
  BY DEF StopWasAsked, Types, LoopInv, Gate, FinishRun, DriverKeeps
<1>13. StallIsEarned'
  BY DEF StallIsEarned, Types, LoopInv, Gate, FinishRun, DriverKeeps
<1>14. RescueIsArmed'
  BY DEF RescueIsArmed, Types, LoopInv, Gate, DriverKeeps
<1>. QED BY <1>1, <1>2, <1>3, <1>4, <1>5, <1>6, <1>7, <1>8, <1>9, <1>10,
     <1>11, <1>12, <1>13, <1>14 DEF LoopInv, Types

(* The end of an iteration moves the idle streak and the rescue. *)
LEMMA CloseKeeps ==
  ASSUME LoopInv, Close
  PROVE  LoopInv'
<1>1. RunTypes'
  BY DEF RunTypes, Types, LoopInv, Close, Settle, FinishRun, DriverKeeps, bounds
<1>2. DriverTypes'
  <2>1. idle' \in Nat
    BY LoopAssumption DEF LoopInv, Types, DriverTypes, Close, Settle
  <2>2. rescued' \in BOOLEAN
    BY DEF LoopInv, Types, DriverTypes, Close, Settle
  <2>3. at' \in {"judge", "outer", "top"} /\ UNCHANGED <<story, fails, cand, why>>
    BY DEF Close, Settle, iteration, DriverKeeps
  <2>. QED BY <2>1, <2>2, <2>3 DEF LoopInv, Types, DriverTypes, Inner
<1>3. CountTypes'
  BY DEF CountTypes, Types, LoopInv, Close, Settle, DriverKeeps
<1>4. CapShape'
  BY DEF CapShape, Types, LoopInv, Close, Settle, DriverKeeps
<1>5. IdleShape'
  BY LoopAssumption DEF IdleShape, Types, RunTypes, DriverTypes, CountTypes,
     Inner, LoopInv, Close, Settle, Stalls, Rescues, FinishRun, DriverKeeps
<1>6. MissionShape'
  BY DEF MissionShape, Types, Flying, LoopInv, Close, Settle, DriverKeeps
<1>7. LateShape'
  BY DEF LateShape, Types, LoopInv, Close, Settle, DriverKeeps
<1>8. WakeShape'
  BY DEF WakeShape, Types, Inner, LoopInv, Close, Settle, DriverKeeps
<1>9. StallShape'
  BY DEF StallShape, Types, Inner, WakeShape, LoopInv, Close, Settle, FinishRun,
     DriverKeeps
<1>10. RescueShape'
  BY DEF RescueShape, Types, Busy, LoopInv, Close, Settle, DriverKeeps
<1>11. MarkerShape'
  BY DEF MarkerShape, Types, LoopInv, Close, DriverKeeps, bounds
<1>12. StopWasAsked'
  BY DEF StopWasAsked, Types, LoopInv, Close, Settle, FinishRun, DriverKeeps
<1>13. StallIsEarned'
  BY LoopAssumption DEF StallIsEarned, Types, DriverTypes, CountTypes,
     IdleShape, StallShape, Stalls, LoopInv, Close, Settle, DriverKeeps
<1>14. RescueIsArmed'
  BY DEF RescueIsArmed, Types, RescueShape, Busy, LoopInv, Close, Settle,
     DriverKeeps
<1>. QED BY <1>1, <1>2, <1>3, <1>4, <1>5, <1>6, <1>7, <1>8, <1>9, <1>10,
     <1>11, <1>12, <1>13, <1>14 DEF LoopInv, Types

(* So does the verdict on its story. *)
LEMMA VerdictKeeps ==
  ASSUME LoopInv, NEW passed \in BOOLEAN, Verdict(passed)
  PROVE  LoopInv'
<1>1. RunTypes'
  BY DEF RunTypes, Types, LoopInv, Verdict, Settle, FinishRun, DriverKeeps,
     bounds
<1>2. DriverTypes'
  BY LoopAssumption DEF DriverTypes, Types, Inner, LoopInv, Verdict, Resolve,
     Settle, DriverKeeps
<1>3. CountTypes'
  BY DEF CountTypes, Types, LoopInv, Verdict, Settle, DriverKeeps
<1>4. CapShape'
  BY DEF CapShape, Types, LoopInv, Verdict, Settle, DriverKeeps
<1>5. IdleShape'
  BY LoopAssumption DEF IdleShape, Types, RunTypes, DriverTypes, CountTypes,
     Inner, LoopInv, Verdict, Settle, Stalls, Rescues, FinishRun, DriverKeeps
<1>6. MissionShape'
  BY DEF MissionShape, Types, DriverTypes, Flying, LoopInv, Verdict, Resolve,
     Settle, DriverKeeps
<1>7. LateShape'
  BY DEF LateShape, Types, LoopInv, Verdict, Settle, DriverKeeps
<1>8. WakeShape'
  BY DEF WakeShape, Types, Inner, LoopInv, Verdict, Settle, DriverKeeps
<1>9. StallShape'
  BY DEF StallShape, Types, Inner, WakeShape, LoopInv, Verdict, Settle,
     FinishRun, DriverKeeps
<1>10. RescueShape'
  BY DEF RescueShape, Types, Busy, LoopInv, Verdict, Settle, DriverKeeps
<1>11. MarkerShape'
  BY DEF MarkerShape, Types, LoopInv, Verdict, DriverKeeps, bounds
<1>12. StopWasAsked'
  BY DEF StopWasAsked, Types, LoopInv, Verdict, Settle, FinishRun, DriverKeeps
<1>13. StallIsEarned'
  BY LoopAssumption DEF StallIsEarned, Types, DriverTypes, CountTypes,
     IdleShape, StallShape, Stalls, LoopInv, Verdict, Settle, DriverKeeps
<1>14. RescueIsArmed'
  BY DEF RescueIsArmed, Types, RescueShape, Busy, LoopInv, Verdict, Settle,
     DriverKeeps
<1>. QED BY <1>1, <1>2, <1>3, <1>4, <1>5, <1>6, <1>7, <1>8, <1>9, <1>10,
     <1>11, <1>12, <1>13, <1>14 DEF LoopInv, Types

(* So does a mission that ends, which counts against its story. *)
LEMMA MissionKeeps ==
  ASSUME LoopInv, NEW accepted \in BOOLEAN, MissionOver(accepted)
  PROVE  LoopInv'
<1>1. RunTypes'
  BY DEF RunTypes, Types, LoopInv, MissionOver, GivesUp, Settle, FinishRun,
     DriverKeeps, bounds
<1>2. DriverTypes'
  <2>1. idle' \in Nat
    BY LoopAssumption DEF LoopInv, Types, DriverTypes, MissionOver, Settle
  <2>2. rescued' \in BOOLEAN
    BY DEF LoopInv, Types, MissionOver, Settle
  <2>3. at' \in {"outer", "top"} /\ UNCHANGED why
    BY DEF MissionOver, Settle
  <2>4. story' \in [Stories -> {"none", "pending", "done", "skipped"}]
    BY DEF LoopInv, Types, DriverTypes, MissionOver, Resolve
  <2>5. fails' \in [Stories -> Nat]
    BY DEF LoopInv, Types, DriverTypes, MissionOver
  <2>. QED BY <2>1, <2>2, <2>3, <2>4, <2>5 DEF LoopInv, Types, DriverTypes,
              Inner
<1>3. CountTypes'
  BY DEF CountTypes, Types, LoopInv, MissionOver, GivesUp, Settle, DriverKeeps
<1>4. CapShape'
  BY DEF CapShape, Types, LoopInv, MissionOver, GivesUp, Settle, DriverKeeps
<1>5. IdleShape'
  BY LoopAssumption DEF IdleShape, Types, RunTypes, DriverTypes, CountTypes,
     Inner, LoopInv, MissionOver, GivesUp, Settle, Stalls, Rescues, FinishRun,
     DriverKeeps
<1>6. MissionShape'
  <2>. SUFFICES ASSUME NEW s \in Stories
                PROVE  /\ missions[s] <= MaxMissions
                       /\ fails'[s] < MaxMissions
                       /\ story'[s] \in {"none", "pending"} => missions[s] <= fails'[s]
    <3>1. at' # "mission" /\ UNCHANGED missions
      BY DEF MissionOver, Settle, FinishRun <3>. QED BY <3>1 DEF MissionShape,
         Flying, LoopInv, Types, DriverTypes, MissionOver
  <2>1. cand \in Stories /\ at = "mission"
    BY DEF LoopInv, Types, DriverTypes, MissionOver
  <2>2. CASE s = cand /\ accepted
    BY <2>1, <2>2, LoopAssumption DEF LoopInv, Types, DriverTypes, MissionShape,
       MissionOver, Resolve, Pending
  <2>4. CASE s = cand /\ ~accepted /\ GivesUp
    BY <2>1, <2>4, LoopAssumption DEF LoopInv, Types, DriverTypes, MissionShape,
       MissionOver, Resolve, Pending
  <2>5. CASE s = cand /\ ~accepted /\ ~GivesUp
    BY <2>1, <2>5, LoopAssumption DEF LoopInv, Types, DriverTypes, MissionShape,
       Flying, MissionOver, GivesUp
  <2>3. CASE s # cand
    BY <2>1, <2>3 DEF LoopInv, Types, DriverTypes, MissionShape, Flying,
       MissionOver, GivesUp, Resolve
  <2>. QED BY <2>2, <2>3, <2>4, <2>5
<1>7. LateShape'
  BY DEF LateShape, Types, LoopInv, MissionOver, GivesUp, Settle, DriverKeeps
<1>8. WakeShape'
  BY DEF WakeShape, Types, Inner, LoopInv, MissionOver, GivesUp, Settle,
     DriverKeeps
<1>9. StallShape'
  BY SMTT(30) DEF StallShape, Types, Inner, WakeShape, LoopInv, MissionOver,
     GivesUp, Settle, FinishRun, DriverKeeps
<1>10. RescueShape'
  BY DEF RescueShape, Types, Busy, LoopInv, MissionOver, GivesUp, Settle,
     DriverKeeps
<1>11. MarkerShape'
  BY DEF MarkerShape, Types, LoopInv, MissionOver, GivesUp, DriverKeeps, bounds
<1>12. StopWasAsked'
  BY DEF StopWasAsked, Types, LoopInv, MissionOver, GivesUp, Settle, FinishRun,
     DriverKeeps
<1>13. StallIsEarned'
  BY LoopAssumption DEF StallIsEarned, Types, DriverTypes, CountTypes,
     IdleShape, StallShape, Stalls, LoopInv, MissionOver, GivesUp, Settle,
     DriverKeeps
<1>14. RescueIsArmed'
  BY DEF RescueIsArmed, Types, RescueShape, LoopInv, MissionOver, GivesUp,
     Settle, DriverKeeps
<1>. QED BY <1>1, <1>2, <1>3, <1>4, <1>5, <1>6, <1>7, <1>8, <1>9, <1>10,
     <1>11, <1>12, <1>13, <1>14 DEF LoopInv, Types

(* A panic takes the driver and leaves the run as it was. *)
LEMMA PanicKeeps ==
  ASSUME LoopInv, Panic
  PROVE  LoopInv'
<1>1. RunTypes'
  <2>1. faults' \in Nat BY DEF LoopInv, Types, RunTypes, Panic
  <2>2. active' = FALSE /\ UNCHANGED <<permit, count, limit, marker, op>>
    BY DEF Panic, FinishRun
  <2>. QED BY <2>1, <2>2 DEF LoopInv, Types, RunTypes
<1>2. DriverTypes'
  BY DEF DriverTypes, Types, LoopInv, Panic, breaker
<1>3. CountTypes'
  BY DEF CountTypes, Types, LoopInv, Panic, ghosts
<1>4. CapShape'
  BY DEF CapShape, Types, LoopInv, Panic, ghosts
<1>5. IdleShape'
  BY DEF IdleShape, Types, Inner, LoopInv, Panic, breaker, ghosts
<1>6. MissionShape'
  BY DEF MissionShape, Types, LoopInv, Panic, breaker, ghosts
<1>7. LateShape'
  BY DEF LateShape, Types, LoopInv, Panic, ghosts
<1>8. WakeShape'
  BY DEF WakeShape, Types, Inner, LoopInv, Panic, ghosts
<1>9. StallShape'
  BY DEF StallShape, Types, LoopInv, Panic, FinishRun
<1>10. RescueShape'
  BY DEF RescueShape, Types, Busy, LoopInv, Panic
<1>11. MarkerShape'
  BY DEF MarkerShape, Types, RunTypes, LoopInv, Panic
<1>12. StopWasAsked'
  BY DEF StopWasAsked, Types, LoopInv, Panic, FinishRun
<1>13. StallIsEarned'
  BY DEF StallIsEarned, Types, LoopInv, Panic, FinishRun
<1>14. RescueIsArmed'
  BY DEF RescueIsArmed, Types, LoopInv, Panic
<1>. QED BY <1>1, <1>2, <1>3, <1>4, <1>5, <1>6, <1>7, <1>8, <1>9, <1>10,
     <1>11, <1>12, <1>13, <1>14 DEF LoopInv, Types

(* A restart forgets everything but the backlog and the marker. *)
LEMMA RestartKeeps ==
  ASSUME LoopInv, Restart
  PROVE  LoopInv'
<1>1. RunTypes'
  BY DEF RunTypes, Types, LoopInv, Restart
<1>2. DriverTypes'
  BY DEF DriverTypes, Types, LoopInv, Restart, NoFails
<1>3. CountTypes'
  BY DEF CountTypes, Types, LoopInv, Restart, NoFails
<1>4. CapShape'
  BY DEF CapShape, Types, LoopInv, Restart
<1>5. IdleShape'
  BY LoopAssumption DEF IdleShape, Types, LoopInv, Restart
<1>6. MissionShape'
  BY LoopAssumption DEF MissionShape, Types, Flying, LoopInv, Restart, NoFails
<1>7. LateShape'
  BY DEF LateShape, Types, LoopInv, Restart
<1>8. WakeShape'
  BY DEF WakeShape, Types, Inner, LoopInv, Restart
<1>9. StallShape'
  BY DEF StallShape, Types, LoopInv, Restart
<1>10. RescueShape'
  BY DEF RescueShape, Types, LoopInv, Restart
<1>11. MarkerShape'
  BY DEF MarkerShape, Types, LoopInv, Restart
<1>12. StopWasAsked'
  BY DEF StopWasAsked, Types, LoopInv, Restart
<1>13. StallIsEarned'
  BY DEF StallIsEarned, Types, LoopInv, Restart
<1>14. RescueIsArmed'
  BY DEF RescueIsArmed, Types, LoopInv, Restart
<1>. QED BY <1>1, <1>2, <1>3, <1>4, <1>5, <1>6, <1>7, <1>8, <1>9, <1>10,
     <1>11, <1>12, <1>13, <1>14 DEF LoopInv, Types

(* A stutter keeps the invariant. *)
LEMMA StutterKeeps ==
  ASSUME LoopInv, UNCHANGED vars
  PROVE  LoopInv'
<1>1. RunTypes'
  BY DEF RunTypes, Types, LoopInv, vars, runState, bounds
<1>2. DriverTypes'
  BY DEF DriverTypes, Types, LoopInv, vars, iteration, breaker
<1>3. CountTypes'
  BY DEF CountTypes, Types, LoopInv, vars, ghosts
<1>4. CapShape'
  BY DEF CapShape, Types, LoopInv, vars, runState, ghosts
<1>5. IdleShape'
  BY DEF IdleShape, Types, LoopInv, vars, runState, breaker, ghosts
<1>6. MissionShape'
  BY DEF MissionShape, Types, Flying, LoopInv, vars, iteration, breaker, ghosts
<1>7. LateShape'
  BY DEF LateShape, Types, LoopInv, vars, runState, ghosts
<1>8. WakeShape'
  BY DEF WakeShape, Types, LoopInv, vars, runState, ghosts
<1>9. StallShape'
  BY DEF StallShape, Types, LoopInv, vars, runState, ghosts
<1>10. RescueShape'
  BY DEF RescueShape, Types, LoopInv, vars, breaker, ghosts
<1>11. MarkerShape'
  BY DEF MarkerShape, Types, LoopInv, vars, bounds, ghosts
<1>12. StopWasAsked'
  BY DEF StopWasAsked, Types, LoopInv, vars, runState, ghosts
<1>13. StallIsEarned'
  BY DEF StallIsEarned, Types, LoopInv, vars, runState, ghosts
<1>14. RescueIsArmed'
  BY DEF RescueIsArmed, Types, LoopInv, vars, breaker, ghosts
<1>. QED BY <1>1, <1>2, <1>3, <1>4, <1>5, <1>6, <1>7, <1>8, <1>9, <1>10,
     <1>11, <1>12, <1>13, <1>14 DEF LoopInv, Types

-----------------------------------------------------------------------------

(* The first state satisfies the invariant. *)
LEMMA InitHolds == ASSUME Init PROVE LoopInv
<1>1. Types
  BY DEF Init, NoFails, Types, RunTypes, DriverTypes, CountTypes, Inner
<1>2. CapShape /\ LateShape /\ WakeShape /\ StallShape /\ RescueShape
  BY DEF Init, CapShape, LateShape, WakeShape, StallShape, RescueShape, Inner, Busy
<1>3. IdleShape
  BY LoopAssumption DEF Init, IdleShape, Inner
<1>4. MissionShape
  BY LoopAssumption DEF Init, NoFails, MissionShape, Flying
<1>5. MarkerShape /\ StopWasAsked /\ StallIsEarned /\ RescueIsArmed
  BY DEF Init, MarkerShape, StopWasAsked, StallIsEarned, RescueIsArmed
<1>. QED BY <1>1, <1>2, <1>3, <1>4, <1>5 DEF LoopInv

(* An operator's start is one of these steps. *)
LEMMA StartsKeep == ASSUME LoopInv, NEW o \in Operators, Start(o) PROVE LoopInv'
BY StartKeeps DEF Start

(* A decision is one of the three above. *)
LEMMA DecideKeeps ==
  ASSUME LoopInv, NEW over \in BOOLEAN, Decide(over)
  PROVE  LoopInv'
<1>1. CASE Decision(over) # "continue"
  BY <1>1, DecideEnds
<1>2. CASE Decision(over) = "continue" /\ ~Delegates
  BY <1>2, DecideFires
<1>3. CASE Decision(over) = "continue" /\ Delegates
  BY <1>3, DecideDelegates
<1>. QED BY <1>1, <1>2, <1>3

(* Every step of the driver keeps the invariant. *)
LEMMA DriverKeepsInv == ASSUME LoopInv, DriverStep PROVE LoopInv'
<1>1. CASE Outer \/ Woken \/ EndRun \/ Fire \/ Close
  BY <1>1, OuterKeeps, WokenKeeps, EndRunKeeps, FireKeeps, CloseKeeps
<1>2. CASE \E green \in BOOLEAN : Begin(green) \/ Gate(green)
  BY <1>2, BeginKeeps, GateKeeps
<1>3. CASE \E over \in BOOLEAN : Decide(over)
  BY <1>3, DecideKeeps
<1>4. CASE \E done \in Pending \cup {0}, note \in BOOLEAN : TurnOver(done, note)
  BY <1>4, TurnKeeps
<1>5. CASE \E passed \in BOOLEAN : Verdict(passed) \/ MissionOver(passed)
  BY <1>5, VerdictKeeps, MissionKeeps
<1>. QED BY <1>1, <1>2, <1>3, <1>4, <1>5 DEF DriverStep

(* Every step keeps the invariant. *)
LEMMA StepKeeps == LoopInv /\ [Next]_vars => LoopInv'
<1>. SUFFICES ASSUME LoopInv, [Next]_vars PROVE LoopInv'
  OBVIOUS
<1>1. CASE DriverStep
  BY <1>1, DriverKeepsInv
<1>2. CASE Poll \/ Panic \/ Restart
  BY <1>2, PollKeeps, PanicKeeps, RestartKeeps
<1>3. CASE BootDecides
  BY <1>3, BootIdles, BootResumes
<1>4. CASE \E o \in Operators : Start(o) \/ Stop(o) \/ PersistMarker(o) \/ MarkerFails(o)
  BY <1>4, StartsKeep, StopKeeps, MarkerKeeps, MarkerFailsKeeps
<1>5. CASE \E s \in Stories : AddStory(s) \/ SkipStory(s)
  BY <1>5, BacklogKept
<1>6. CASE UNCHANGED vars
  BY <1>6, StutterKeeps
<1>. QED BY <1>1, <1>2, <1>3, <1>4, <1>5, <1>6 DEF Next

(* The invariant holds in every reachable state. *)
LEMMA Inductive == Spec => []LoopInv
<1>1. Init => LoopInv
  BY InitHolds
<1>. QED BY <1>1, StepKeeps, PTL DEF Spec

-----------------------------------------------------------------------------

(* Whatever the backlog, the caps and the operators do, a run costs at     *)
(* most its cap of iterations, its idle slack and the one rescue, and per  *)
(* story the bound of failed missions (decide, StallTracker, run_delegated).*)
THEOREM RunsAreBounded == Spec => []Bounded
<1>1. LoopInv => Bounded
  BY DEF LoopInv, CapShape, IdleShape, MissionShape, Bounded, CapHolds, IdleBounded,
     MissionsBounded
<1>. QED BY <1>1, Inductive, PTL

(* After request_stop at most the iteration just decided on still begins,  *)
(* and the status blames the operator only if he did stop the run, unless  *)
(* the notification of a start was left over.                              *)
THEOREM StopsAreObeyed == Spec => []StopsWhenAsked
<1>1. LoopInv => StopsWhenAsked
  BY DEF LoopInv, LateShape, Types, CountTypes, StopsWhenAsked, StopHolds
<1>. QED BY <1>1, Inductive, PTL

(* A run ended as stalled had all its slack (StallTracker::record), unless *)
(* its start found the driver busy with the run before.                    *)
THEOREM StallsAreEarned == Spec => []StallIsEarned
<1>1. LoopInv => StallIsEarned
  BY DEF LoopInv
<1>. QED BY <1>1, Inductive, PTL

(* A run that goes on with its rescue spent has fired the armed turn or    *)
(* fires it next (next_arm, and the delegation that yields to it).         *)
THEOREM RescuesAreArmed == Spec => []RescueIsArmed
<1>1. LoopInv => RescueIsArmed
  BY DEF LoopInv
<1>. QED BY <1>1, Inductive, PTL

(* With no write under way, lost or overtaken, the persisted marker says   *)
(* what the operators last asked for (persist_run_marker), so that a       *)
(* restart resumes just that.                                              *)
THEOREM MarkersAreWanted == Spec => []MarkerIsWanted
<1>1. LoopInv => MarkerIsWanted
  BY DEF LoopInv, Types, CountTypes, MarkerShape, MarkerIsWanted
<1>. QED BY <1>1, Inductive, PTL

-----------------------------------------------------------------------------
(* Types *)

(* The iterations counted stay within the run's cap, in the status as well *)
(* as for the driver: an iteration that a start finds under way is counted *)
(* for the new run, which allows at least one.                             *)
CountShape ==
  /\ count <= limit /\ limit <= MaxIterations
  /\ at \in {"notes", "turn"} => count < limit

BoundTypes ==
  /\ policy \in Policies /\ boot \in BOOLEAN
  /\ requests \in 0 .. MaxRequests /\ restarts \in 0 .. MaxFaults
  /\ faults \in 0 .. MaxFaults

Reasons == {"none", "operator stop", "budget", "max iterations", "complete"}

IterationTypes ==
  /\ reason \in Reasons \cup {"gate", "stall", "aborted"} /\ why \in Reasons
  /\ left \in 0 .. Cardinality(Stories) /\ cand \in Stories \cup {0}
  /\ noted \in BOOLEAN /\ arm \in {"none", "verdict", "rescue"}

(* Together with the invariant they are the types. *)
LEMMA TypesAreAll ==
  ASSUME LoopInv, CountShape, BoundTypes, IterationTypes
  PROVE  TypeOK
<1>1. count \in 0 .. MaxIterations /\ limit \in 0 .. MaxIterations
  BY LoopAssumption DEF LoopInv, Types, RunTypes, CountShape, LoopAssumption
<1>2. fails \in [Stories -> 0 .. MaxMissions]
  <2>1. \A s \in Stories : fails[s] \in 0 .. MaxMissions
    BY LoopAssumption DEF LoopInv, Types, DriverTypes, MissionShape, LoopAssumption
  <2> QED
    BY <2>1 DEF LoopInv, Types, DriverTypes
<1>3. active \in BOOLEAN /\ permit \in BOOLEAN
  BY DEF LoopInv, Types, RunTypes
<1> QED
  BY <1>1, <1>2, <1>3
  DEF TypeOK, LoopInv, Types, RunTypes, DriverTypes, CountTypes, BoundTypes, IterationTypes,
      Reasons

(* The first pending story is one. *)
LEMMA NextIsPending == NextStory \in Stories \cup {0}
<1>1. Pending \subseteq Stories /\ Pending \subseteq Nat
  BY LoopAssumption DEF Pending, LoopAssumption
<1>2. CASE Pending = {}
  BY <1>2 DEF NextStory
<1>3. CASE Pending # {}
  <2>1. PICK x \in Pending : \A y \in Pending : ~(<<y, x>> \in OpToRel(<, Nat))
    BY <1>1, <1>3, WFMin, NatLessThanWellFounded
  <2>2. \A y \in Pending : ~(y < x)
    BY <1>1, <2>1 DEF OpToRel
  <2>3. \A y \in Pending : x <= y
    <3>1. \A y \in Pending : x \in Nat /\ y \in Nat
      BY <1>1, <2>1
    <3> QED
      BY <2>2, <3>1
  <2>4. Min(Pending) \in Pending
    BY <2>1, <2>3 DEF Min
  <2> QED
    BY <1>1, <1>3, <2>4 DEF NextStory
<1> QED
  BY <1>2, <1>3

(* The stories pending are no more than there are. *)
LEMMA PendingCount == Cardinality(Pending) \in 0 .. Cardinality(Stories)
<1>1. Pending \subseteq Stories /\ IsFiniteSet(Stories)
  BY LoopAssumption DEF Pending, LoopAssumption
<1>2. IsFiniteSet(Pending) /\ Cardinality(Pending) <= Cardinality(Stories)
  BY <1>1, FS_Subset
<1>3. Cardinality(Pending) \in Nat /\ Cardinality(Stories) \in Nat
  BY <1>1, <1>2, FS_CardinalityType
<1> QED
  BY <1>2, <1>3

(* The bounds and switches keep their types. *)
LEMMA BoundsKeep ==
  ASSUME BoundTypes, [Next]_vars
  PROVE  BoundTypes'
<1>1. CASE UNCHANGED <<policy, bounds>> /\ boot' \in BOOLEAN
  BY <1>1 DEF BoundTypes, bounds
<1>2. CASE DriverStep
  <2>1. DriverKeeps
    BY <1>2 DEF DriverStep, Outer, Keeps, Woken, EndRun, Fire, Close, Begin, Gate, Decide,
                TurnOver, Verdict, MissionOver
  <2> QED
    BY <1>1, <2>1 DEF DriverKeeps, BoundTypes
<1>3. CASE Poll \/ BootDecides \/ UNCHANGED vars
  <2>1. UNCHANGED <<policy, bounds>> /\ boot' \in BOOLEAN
    BY <1>3 DEF Poll, BootDecides, vars, BoundTypes
  <2> QED
    BY <1>1, <2>1
<1>4. ASSUME requests < MaxRequests, requests' = requests + 1,
             UNCHANGED <<policy, boot, restarts, faults>>
      PROVE  BoundTypes'
  BY <1>4, LoopAssumption DEF BoundTypes, LoopAssumption
<1>5. ASSUME NEW o \in Operators, Start(o) \/ Stop(o)
      PROVE  BoundTypes'
  BY <1>4, <1>5 DEF Start, Stop, Asks
<1>6. ASSUME NEW s \in Stories, AddStory(s) \/ SkipStory(s)
      PROVE  BoundTypes'
  BY <1>4, <1>6 DEF AddStory, SkipStory, BacklogKeeps
<1>7. ASSUME NEW o \in Operators, PersistMarker(o)
      PROVE  BoundTypes'
  BY <1>7 DEF PersistMarker, Marks, BoundTypes
<1>8. ASSUME restarts + faults < MaxFaults, UNCHANGED <<policy, requests>>, boot' \in BOOLEAN,
             \/ faults' = faults + 1 /\ restarts' = restarts
             \/ restarts' = restarts + 1 /\ faults' = faults
      PROVE  BoundTypes'
  BY <1>8, LoopAssumption DEF BoundTypes, LoopAssumption
<1>9. ASSUME NEW o \in Operators, MarkerFails(o)
      PROVE  BoundTypes'
  BY <1>8, <1>9 DEF MarkerFails, Marks, BoundTypes
<1>10. CASE Panic \/ Restart
  BY <1>8, <1>10 DEF Panic, Restart, BoundTypes
<1> QED
  BY <1>2, <1>3, <1>5, <1>6, <1>7, <1>9, <1>10 DEF Next

(* The counts of the run stay within its cap. *)
LEMMA CountsKeep ==
  ASSUME LoopInv, CountShape, [Next]_vars
  PROVE  CountShape'
<1>t. count \in Nat /\ limit \in Nat /\ MaxIterations \in Nat \ {0}
  BY LoopAssumption DEF LoopInv, Types, RunTypes, LoopAssumption
<1>s. ASSUME NEW n \in 1 .. MaxIterations, RequestStart(n)
      PROVE  CountShape'
  BY <1>s, <1>t DEF RequestStart, CountShape
<1>u. ASSUME UNCHANGED <<count, limit>>,
             at' \in {"notes", "turn"} => at \in {"notes", "turn"} \/ count < limit
      PROVE  CountShape'
  BY <1>u DEF CountShape
<1>1. ASSUME NEW o \in Operators, Start(o)
      PROVE  CountShape'
  BY <1>1, <1>s, LoopAssumption DEF Start, LoopAssumption
<1>2. ASSUME NEW o \in Operators, Stop(o) \/ PersistMarker(o) \/ MarkerFails(o)
      PROVE  CountShape'
  BY <1>2, <1>u DEF Stop, PersistMarker, MarkerFails, Asks, Marks, runState
<1>3. ASSUME NEW s \in Stories, AddStory(s) \/ SkipStory(s)
      PROVE  CountShape'
  BY <1>3, <1>u DEF AddStory, SkipStory, BacklogKeeps, runState
<1>4. CASE BootDecides
  BY <1>4, <1>s, <1>t, <1>u DEF BootDecides, runState
<1>5. CASE Poll \/ Panic \/ UNCHANGED vars
  BY <1>5, <1>u DEF Poll, Panic, vars, runState
<1>6. CASE Restart
  BY <1>6, <1>t DEF Restart, CountShape
<1>7. CASE Outer \/ Woken \/ EndRun \/ Fire
  BY <1>7, <1>u DEF Outer, Woken, EndRun, Fire, Keeps, DriverKeeps
<1>8. CASE Close
  BY <1>8, <1>u DEF Close, DriverKeeps, Settle
<1>9. ASSUME NEW green \in BOOLEAN, Begin(green) \/ Gate(green)
      PROVE  CountShape'
  BY <1>9, <1>u DEF Begin, Gate, DriverKeeps
<1>10. ASSUME NEW over \in BOOLEAN, Decide(over)
       PROVE  CountShape'
  <2>1. CASE Decision(over) # "continue"
    BY <1>10, <2>1, <1>u DEF Decide, DriverKeeps
  <2>2. CASE Decision(over) = "continue"
    <3>1. count < limit /\ UNCHANGED limit
      <4>1. ~(count >= limit)
        BY <2>2 DEF Decision
      <4> QED
        BY <1>10, <1>t, <4>1 DEF Decide, DriverKeeps
    <3>2. \/ count' = count + 1 /\ at' = "mission"
          \/ count' = count
      BY <1>10, <2>2 DEF Decide
    <3> QED
      BY <1>t, <3>1, <3>2 DEF CountShape
  <2> QED
    BY <2>1, <2>2
<1>11. ASSUME NEW done \in Pending \cup {0}, NEW note \in BOOLEAN, TurnOver(done, note)
       PROVE  CountShape'
  BY <1>11, <1>t DEF TurnOver, DriverKeeps, CountShape
<1>12. ASSUME NEW passed \in BOOLEAN, Verdict(passed) \/ MissionOver(passed)
       PROVE  CountShape'
  BY <1>12, <1>u DEF Verdict, MissionOver, Settle, DriverKeeps
<1> QED
  BY <1>1, <1>2, <1>3, <1>4, <1>5, <1>6, <1>7, <1>8, <1>9, <1>10, <1>11, <1>12
  DEF Next, DriverStep

(* What an iteration keeps has its type. *)
LEMMA IterationKeeps ==
  ASSUME IterationTypes, [Next]_vars
  PROVE  IterationTypes'
<1>u. ASSUME UNCHANGED <<why, iteration, arm>>,
             reason' \in Reasons \cup {"gate", "stall", "aborted"}
      PROVE  IterationTypes'
  BY <1>u DEF IterationTypes, iteration
<1>r. \A n : RequestStart(n) => reason' = "none"
  BY DEF RequestStart
<1>1. ASSUME NEW o \in Operators, Start(o) \/ Stop(o) \/ PersistMarker(o) \/ MarkerFails(o)
      PROVE  IterationTypes'
  BY <1>1, <1>u, <1>r
  DEF Start, Stop, PersistMarker, MarkerFails, Asks, Marks, breaker, runState, Reasons,
      IterationTypes
<1>2. ASSUME NEW s \in Stories, AddStory(s) \/ SkipStory(s)
      PROVE  IterationTypes'
  BY <1>2, <1>u DEF AddStory, SkipStory, BacklogKeeps, breaker, runState, IterationTypes
<1>3. CASE BootDecides
  BY <1>3, <1>u, <1>r DEF BootDecides, breaker, runState, Reasons, IterationTypes
<1>4. CASE Poll \/ Panic \/ UNCHANGED vars
  BY <1>4, <1>u DEF Poll, Panic, FinishRun, vars, breaker, runState, IterationTypes
<1>5. CASE Restart
  <2>1. 0 \in 0 .. Cardinality(Stories)
    BY LoopAssumption, FS_CardinalityType DEF LoopAssumption
  <2> QED
    BY <1>5, <2>1 DEF Restart, IterationTypes, Reasons
<1>6. CASE Outer \/ Woken
  BY <1>6, <1>u DEF Outer, Woken, Keeps, breaker, IterationTypes
<1>7. CASE EndRun
  BY <1>7 DEF EndRun, FinishRun, iteration, breaker, IterationTypes, Reasons
<1>8. CASE Fire
  BY <1>8, NextIsPending DEF Fire, IterationTypes
<1>9. ASSUME NEW green \in BOOLEAN, Begin(green) \/ Gate(green)
      PROVE  IterationTypes'
  BY <1>9 DEF Begin, Gate, FinishRun, FreshBreaker, iteration, breaker, IterationTypes
<1>10. ASSUME NEW over \in BOOLEAN, Decide(over)
       PROVE  IterationTypes'
  <2>1. left' \in 0 .. Cardinality(Stories) /\ UNCHANGED <<reason, noted, arm>>
    BY <1>10, PendingCount DEF Decide, breaker
  <2>2. why' \in Reasons
    <3>1. Decision(over) # "continue" => Decision(over) \in Reasons
      BY DEF Decision, Reasons
    <3> QED
      BY <1>10, <3>1 DEF Decide, IterationTypes
  <2>3. cand' \in Stories \cup {0}
    BY <1>10, NextIsPending DEF Decide, IterationTypes
  <2> QED
    BY <2>1, <2>2, <2>3 DEF IterationTypes
<1>11. ASSUME NEW done \in Pending \cup {0}, NEW note \in BOOLEAN, TurnOver(done, note)
       PROVE  IterationTypes'
  BY <1>11 DEF TurnOver, breaker, IterationTypes
<1>12. ASSUME NEW progress, NEW failed, Settle(progress, failed), UNCHANGED <<why, iteration>>
       PROVE  IterationTypes'
  <2>1. arm' \in {"none", "verdict", "rescue"}
    BY <1>12 DEF Settle
  <2>2. reason' \in Reasons \cup {"gate", "stall", "aborted"}
    BY <1>12 DEF Settle, FinishRun, IterationTypes
  <2> QED
    BY <1>12, <2>1, <2>2 DEF IterationTypes, iteration
<1>13. CASE Close
  BY <1>12, <1>13, <1>u DEF Close, IterationTypes
<1>14. ASSUME NEW passed \in BOOLEAN, Verdict(passed) \/ MissionOver(passed)
       PROVE  IterationTypes'
  BY <1>12, <1>14 DEF Verdict, MissionOver
<1> QED
  BY <1>1, <1>2, <1>3, <1>4, <1>5, <1>6, <1>7, <1>8, <1>9, <1>10, <1>11, <1>13, <1>14
  DEF Next, DriverStep

(* Every variable keeps its type; in particular the iterations counted for *)
(* a run stay within max_iterations, whenever it was started.              *)
THEOREM TypeCorrect == Spec => []TypeOK
<1> DEFINE All == LoopInv /\ CountShape /\ BoundTypes /\ IterationTypes
<1>1. Init => All
  <2> SUFFICES ASSUME Init
               PROVE  All
    OBVIOUS
  <2>1. LoopInv
    BY InitHolds
  <2>2. CountShape /\ BoundTypes
    BY LoopAssumption DEF Init, CountShape, BoundTypes, LoopAssumption
  <2>3. 0 \in 0 .. Cardinality(Stories)
    BY LoopAssumption, FS_CardinalityType DEF LoopAssumption
  <2>4. IterationTypes
    BY <2>3 DEF Init, IterationTypes, Reasons
  <2> QED
    BY <2>1, <2>2, <2>4
<1>2. All /\ [Next]_vars => All'
  BY StepKeeps, CountsKeep, BoundsKeep, IterationKeeps
<1>3. All => TypeOK
  BY TypesAreAll
<1> QED
  BY <1>1, <1>2, <1>3, PTL DEF Spec

=============================================================================
