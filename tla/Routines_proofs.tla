--------------------------- MODULE Routines_proofs ---------------------------
(***************************************************************************)
(* Proofs about Routines, for any routines, cron expressions and prompts,  *)
(* any length of the clock and any number of changes and faults.           *)
(*                                                                         *)
(* Once: a record counts from no earlier than the last time it was run     *)
(* for, unless its stamp was lost; what a tick has listed was due after    *)
(* that, and one listed record is run once.  Approvals: below policy_auto  *)
(* a record of the agent's that is on has an approved prompt, because the  *)
(* agent's own writes are off.  Off: a routine that is off, over which no  *)
(* older record was written, is off in the store, so no tick lists it      *)
(* again.                                                                  *)
(***************************************************************************)
EXTENDS Routines, WellFoundedInduction, TLAPS

Writes == [kind : {"create", "update", "delete"}, id : Ids, rec : Routine,
           read : SUBSET Routine]

(* Types, with the domains of the functions that TypeOK leaves out; a tick *)
(* that is over has nothing listed.                                        *)
TypeInv ==
  /\ TypeOK
  /\ pend \in [Actors -> Writes \cup {NoWrite}]
  /\ served \in [Ids -> SUBSET Nat] /\ late \in [Ids -> Nat]
  /\ approved \in [Ids -> SUBSET Prompts]
  /\ off \subseteq Ids
  /\ at = "idle" => DOMAIN listed = {}
  /\ \A a \in Actors : pend[a] # NoWrite /\ pend[a].kind = "delete" => pend[a].id \notin Config

(* A record was made and run in the past, and not run before it was made.  *)
Sane(rec) == /\ rec.created <= now /\ rec.fired <= now
             /\ rec.fired = 0 \/ rec.created <= rec.fired

(* What a tick has listed and not run yet. *)
Awaits == {r \in DOMAIN listed : ~(at = "run" /\ cur = r)}

Times ==
  /\ \A r \in DOMAIN store : Sane(store[r])
  /\ \A r \in DOMAIN listed : /\ Sane(listed[r]) /\ listed[r].on
                              /\ NextFire(listed[r]) \in 1 .. now
  /\ \A a \in Actors : pend[a] # NoWrite => Sane(pend[a].rec)
  /\ \A r \in Ids : \A t \in served[r] : t <= now
  /\ ~early

Once ==
  /\ \A r \in DOMAIN store \ lost : ~Forgets(r, store[r])
  /\ \A r \in Awaits \ lost : \A t \in served[r] : t <= Anchor(listed[r])
  /\ ~again

Approvals ==
  /\ ~direct =>
     /\ \A r \in DOMAIN store \cap Agents : store[r].on => store[r].prompt \in approved[r]
     /\ \A r \in DOMAIN listed \cap Agents : listed[r].prompt \in approved[r]
     /\ pend["agent"] # NoWrite /\ pend["agent"].kind # "delete" => ~pend["agent"].rec.on
  /\ ~unasked

StaysOff ==
  \A r \in Ids \ stale :
    /\ r \in off /\ r \in DOMAIN store => ~store[r].on
    /\ late[r] <= 1
    /\ r \in off /\ late[r] # 0 => r \notin Awaits

(* What any of the changes asked for is: a record of its own time, or a    *)
(* stored one with the times it had; off, if the agent's and below         *)
(* policy_auto.                                                            *)
Asking(a, w) ==
  /\ Asks(a, w)
  /\ w \in Writes
  /\ w.kind = "delete" => w.id \notin Config
  /\ \/ w.rec.created = now /\ w.rec.fired = 0
     \/ /\ w.id \in DOMAIN store
        /\ w.rec.created = store[w.id].created /\ w.rec.fired = store[w.id].fired
  /\ a = "agent" /\ w.kind # "delete" /\ ~direct => ~w.rec.on

-----------------------------------------------------------------------------
(* Operators *)

(* A set of numbers that is not empty has a least element, and Min is it. *)
LEMMA MinIsLeast ==
  ASSUME NEW S \in SUBSET Nat, S # {}
  PROVE  Min(S) \in S /\ \A t \in S : Min(S) <= t
<1>1. \E x \in S : \A y \in S : ~(<<y, x>> \in OpToRel(<, Nat))
  BY WFMin, NatLessThanWellFounded
<1>2. PICK x \in S : \A y \in S : ~(<<y, x>> \in OpToRel(<, Nat))
  BY <1>1
<1>3. ASSUME NEW y \in S
      PROVE  x <= y
  <2>1. y < x => <<y, x>> \in OpToRel(<, Nat)
    BY DEF OpToRel
  <2>2. ~(y < x)
    BY <2>1, <1>2
  <2>3. x \in Nat /\ y \in Nat
    OBVIOUS
  <2> QED
    BY <2>2, <2>3
<1> QED
  BY <1>3 DEF Min

(* A next fire comes after the time the record counts from. *)
LEMMA NextFireIsLater ==
  ASSUME NEW rec \in Routine, NextFire(rec) # 0
  PROVE  NextFire(rec) \in rec.cron /\ NextFire(rec) \in Nat /\ NextFire(rec) > Anchor(rec)
<1> DEFINE after == {t \in rec.cron : t > Anchor(rec)}
<1>1. rec.cron \subseteq Nat
  <2>1. rec.cron \in Crons
    BY DEF Routine
  <2>2. 1 .. MaxTime \subseteq Nat
    BY RoutinesAssumption DEF RoutinesAssumption
  <2> QED
    BY <2>1, <2>2, RoutinesAssumption DEF RoutinesAssumption
<1>2. after # {} /\ NextFire(rec) = Min(after)
  BY DEF NextFire
<1>3. Min(after) \in after
  BY <1>1, <1>2, MinIsLeast
<1> QED
  BY <1>1, <1>2, <1>3

(* Fewer entries. *)
LEMMA Restricted ==
  ASSUME NEW f, NEW S, NEW g, g = Restrict(f, S)
  PROVE  DOMAIN g = S /\ \A x \in S : g[x] = f[x]
BY DEF Restrict

(* The store has every routine of the configuration already. *)
LEMMA Synced ==
  ASSUME TypeOK, SyncConfig
  PROVE  DOMAIN store' = DOMAIN store /\ \A r \in DOMAIN store : store'[r] = store[r]
BY DEF TypeOK, SyncConfig

-----------------------------------------------------------------------------
(* Steps *)

(* A changed record has the times of the one it was made from. *)
LEMMA ChangesKeepTimes ==
  ASSUME NEW old \in Routine, NEW rec \in Changes(old)
  PROVE  /\ rec \in Routine /\ rec.created = old.created /\ rec.fired = old.fired
         /\ Edited(rec) \in Routine /\ Edited(rec).created = old.created
         /\ Edited(rec).fired = old.fired /\ (~direct => ~Edited(rec).on)
BY DEF Changes, Edited, Routine

(* A record made now is one. *)
LEMMA NewIsRoutine ==
  ASSUME TypeOK, NEW c \in Crons, NEW p \in Prompts, NEW armed \in BOOLEAN
  PROVE  /\ New(c, p, armed) \in Routine
         /\ New(c, p, armed).created = now /\ New(c, p, armed).fired = 0
         /\ New(c, p, armed).on = armed
BY RoutinesAssumption DEF TypeOK, New, Routine, RoutinesAssumption

(* The six ways to ask for a change are all of this form. *)
LEMMA AsksForms ==
  ASSUME TypeOK,
         \E r \in Ids :
           \/ OperatorUpdates(r) \/ OperatorDeletes(r) \/ AgentUpdates(r) \/ AgentDeletes(r)
           \/ \E c \in Crons, p \in Prompts :
                AgentCreates(r, c, p) \/ \E armed \in BOOLEAN : OperatorCreates(r, c, p, armed)
  PROVE  \E a \in Actors, w \in Writes : Asking(a, w)
<1>1. PICK r \in Ids :
           \/ OperatorUpdates(r) \/ OperatorDeletes(r) \/ AgentUpdates(r) \/ AgentDeletes(r)
           \/ \E c \in Crons, p \in Prompts :
                AgentCreates(r, c, p) \/ \E armed \in BOOLEAN : OperatorCreates(r, c, p, armed)
  OBVIOUS
<1>w. ASSUME NEW kind \in {"create", "update", "delete"}, NEW rec \in Routine,
             NEW read \in SUBSET Routine
      PROVE  /\ Write(kind, r, rec, read) \in Writes
             /\ Write(kind, r, rec, read).kind = kind /\ Write(kind, r, rec, read).id = r
             /\ Write(kind, r, rec, read).rec = rec
  BY DEF Write, Writes
<1>2. r \in DOMAIN store => store[r] \in Routine
  BY DEF TypeOK
<1>3. CASE OperatorUpdates(r)
  <2>1. r \in DOMAIN store
    BY <1>3 DEF OperatorUpdates
  <2>2. PICK rec \in Changes(store[r]) :
           Asks("operator", Write("update", r, rec, {store[r]}))
    BY <1>3 DEF OperatorUpdates
  <2>3. /\ rec \in Routine /\ rec.created = store[r].created /\ rec.fired = store[r].fired
    BY <2>1, <1>2, ChangesKeepTimes
  <2>4. Asking("operator", Write("update", r, rec, {store[r]}))
    BY <2>1, <2>2, <2>3, <1>2, <1>w DEF Asking
  <2> QED
    BY <2>4 DEF Asking, Actors
<1>4. CASE OperatorDeletes(r)
  <2>1. /\ r \in DOMAIN store \ Config
        /\ Asks("operator", Write("delete", r, store[r], {store[r]}))
    BY <1>4 DEF OperatorDeletes
  <2>2. Asking("operator", Write("delete", r, store[r], {store[r]}))
    BY <2>1, <1>2, <1>w DEF Asking
  <2> QED
    BY <2>2 DEF Asking, Actors
<1>5. CASE AgentUpdates(r)
  <2>1. r \in DOMAIN store
    BY <1>5 DEF AgentUpdates
  <2>2. PICK rec \in Changes(store[r]) :
           Asks("agent", Write("update", r, Edited(rec), {store[r]}))
    BY <1>5 DEF AgentUpdates
  <2>3. /\ Edited(rec) \in Routine /\ Edited(rec).created = store[r].created
        /\ Edited(rec).fired = store[r].fired /\ (~direct => ~Edited(rec).on)
    BY <2>1, <1>2, ChangesKeepTimes
  <2>4. Asking("agent", Write("update", r, Edited(rec), {store[r]}))
    BY <2>1, <2>2, <2>3, <1>2, <1>w DEF Asking
  <2> QED
    BY <2>4 DEF Asking, Actors
<1>6. CASE AgentDeletes(r)
  <2>1. /\ r \in DOMAIN store /\ r \notin Config
        /\ Asks("agent", Write("delete", r, store[r], {store[r]}))
    BY <1>6, RoutinesAssumption DEF AgentDeletes, RoutinesAssumption
  <2>2. Asking("agent", Write("delete", r, store[r], {store[r]}))
    BY <2>1, <1>2, <1>w DEF Asking
  <2> QED
    BY <2>2 DEF Asking, Actors
<1>7. ASSUME NEW c \in Crons, NEW p \in Prompts, AgentCreates(r, c, p)
      PROVE  \E a \in Actors, w \in Writes : Asking(a, w)
  <2>1. Asks("agent", Write("create", r, New(c, p, direct), {})) /\ direct \in BOOLEAN
    BY <1>7 DEF AgentCreates, TypeOK
  <2>2. Asking("agent", Write("create", r, New(c, p, direct), {}))
    BY <2>1, <1>w, NewIsRoutine DEF Asking
  <2> QED
    BY <2>2 DEF Asking, Actors
<1>8. ASSUME NEW c \in Crons, NEW p \in Prompts, NEW armed \in BOOLEAN,
             OperatorCreates(r, c, p, armed)
      PROVE  \E a \in Actors, w \in Writes : Asking(a, w)
  <2>1. Asks("operator", Write("create", r, New(c, p, armed), {}))
    BY <1>8 DEF OperatorCreates
  <2>2. Asking("operator", Write("create", r, New(c, p, armed), {}))
    BY <2>1, <1>w, NewIsRoutine DEF Asking
  <2> QED
    BY <2>2 DEF Asking, Actors
<1> QED
  BY <1>1, <1>3, <1>4, <1>5, <1>6, <1>7, <1>8

(* The steps, with the changes asked for as one. *)
Steps ==
  \/ Tick \/ Stamp \/ StampFails \/ Clock \/ WindowPasses \/ Restart
  \/ \E answers \in BOOLEAN : Probe(answers)
  \/ \E r \in Ids : Fire(r)
  \/ \E a \in Actors : Puts(a)
  \/ \E a \in Actors, w \in Writes : Asking(a, w)
  \/ UNCHANGED vars

(* Every step is one of them. *)
LEMMA NextSteps ==
  ASSUME TypeOK, [Next]_vars
  PROVE  Steps
BY AsksForms DEF Next, SchedulerStep, Steps

-----------------------------------------------------------------------------
(* Types *)

(* What goes back to the store is a routine's record. *)
LEMMA PutKeepsStore ==
  ASSUME TypeOK, NEW r \in Ids, NEW rec \in Routine, store' = Put(r, rec)
  PROVE  /\ DOMAIN store' = DOMAIN store \cup {r} /\ store'[r] = rec
         /\ \A i \in DOMAIN store \ {r} : store'[i] = store[i]
         /\ DOMAIN store' \subseteq Ids /\ Config \subseteq DOMAIN store'
         /\ \A i \in DOMAIN store' : store'[i] \in Routine
BY DEF TypeOK, Put

(* What is left of the list. *)
LEMMA ListedShrinks ==
  ASSUME TypeOK, NEW S \in SUBSET DOMAIN listed, listed' = Restrict(listed, S)
  PROVE  /\ DOMAIN listed' = S /\ \A r \in S : listed'[r] = listed[r]
         /\ DOMAIN listed' \subseteq Ids /\ \A r \in DOMAIN listed' : listed'[r] \in Routine
BY Restricted DEF TypeOK

(* The list of a new tick. *)
LEMMA TickLists ==
  ASSUME TypeOK, Tick
  PROVE  /\ DOMAIN listed' = {r \in DOMAIN store : Due(store[r])}
         /\ \A r \in DOMAIN listed' : listed'[r] = store[r]
BY Restricted DEF Tick

(* The stamped record. *)
LEMMA StampedIsRoutine ==
  ASSUME TypeOK, at = "run"
  PROVE  /\ cur \in DOMAIN listed /\ cur \in Ids /\ listed[cur] \in Routine
         /\ Stamped \in Routine /\ Stamped.fired = now /\ Stamped.created = listed[cur].created
         /\ Stamped.on = listed[cur].on /\ Stamped.prompt = listed[cur].prompt
BY DEF TypeOK, Stamped, Routine

(* The end of a run takes it from the list. *)
LEMMA RunOverShrinks ==
  ASSUME TypeOK, RunOver
  PROVE  /\ DOMAIN listed' = DOMAIN listed \ {cur}
         /\ \A r \in DOMAIN listed' : listed'[r] = listed[r]
         /\ DOMAIN listed' \subseteq Ids /\ \A r \in DOMAIN listed' : listed'[r] \in Routine
         /\ at = "run" /\ at' \in {"idle", "tick"} /\ cur' = "none"
         /\ at' = "idle" => DOMAIN listed' = {}
         /\ asked' \in BOOLEAN
BY ListedShrinks DEF RunOver, Proceeds, TypeOK

(* A probe that is not answered leaves only what needs no model. *)
LEMMA ProbeShrinks ==
  ASSUME TypeOK, NEW answers \in BOOLEAN, Probe(answers)
  PROVE  /\ DOMAIN listed' \subseteq DOMAIN listed
         /\ \A r \in DOMAIN listed' : listed'[r] = listed[r]
         /\ at = "tick" /\ at' \in {"idle", "tick"} /\ asked' \in BOOLEAN /\ ready' \in BOOLEAN
         /\ at' = "idle" => DOMAIN listed' = {}
<1>1. /\ DOMAIN listed' \subseteq DOMAIN listed
      /\ \A r \in DOMAIN listed' : listed'[r] = listed[r]
  BY Restricted DEF Probe
<1>2. ready' \in BOOLEAN
  BY DEF Probe, HoldEnds, TypeOK
<1> QED
  BY <1>1, <1>2 DEF Probe, Proceeds

(* A change that is put. *)
LEMMA PutsStore ==
  ASSUME TypeInv, NEW a \in Actors, Puts(a)
  PROVE  /\ pend[a] \in Writes /\ pend[a].id \in Ids /\ pend[a].rec \in Routine
         /\ pend' = [pend EXCEPT ![a] = NoWrite]
         /\ \/ /\ pend[a].kind = "delete" /\ pend[a].id \notin Config
               /\ DOMAIN store' = DOMAIN store \ {pend[a].id}
            \/ /\ pend[a].kind # "delete" /\ DOMAIN store' = DOMAIN store \cup {pend[a].id}
               /\ store'[pend[a].id] = pend[a].rec
         /\ \A r \in DOMAIN store' \ {pend[a].id} : r \in DOMAIN store /\ store'[r] = store[r]
<1>1. /\ pend[a] \in Writes /\ pend[a].id \in Ids /\ pend[a].rec \in Routine
      /\ pend' = [pend EXCEPT ![a] = NoWrite]
  BY DEF TypeInv, Puts, Writes
<1>2. CASE pend[a].kind = "delete"
  <2>1. store' = Restrict(store, DOMAIN store \ {pend[a].id})
    BY <1>2 DEF Puts
  <2> QED
    BY <1>1, <1>2, <2>1, Restricted DEF TypeInv, Puts
<1>3. CASE pend[a].kind # "delete"
  <2>1. store' = Put(pend[a].id, pend[a].rec)
    BY <1>3 DEF Puts
  <2>2. /\ DOMAIN store' = DOMAIN store \cup {pend[a].id} /\ store'[pend[a].id] = pend[a].rec
        /\ \A i \in DOMAIN store \ {pend[a].id} : store'[i] = store[i]
    BY <1>1, <2>1, PutKeepsStore DEF TypeInv
  <2> QED
    BY <1>1, <1>3, <2>2
<1> QED
  BY <1>2, <1>3

(* Initially everything has its type. *)
LEMMA InitTypeInv ==
  ASSUME Init
  PROVE  TypeInv
<1>1. PICK drafts \in SUBSET Agents :
        store = [r \in Config \cup drafts |-> [FromConfig(r) EXCEPT !.on = r \in Config]]
  BY DEF Init
<1>2. /\ (CHOOSE c \in Crons : TRUE) \in Crons /\ (CHOOSE p \in Prompts : TRUE) \in Prompts
      /\ now = 0 /\ 0 \in 0 .. MaxTime
  BY RoutinesAssumption DEF RoutinesAssumption, Init
<1>3. \A r \in Ids : FromConfig(r) \in Routine
  BY <1>2 DEF FromConfig, Routine
<1>e. \A rec \in Routine, on \in BOOLEAN : [rec EXCEPT !.on = on] \in Routine
  BY DEF Routine
<1>c. \A r \in Ids : (r \in Config) \in BOOLEAN
  OBVIOUS
<1>d. \A r \in Ids : [FromConfig(r) EXCEPT !.on = r \in Config] \in Routine
  BY <1>3, <1>e, <1>c
<1>4. /\ DOMAIN store = Config \cup drafts /\ \A r \in DOMAIN store : store[r] \in Routine
  BY <1>1, <1>d DEF Ids
<1>5. 0 \in 0 .. MaxEdits /\ 0 \in 0 .. MaxFaults
  BY RoutinesAssumption DEF RoutinesAssumption
<1>6. DOMAIN listed = {}
  BY DEF Init, NoRoutines
<1>7. TypeOK
  BY <1>2, <1>4, <1>5, <1>6 DEF Init, TypeOK, Ids
<1>8. off \subseteq Ids
  BY <1>4 DEF Init, Ids
<1> QED
  BY <1>6, <1>7, <1>8 DEF Init, TypeInv

(* Every step keeps the types. *)
LEMMA StepTypeInv ==
  ASSUME TypeInv, [Next]_vars
  PROVE  TypeInv'
<1>t. TypeOK
  BY DEF TypeInv
<1>1. CASE Tick
  <2>1. /\ DOMAIN listed' \subseteq Ids /\ \A r \in DOMAIN listed' : listed'[r] \in Routine
    BY <1>1, <1>t, TickLists DEF TypeOK
  <2> QED
    BY <1>1, <2>1 DEF Tick, SchedulerKeeps, TypeInv, TypeOK
<1>2. CASE Stamp
  <2>1. /\ DOMAIN store' \subseteq Ids /\ Config \subseteq DOMAIN store'
        /\ \A i \in DOMAIN store' : store'[i] \in Routine
    BY <1>2, <1>t, StampedIsRoutine, PutKeepsStore DEF Stamp, RunOver, WriteStamp
  <2> QED
    BY <1>2, <1>t, <2>1, RunOverShrinks DEF Stamp, RunOver, SchedulerKeeps, TypeInv, TypeOK
<1>3. CASE StampFails
  <2>1. faults' \in 0 .. MaxFaults
    BY <1>3, RoutinesAssumption DEF StampFails, TypeInv, TypeOK, RoutinesAssumption
  <2> QED
    BY <1>3, <1>t, <2>1, RunOverShrinks
    DEF StampFails, RunOver, SchedulerKeeps, TypeInv, TypeOK
<1>4. CASE Clock
  <2>1. now' \in 0 .. MaxTime
    BY <1>4, RoutinesAssumption DEF Clock, TypeInv, TypeOK, RoutinesAssumption
  <2> QED
    BY <1>4, <2>1 DEF Clock, scheduler, ghosts, TypeInv, TypeOK
<1>5. CASE WindowPasses
  BY <1>5 DEF WindowPasses, ghosts, TypeInv, TypeOK
<1>6. CASE Restart
  <2>1. DOMAIN store' = DOMAIN store /\ \A r \in DOMAIN store : store'[r] = store[r]
    BY <1>6, <1>t, Synced DEF Restart
  <2>2. faults' \in 0 .. MaxFaults
    BY <1>6, RoutinesAssumption DEF Restart, TypeInv, TypeOK, RoutinesAssumption
  <2>3. DOMAIN listed' = {} /\ pend' = [a \in Actors |-> NoWrite]
    BY <1>6 DEF Restart, NoRoutines
  <2> QED
    BY <1>6, <2>1, <2>2, <2>3 DEF Restart, TypeInv, TypeOK
<1>7. ASSUME NEW answers \in BOOLEAN, Probe(answers)
      PROVE  TypeInv'
  <2>1. /\ DOMAIN listed' \subseteq Ids /\ \A r \in DOMAIN listed' : listed'[r] \in Routine
    BY <1>7, <1>t, ProbeShrinks DEF TypeOK
  <2> QED
    BY <1>7, <1>t, <2>1, ProbeShrinks DEF Probe, SchedulerKeeps, TypeInv, TypeOK
<1>8. ASSUME NEW r \in Ids, Fire(r)
      PROVE  TypeInv'
  <2>1. NextFire(listed[r]) \in Nat
    <3>1. listed[r] \in Routine
      BY <1>8 DEF Fire, TypeInv, TypeOK
    <3> QED
      BY <3>1, NextFireIsLater
  <2>2. served' \in [Ids -> SUBSET Nat]
    BY <1>8, <2>1 DEF Fire, TypeInv
  <2>3. late' \in [Ids -> Nat]
    BY <1>8 DEF Fire, TypeInv
  <2> QED
    BY <1>8, <2>2, <2>3 DEF Fire, SchedulerKeeps, TypeInv, TypeOK
<1>9. ASSUME NEW a \in Actors, Puts(a)
      PROVE  TypeInv'
  <2>1. /\ DOMAIN store' \subseteq Ids /\ Config \subseteq DOMAIN store'
        /\ \A i \in DOMAIN store' : store'[i] \in Routine
    BY <1>9, <1>t, PutsStore DEF TypeOK
  <2>2. pend' \in [Actors -> Writes \cup {NoWrite}]
    BY <1>9 DEF Puts, TypeInv
  <2>3. \A b \in Actors : /\ pend'[b] = NoWrite \/ (pend'[b].id \in Ids /\ pend'[b].rec \in Routine)
                          /\ pend'[b] # NoWrite => pend'[b] = pend[b]
    BY <1>9, <1>t DEF Puts, TypeInv, TypeOK
  <2>4. late' \in [Ids -> Nat] /\ off' \subseteq Ids
    BY <1>9, PutsStore DEF Puts, TypeInv
  <2>5. approved' \in [Ids -> SUBSET Prompts]
    <3>1. pend[a].id \in Ids /\ pend[a].rec.prompt \in Prompts
      BY <1>9, PutsStore DEF Routine
    <3>2. \/ UNCHANGED approved
          \/ approved' = [approved EXCEPT ![pend[a].id] = @ \cup {pend[a].rec.prompt}]
      BY <1>9 DEF Puts
    <3> QED
      BY <3>1, <3>2 DEF TypeInv
  <2> QED
    BY <1>9, <2>1, <2>2, <2>3, <2>4, <2>5 DEF Puts, scheduler, TypeInv, TypeOK
<1>10. ASSUME NEW a \in Actors, NEW w \in Writes, Asking(a, w)
       PROVE  TypeInv'
  <2>1. pend' \in [Actors -> Writes \cup {NoWrite}]
    BY <1>10 DEF Asking, Asks, TypeInv
  <2>2. \A b \in Actors : pend'[b] = w \/ pend'[b] = pend[b]
    BY <1>10 DEF Asking, Asks, TypeInv
  <2>3. edits' \in 0 .. MaxEdits
    BY <1>10, RoutinesAssumption DEF Asking, Asks, TypeInv, TypeOK, RoutinesAssumption
  <2>4. w.id \in Ids /\ w.rec \in Routine /\ (w.kind = "delete" => w.id \notin Config)
    BY <1>10 DEF Asking, Writes
  <2> QED
    BY <1>10, <2>1, <2>2, <2>3, <2>4 DEF Asking, Asks, scheduler, ghosts, TypeInv, TypeOK
<1>11. CASE UNCHANGED vars
  BY <1>11 DEF vars, scheduler, ghosts, TypeInv, TypeOK
<1> QED
  BY <1>t, <1>1, <1>2, <1>3, <1>4, <1>5, <1>6, <1>7, <1>8, <1>9, <1>10, <1>11, NextSteps
  DEF Steps

(* Types are kept. *)
LEMMA AlwaysTypeInv == Spec => []TypeInv
BY InitTypeInv, StepTypeInv, PTL DEF Spec

(* Every variable keeps its type, for any routines, bounds and prompts. *)
THEOREM TypeCorrect == Spec => []TypeOK
<1>1. TypeInv => TypeOK
  BY DEF TypeInv
<1> QED
  BY <1>1, AlwaysTypeInv, PTL

-----------------------------------------------------------------------------
(* Times *)

(* Numbers, for the steps that compare times. *)
LEMMA RecordTimes ==
  ASSUME TypeOK
  PROVE  /\ now \in Nat
         /\ \A rec \in Routine : /\ rec.created \in Nat /\ rec.fired \in Nat
                                 /\ Anchor(rec) \in Nat
BY RoutinesAssumption DEF TypeOK, Routine, Anchor, RoutinesAssumption

(* Initially nothing ran and every record is from now. *)
LEMMA InitTimes ==
  ASSUME Init
  PROVE  Times
<1>1. PICK drafts \in SUBSET Agents :
        store = [r \in Config \cup drafts |-> [FromConfig(r) EXCEPT !.on = r \in Config]]
  BY DEF Init
<1>2. \A r \in DOMAIN store : store[r].created = now /\ store[r].fired = 0
  BY <1>1 DEF FromConfig
<1>3. now = 0 /\ DOMAIN listed = {}
  BY DEF Init, NoRoutines
<1>4. \A r \in DOMAIN store : Sane(store[r])
  BY <1>2, <1>3 DEF Sane
<1> QED
  BY <1>3, <1>4 DEF Init, Times

(* Every step keeps records of the past and the list due. *)
LEMMA StepTimes ==
  ASSUME TypeInv, TypeInv', Times, [Next]_vars
  PROVE  Times'
<1>t. TypeOK
  BY DEF TypeInv
<1>n. now \in Nat
  BY <1>t, RecordTimes
<1>s. ASSUME UNCHANGED now
      PROVE  \A rec : Sane(rec) => Sane(rec)'
  BY <1>s DEF Sane
<1>l. ASSUME UNCHANGED now, DOMAIN listed' \subseteq DOMAIN listed,
             \A r \in DOMAIN listed' : listed'[r] = listed[r]
      PROVE  \A r \in DOMAIN listed' : /\ Sane(listed[r])' /\ listed'[r].on
                                       /\ NextFire(listed'[r]) \in 1 .. now'
  BY <1>l, <1>s DEF Times, Sane
<1>1. CASE Tick
  <2>1. \A r \in DOMAIN listed' : /\ r \in DOMAIN store /\ listed'[r] = store[r]
                                  /\ Due(store[r])
    BY <1>1, <1>t, TickLists
  <2>2. UNCHANGED <<now, store, pend, served, early>>
    BY <1>1 DEF Tick, SchedulerKeeps
  <2>3. \A r \in DOMAIN listed' : /\ Sane(listed[r])' /\ listed'[r].on
                                  /\ NextFire(listed'[r]) \in 1 .. now'
    BY <2>1, <2>2 DEF Times, Sane, Due
  <2> QED
    BY <2>2, <2>3 DEF Times, Sane
<1>2. CASE Stamp
  <2>1. UNCHANGED <<now, pend, served, early>>
    BY <1>2 DEF Stamp, RunOver, SchedulerKeeps
  <2>2. /\ DOMAIN listed' \subseteq DOMAIN listed
        /\ \A r \in DOMAIN listed' : listed'[r] = listed[r]
    BY <1>2, <1>t, RunOverShrinks DEF Stamp
  <2>3. Sane(Stamped)
    <3>1. /\ Stamped.fired = now /\ Stamped.created = listed[cur].created
          /\ cur \in DOMAIN listed
      BY <1>2, <1>t, StampedIsRoutine DEF Stamp, RunOver
    <3> QED
      BY <3>1, <1>n DEF Times, Sane
  <2>4. \A r \in DOMAIN store' : store'[r] = Stamped \/ (r \in DOMAIN store /\ store'[r] = store[r])
    BY <1>2 DEF Stamp, WriteStamp, Put
  <2>5. \A r \in DOMAIN store' : Sane(store[r])'
    BY <2>1, <2>3, <2>4 DEF Times, Sane
  <2> QED
    BY <1>l, <2>1, <2>2, <2>5 DEF Times, Sane
<1>3. CASE StampFails
  <2>1. UNCHANGED <<now, store, pend, served, early>>
    BY <1>3 DEF StampFails, RunOver, SchedulerKeeps
  <2>2. /\ DOMAIN listed' \subseteq DOMAIN listed
        /\ \A r \in DOMAIN listed' : listed'[r] = listed[r]
    BY <1>3, <1>t, RunOverShrinks DEF StampFails
  <2> QED
    BY <1>l, <2>1, <2>2 DEF Times, Sane
<1>4. CASE Clock
  <2>1. UNCHANGED <<store, listed, pend, served, early>> /\ now' = now + 1
    BY <1>4 DEF Clock, scheduler, ghosts
  <2>2. \A rec \in Routine : Sane(rec) => Sane(rec)'
    BY <2>1, <1>n, <1>t, RecordTimes DEF Sane
  <2>3. \A r \in DOMAIN listed : /\ Sane(listed[r])' /\ listed[r].on
                                 /\ NextFire(listed[r]) \in 1 .. now'
    <3>1. \A r \in DOMAIN listed : Sane(listed[r])' /\ listed[r].on
      BY <2>1, <2>2, <1>t DEF Times, TypeOK
    <3>2. 1 .. now \subseteq 1 .. now'
      BY <2>1, <1>n
    <3> QED
      BY <3>1, <3>2 DEF Times
  <2>4. \A r \in DOMAIN store : Sane(store[r])'
    BY <2>1, <2>2, <1>t DEF Times, TypeOK
  <2>5. \A a \in Actors : pend[a] # NoWrite => Sane(pend[a].rec)'
    BY <2>1, <2>2, <1>t DEF Times, TypeOK
  <2>6. \A r \in Ids : \A t \in served[r] : t <= now'
    <3>1. \A r \in Ids : \A t \in served[r] : t \in Nat /\ t <= now
      BY DEF Times, TypeInv
    <3> QED
      BY <3>1, <2>1, <1>n
  <2> QED
    BY <2>1, <2>3, <2>4, <2>5, <2>6 DEF Times
<1>5. CASE WindowPasses
  BY <1>5 DEF WindowPasses, ghosts, Times, Sane
<1>6. CASE Restart
  <2>1. DOMAIN store' = DOMAIN store /\ \A r \in DOMAIN store : store'[r] = store[r]
    BY <1>6, <1>t, Synced DEF Restart
  <2>2. DOMAIN listed' = {} /\ pend' = [a \in Actors |-> NoWrite]
    BY <1>6 DEF Restart, NoRoutines
  <2> QED
    BY <1>6, <2>1, <2>2 DEF Restart, Times, Sane
<1>7. ASSUME NEW answers \in BOOLEAN, Probe(answers)
      PROVE  Times'
  <2>1. UNCHANGED <<now, store, pend, served, early>>
    BY <1>7 DEF Probe, SchedulerKeeps
  <2> QED
    BY <1>7, <1>t, <1>l, <2>1, ProbeShrinks DEF Times, Sane
<1>8. ASSUME NEW r \in Ids, Fire(r)
      PROVE  Times'
  <2> DEFINE due == NextFire(listed[r])
  <2>1. /\ UNCHANGED <<now, store, pend, listed>>
        /\ served' = [served EXCEPT ![r] = @ \cup {due}]
        /\ early' = (early \/ due <= listed[r].created)
    BY <1>8 DEF Fire, SchedulerKeeps
  <2>2. r \in DOMAIN listed /\ listed[r] \in Routine
    BY <1>8, <1>t DEF Fire, TypeOK
  <2>3. due \in 1 .. now
    BY <2>2 DEF Times
  <2>4. due \in Nat /\ due > Anchor(listed[r]) /\ due # 0
    BY <2>2, <2>3, <1>n, NextFireIsLater
  <2>5. ~(due <= listed[r].created)
    <3>1. Sane(listed[r])
      BY <2>2 DEF Times
    <3>2. listed[r].created \in Nat /\ listed[r].fired \in Nat
      BY <2>2, <1>t, RecordTimes
    <3>3. Anchor(listed[r]) >= listed[r].created
      BY <3>1, <3>2 DEF Sane, Anchor
    <3>4. Anchor(listed[r]) \in Nat
      BY <2>2, <1>t, RecordTimes
    <3> HIDE DEF due
    <3> QED
      BY <2>4, <3>2, <3>3, <3>4
  <2>6. \A i \in Ids : \A t \in served'[i] : t <= now
    <3>1. due <= now
      BY <2>3, <1>n
    <3> HIDE DEF due
    <3>2. \A i \in Ids : \A t \in served'[i] : t \in served[i] \/ t = due
      BY <2>1 DEF TypeInv
    <3> QED
      BY <3>1, <3>2 DEF Times
  <2> QED
    BY <2>1, <2>5, <2>6 DEF Times, Sane
<1>9. ASSUME NEW a \in Actors, Puts(a)
      PROVE  Times'
  <2>1. UNCHANGED <<now, listed, served, early>> /\ pend[a] # NoWrite
    BY <1>9 DEF Puts, scheduler
  <2>2. \A r \in DOMAIN store' : \/ r \in DOMAIN store /\ store'[r] = store[r]
                                 \/ store'[r] = pend[a].rec
    BY <1>9, PutsStore
  <2>3. \A r \in DOMAIN store' : Sane(store[r])'
    BY <2>1, <2>2 DEF Times, Sane
  <2>4. \A b \in Actors : pend'[b] = NoWrite \/ pend'[b] = pend[b]
    BY <1>9 DEF Puts, TypeInv
  <2> QED
    BY <2>1, <2>3, <2>4 DEF Times, Sane
<1>10. ASSUME NEW a \in Actors, NEW w \in Writes, Asking(a, w)
       PROVE  Times'
  <2>1. UNCHANGED <<now, store, listed, served, early>>
    BY <1>10 DEF Asking, Asks, scheduler, ghosts
  <2>2. Sane(w.rec)
    BY <1>10, <1>n DEF Asking, Times, Sane
  <2>3. \A b \in Actors : pend'[b] = w \/ pend'[b] = pend[b]
    BY <1>10 DEF Asking, Asks, TypeInv
  <2>4. \A b \in Actors : pend'[b] # NoWrite => Sane(pend'[b].rec)
    BY <2>2, <2>3 DEF Times
  <2> QED
    BY <2>1, <2>4 DEF Times, Sane
<1>11. CASE UNCHANGED vars
  BY <1>11 DEF vars, scheduler, ghosts, Times, Sane
<1> QED
  BY <1>t, <1>1, <1>2, <1>3, <1>4, <1>5, <1>6, <1>7, <1>8, <1>9, <1>10, <1>11, NextSteps
  DEF Steps

-----------------------------------------------------------------------------
(* Once for each due time *)

(* Initially nothing was served. *)
LEMMA InitOnce ==
  ASSUME Init
  PROVE  Once
<1>1. \A r \in Ids : served[r] = {}
  BY DEF Init
<1>2. DOMAIN store \subseteq Ids /\ DOMAIN listed = {}
  BY InitTypeInv, <1>1 DEF TypeInv, TypeOK, Init, NoRoutines
<1> QED
  BY <1>1, <1>2 DEF Init, Once, Forgets, Awaits

(* Every step keeps the records ahead of what they were run for. *)
LEMMA StepOnce ==
  ASSUME TypeInv, Times, Once, [Next]_vars
  PROVE  Once'
<1>t. TypeOK
  BY DEF TypeInv
<1>n. now \in Nat
  BY <1>t, RecordTimes
<1>1. CASE Tick
  <2>1. \A r \in DOMAIN listed' : r \in DOMAIN store /\ listed'[r] = store[r]
    BY <1>1, <1>t, TickLists
  <2>2. UNCHANGED <<cur, store, served, again, lost>> /\ at = "idle" /\ at' = "tick"
    BY <1>1 DEF Tick, SchedulerKeeps
  <2>3. \A r \in DOMAIN store \ lost : ~Forgets(r, store[r])'
    BY <2>2 DEF Once, Forgets, Anchor
  <2>4. \A r \in DOMAIN store \ lost : \A t \in served[r] : ~(t > Anchor(store[r]))
    BY <2>2 DEF Once, Forgets
  <2>5. \A r \in DOMAIN store : \A t \in served[r] : t \in Nat /\ Anchor(store[r]) \in Nat
    BY <1>t, RecordTimes DEF TypeInv, TypeOK
  <2>6. \A r \in DOMAIN store \ lost : \A t \in served[r] : t <= Anchor(store[r])
    BY <2>4, <2>5
  <2>7. \A r \in Awaits' \ lost : \A t \in served[r] : t <= Anchor(listed'[r])
    BY <2>1, <2>6 DEF Awaits
  <2> QED
    BY <2>2, <2>3, <2>7 DEF Once, Anchor
<1>o. ASSUME RunOver, NEW r \in Awaits'
      PROVE  r \in Awaits /\ listed'[r] = listed[r]
  BY <1>o, <1>t, RunOverShrinks DEF Awaits
<1>2. CASE Stamp
  <2>1. UNCHANGED <<served, again, lost>> /\ at = "run"
    BY <1>2 DEF Stamp, RunOver, SchedulerKeeps
  <2>2. /\ cur \in Ids /\ Stamped \in Routine /\ Stamped.fired = now
        /\ cur \in DOMAIN listed
    BY <2>1, <1>t, StampedIsRoutine
  <2>3. DOMAIN store' = DOMAIN store \cup {cur} /\ store'[cur] = Stamped
        /\ \A i \in DOMAIN store \ {cur} : store'[i] = store[i]
    BY <1>2, <1>t, <2>2, PutKeepsStore DEF Stamp, WriteStamp
  <2>4. Anchor(Stamped) = now
    <3>1. now >= 1
      BY <2>2, <1>n DEF Times
    <3> QED
      BY <2>2, <3>1, <1>n DEF Anchor
  <2>5. ASSUME NEW r, r = cur
        PROVE  ~Forgets(r, store[r])'
    <3>1. \A t \in served'[r] : t <= now /\ t \in Nat
      BY <2>1, <2>2, <2>5 DEF Times, TypeInv
    <3>2. Anchor(store[r])' = now
      BY <2>3, <2>4, <2>5 DEF Anchor
    <3>3. \A t \in served'[r] : ~(t > Anchor(store[r])')
      BY <3>1, <3>2, <1>n
    <3> QED
      BY <3>3 DEF Forgets
  <2>6. \A r \in DOMAIN store' \ lost : ~Forgets(r, store[r])'
    <3>1. ASSUME NEW r \in DOMAIN store' \ lost, r # cur
          PROVE  ~Forgets(r, store[r])'
      <4>1. r \in DOMAIN store /\ store'[r] = store[r] /\ ~Forgets(r, store[r])
        BY <3>1, <2>3 DEF Once
      <4>2. ~Forgets(r, store'[r])
        BY <4>1
      <4> QED
        BY <3>1, <2>1, <4>1 DEF Forgets
    <3> QED
      BY <3>1, <2>5
  <2>7. \A r \in Awaits' \ lost : \A t \in served[r] : t <= Anchor(listed[r])'
    BY <1>2, <1>o DEF Stamp, Once, Anchor
  <2> QED
    BY <2>1, <2>6, <2>7 DEF Once
<1>3. CASE StampFails
  <2>1. /\ UNCHANGED <<store, served, again>> /\ at = "run"
        /\ lost' = lost \cup {cur}
    BY <1>3 DEF StampFails, RunOver, SchedulerKeeps
  <2>2. \A r \in DOMAIN store' \ lost' : ~Forgets(r, store[r])'
    BY <2>1 DEF Once, Forgets, Anchor
  <2>3. \A r \in Awaits' \ lost' : \A t \in served[r] : t <= Anchor(listed[r])'
    BY <1>3, <2>1, <1>o DEF StampFails, Once, Anchor
  <2> QED
    BY <2>1, <2>2, <2>3 DEF Once
<1>4. CASE Clock
  BY <1>4 DEF Clock, scheduler, ghosts, Once, Forgets, Anchor, Awaits, NextFire
<1>5. CASE WindowPasses
  BY <1>5 DEF WindowPasses, ghosts, Once, Forgets, Anchor, Awaits, NextFire
<1>6. CASE Restart
  <2>1. DOMAIN store' = DOMAIN store /\ \A r \in DOMAIN store : store'[r] = store[r]
    BY <1>6, <1>t, Synced DEF Restart
  <2>2. DOMAIN listed' = {} /\ UNCHANGED <<served, again>> /\ lost' = lost \cup ({cur} \cap Ids)
    BY <1>6 DEF Restart, NoRoutines
  <2>3. \A r \in DOMAIN store' \ lost' : ~Forgets(r, store[r])'
    <3>1. ASSUME NEW r \in DOMAIN store' \ lost'
          PROVE  ~Forgets(r, store[r])'
      <4>1. r \in DOMAIN store \ lost /\ r \in Ids /\ cur # r /\ store'[r] = store[r]
        BY <2>1, <2>2, <1>t DEF TypeOK
      <4> QED
        BY <4>1, <2>2 DEF Once, Forgets, Anchor
    <3> QED
      BY <3>1
  <2> QED
    BY <2>2, <2>3 DEF Once, Awaits
<1>7. ASSUME NEW answers \in BOOLEAN, Probe(answers)
      PROVE  Once'
  <2>1. UNCHANGED <<cur, store, served, again, lost>> /\ at = "tick" /\ at' \in {"idle", "tick"}
    BY <1>7, <1>t, ProbeShrinks DEF Probe, SchedulerKeeps
  <2>2. \A r \in DOMAIN store \ lost : ~Forgets(r, store[r])'
    BY <2>1 DEF Once, Forgets, Anchor
  <2>3. \A r \in Awaits' \ lost : r \in Awaits /\ listed'[r] = listed[r]
    BY <1>7, <1>t, <2>1, ProbeShrinks DEF Awaits
  <2> QED
    BY <2>1, <2>2, <2>3 DEF Once, Anchor
<1>8. ASSUME NEW r \in Ids, Fire(r)
      PROVE  Once'
  <2> DEFINE due == NextFire(listed[r])
  <2>1. /\ UNCHANGED <<store, listed, lost>>
        /\ served' = [served EXCEPT ![r] = @ \cup {due}]
        /\ again' = (again \/ (due \in served[r] /\ r \notin lost))
        /\ at = "tick" /\ at' = "run" /\ cur' = r
    BY <1>8 DEF Fire, SchedulerKeeps
  <2>2. r \in DOMAIN listed /\ listed[r] \in Routine
    BY <1>8, <1>t DEF Fire, TypeOK
  <2>3. due \in Nat /\ due > Anchor(listed[r]) /\ Anchor(listed[r]) \in Nat
    <3>1. due # 0
      BY <2>2, <1>n DEF Times
    <3> QED
      BY <2>2, <3>1, <1>t, NextFireIsLater, RecordTimes
  <2>4. r \notin lost => due \notin served[r]
    <3>1. r \notin lost => \A t \in served[r] : t <= Anchor(listed[r])
      BY <2>1, <2>2 DEF Once, Awaits
    <3> HIDE DEF due
    <3> QED
      BY <2>3, <3>1
  <2>5. ~again'
    BY <2>1, <2>4 DEF Once
  <2>6. \A i \in DOMAIN store \ lost : ~Forgets(i, store[i])'
    <3>1. ASSUME NEW i \in DOMAIN store \ lost, NEW t \in served'[i], t > Anchor(store[i])
          PROVE  at' = "run" /\ cur' = i /\ t = NextFire(listed'[i])
      <4>1. i \in Ids /\ (t \in served[i] \/ (i = r /\ t = due))
        BY <2>1, <1>t DEF TypeInv, TypeOK
      <4>2. t \notin served[i]
        BY <3>1, <2>1 DEF Once, Forgets
      <4> QED
        BY <4>1, <4>2, <2>1
    <3> QED
      BY <3>1, <2>1 DEF Forgets, Anchor, NextFire
  <2>7. \A i \in Awaits' \ lost : i \in Awaits /\ i # r /\ served'[i] = served[i]
    BY <2>1, <1>t DEF Awaits, TypeInv, TypeOK
  <2> QED
    BY <2>1, <2>5, <2>6, <2>7 DEF Once, Anchor
<1>9. ASSUME NEW a \in Actors, Puts(a)
      PROVE  Once'
  <2>1. UNCHANGED <<at, cur, listed, served, again>>
    BY <1>9 DEF Puts, scheduler
  <2>2. /\ lost \subseteq lost'
        /\ pend[a].kind # "delete" /\ Forgets(pend[a].id, pend[a].rec) => pend[a].id \in lost'
    BY <1>9 DEF Puts
  <2>3. \A r, rec : Forgets(r, rec)' = Forgets(r, rec)
    BY <2>1 DEF Forgets, Anchor, NextFire
  <2>4. \A r \in DOMAIN store' \ lost' : ~Forgets(r, store'[r])
    <3>1. ASSUME NEW r \in DOMAIN store' \ lost', r # pend[a].id
          PROVE  ~Forgets(r, store'[r])
      BY <3>1, <1>9, <2>2, PutsStore DEF Once
    <3>2. ASSUME pend[a].id \in DOMAIN store', pend[a].id \notin lost'
          PROVE  ~Forgets(pend[a].id, store'[pend[a].id])
      BY <3>2, <1>9, <2>2, PutsStore
    <3> QED
      BY <3>1, <3>2
  <2>5. \A r \in DOMAIN store' \ lost' : ~Forgets(r, store[r])'
    BY <2>4, <2>1 DEF Forgets, Anchor, NextFire
  <2> QED
    BY <2>1, <2>2, <2>5 DEF Once, Awaits, Anchor
<1>10. ASSUME NEW a \in Actors, NEW w \in Writes, Asking(a, w)
       PROVE  Once'
  BY <1>10 DEF Asking, Asks, scheduler, ghosts, Once, Forgets, Anchor, Awaits, NextFire
<1>11. CASE UNCHANGED vars
  BY <1>11 DEF vars, scheduler, ghosts, Once, Forgets, Anchor, Awaits, NextFire
<1> QED
  BY <1>t, <1>1, <1>2, <1>3, <1>4, <1>5, <1>6, <1>7, <1>8, <1>9, <1>10, <1>11, NextSteps
  DEF Steps

-----------------------------------------------------------------------------
(* Approvals *)

(* Initially the agent's drafts are off. *)
LEMMA InitApprovals ==
  ASSUME Init
  PROVE  Approvals
<1>1. PICK drafts \in SUBSET Agents :
        store = [r \in Config \cup drafts |-> [FromConfig(r) EXCEPT !.on = r \in Config]]
  BY DEF Init
<1>2. \A r \in DOMAIN store : store[r].on => r \in Config
  BY <1>1 DEF FromConfig
<1>3. DOMAIN listed = {} /\ pend["agent"] = NoWrite /\ ~unasked
  BY DEF Init, NoRoutines, Actors
<1> QED
  BY <1>2, <1>3, RoutinesAssumption DEF Approvals, RoutinesAssumption

(* Every step keeps the prompts of the agent's routines approved. *)
LEMMA StepApprovals ==
  ASSUME TypeInv, Approvals, [Next]_vars
  PROVE  Approvals'
<1>t. TypeOK
  BY DEF TypeInv
<1>1. CASE Tick
  <2>1. \A r \in DOMAIN listed' : r \in DOMAIN store /\ listed'[r] = store[r] /\ store[r].on
    BY <1>1, <1>t, TickLists DEF Due
  <2> QED
    BY <1>1, <2>1 DEF Tick, SchedulerKeeps, Approvals
<1>2. CASE Stamp
  <2>1. UNCHANGED <<direct, pend, approved, unasked>>
    BY <1>2 DEF Stamp, RunOver, SchedulerKeeps
  <2>2. \A r \in DOMAIN listed' : r \in DOMAIN listed /\ listed'[r] = listed[r]
    BY <1>2, <1>t, RunOverShrinks DEF Stamp
  <2>3. cur \in DOMAIN listed /\ Stamped.prompt = listed[cur].prompt
    BY <1>2, <1>t, StampedIsRoutine DEF Stamp, RunOver
  <2>4. \A r \in DOMAIN store' : \/ r = cur /\ store'[r] = Stamped
                                 \/ r \in DOMAIN store /\ store'[r] = store[r]
    BY <1>2 DEF Stamp, WriteStamp, Put
  <2> QED
    BY <2>1, <2>2, <2>3, <2>4 DEF Approvals
<1>3. CASE StampFails
  <2>1. \A r \in DOMAIN listed' : r \in DOMAIN listed /\ listed'[r] = listed[r]
    BY <1>3, <1>t, RunOverShrinks DEF StampFails
  <2> QED
    BY <1>3, <2>1 DEF StampFails, RunOver, SchedulerKeeps, Approvals
<1>4. CASE Clock
  BY <1>4 DEF Clock, scheduler, ghosts, Approvals
<1>5. CASE WindowPasses
  BY <1>5 DEF WindowPasses, ghosts, Approvals
<1>6. CASE Restart
  <2>1. DOMAIN store' = DOMAIN store /\ \A r \in DOMAIN store : store'[r] = store[r]
    BY <1>6, <1>t, Synced DEF Restart
  <2>2. DOMAIN listed' = {} /\ pend' = [a \in Actors |-> NoWrite]
    BY <1>6 DEF Restart, NoRoutines
  <2> QED
    BY <1>6, <2>1, <2>2 DEF Restart, Approvals, Actors
<1>7. ASSUME NEW answers \in BOOLEAN, Probe(answers)
      PROVE  Approvals'
  <2>1. \A r \in DOMAIN listed' : r \in DOMAIN listed /\ listed'[r] = listed[r]
    BY <1>7, <1>t, ProbeShrinks
  <2> QED
    BY <1>7, <2>1 DEF Probe, SchedulerKeeps, Approvals
<1>8. ASSUME NEW r \in Ids, Fire(r)
      PROVE  Approvals'
  <2>1. /\ UNCHANGED <<direct, store, listed, pend, approved>>
        /\ r \in DOMAIN listed
        /\ unasked' = (unasked \/ (r \in Agents /\ ~direct /\ listed[r].prompt \notin approved[r]))
    BY <1>8 DEF Fire, SchedulerKeeps
  <2> QED
    BY <2>1 DEF Approvals
<1>9. ASSUME NEW a \in Actors, Puts(a)
      PROVE  Approvals'
  <2> DEFINE w == pend[a]
  <2>1. UNCHANGED <<direct, listed, unasked>> /\ w # NoWrite
    BY <1>9 DEF Puts, scheduler
  <2>2. \A r \in Ids : approved[r] \subseteq approved'[r]
    BY <1>9 DEF Puts, TypeInv
  <2>3. a = "operator" /\ w.kind # "delete" /\ w.rec.on => w.rec.prompt \in approved'[w.id]
    BY <1>9, PutsStore DEF Puts, TypeInv
  <2>4. \A r \in DOMAIN store' : \/ r \in DOMAIN store /\ store'[r] = store[r]
                                 \/ r = w.id /\ w.kind # "delete" /\ store'[r] = w.rec
    BY <1>9, PutsStore
  <2>5. pend'["agent"] = NoWrite \/ pend'["agent"] = pend["agent"]
    BY <1>9 DEF Puts, TypeInv, Actors
  <2>6. a = "agent" /\ w.kind # "delete" /\ ~direct => ~w.rec.on
    BY <2>1 DEF Approvals
  <2>7. a = "operator" \/ a = "agent"
    BY DEF Actors
  <2>8. DOMAIN listed \subseteq Ids /\ Agents \subseteq Ids
    BY <1>t DEF TypeOK, Ids
  <2>9. ASSUME ~direct, NEW r \in DOMAIN store' \cap Agents, store'[r].on
        PROVE  store'[r].prompt \in approved'[r]
    <3>1. CASE r \in DOMAIN store /\ store'[r] = store[r]
      BY <3>1, <2>9, <2>2, <2>8 DEF Approvals
    <3>2. CASE r = w.id /\ w.kind # "delete" /\ store'[r] = w.rec
      BY <3>2, <2>9, <2>3, <2>6, <2>7
    <3> QED
      BY <2>4, <3>1, <3>2
  <2>10. ASSUME ~direct, NEW r \in DOMAIN listed \cap Agents
         PROVE  listed[r].prompt \in approved'[r]
    BY <2>10, <2>2, <2>8 DEF Approvals
  <2>11. ~direct /\ pend'["agent"] # NoWrite /\ pend'["agent"].kind # "delete"
           => ~pend'["agent"].rec.on
    BY <2>5 DEF Approvals
  <2> HIDE DEF w
  <2> QED
    BY <2>1, <2>9, <2>10, <2>11 DEF Approvals
<1>10. ASSUME NEW a \in Actors, NEW w \in Writes, Asking(a, w)
       PROVE  Approvals'
  <2>1. UNCHANGED <<direct, store, listed, approved, unasked>>
    BY <1>10 DEF Asking, Asks, scheduler, ghosts
  <2>2. pend'["agent"] = pend["agent"] \/ (a = "agent" /\ pend'["agent"] = w)
    BY <1>10 DEF Asking, Asks, TypeInv, Actors
  <2>3. a = "agent" /\ w.kind # "delete" /\ ~direct => ~w.rec.on
    BY <1>10 DEF Asking
  <2> QED
    BY <2>1, <2>2, <2>3 DEF Approvals
<1>11. CASE UNCHANGED vars
  BY <1>11 DEF vars, scheduler, ghosts, Approvals
<1> QED
  BY <1>t, <1>1, <1>2, <1>3, <1>4, <1>5, <1>6, <1>7, <1>8, <1>9, <1>10, <1>11, NextSteps
  DEF Steps

-----------------------------------------------------------------------------
(* What is off *)

(* Initially the drafts are off and nothing ran. *)
LEMMA InitStaysOff ==
  ASSUME Init
  PROVE  StaysOff
<1>1. PICK drafts \in SUBSET Agents :
        store = [r \in Config \cup drafts |-> [FromConfig(r) EXCEPT !.on = r \in Config]]
  BY DEF Init
<1>2. \A r \in DOMAIN store : store[r].on => r \in Config
  BY <1>1 DEF FromConfig
<1>3. \A r \in Ids : late[r] = 0
  BY DEF Init
<1>4. \A r \in off : r \notin Config
  BY DEF Init
<1> QED
  BY <1>2, <1>3, <1>4 DEF StaysOff

(* Every step keeps a routine off that was turned off. *)
LEMMA StepStaysOff ==
  ASSUME TypeInv, StaysOff, [Next]_vars
  PROVE  StaysOff'
<1>t. TypeOK
  BY DEF TypeInv
<1>1. CASE Tick
  <2>1. \A r \in DOMAIN listed' : r \in DOMAIN store /\ store[r].on
    BY <1>1, <1>t, TickLists DEF Due
  <2>2. UNCHANGED <<store, off, late, stale>>
    BY <1>1 DEF Tick, SchedulerKeeps
  <2> QED
    BY <2>1, <2>2 DEF StaysOff, Awaits
<1>o. ASSUME RunOver
      PROVE  Awaits' \subseteq Awaits
  BY <1>o, <1>t, RunOverShrinks DEF Awaits
<1>2. CASE Stamp
  <2>1. UNCHANGED <<off, late>>
    BY <1>2 DEF Stamp, RunOver, SchedulerKeeps
  <2>2. \A r \in DOMAIN store' : \/ r = cur /\ store'[r] = Stamped
                                 \/ r \in DOMAIN store /\ store'[r] = store[r]
    BY <1>2 DEF Stamp, WriteStamp, Put
  <2>3. /\ stale \subseteq stale'
        /\ cur \notin stale' => cur \in DOMAIN store /\ store[cur] = listed[cur]
    BY <1>2 DEF Stamp
  <2>4. Stamped.on = listed[cur].on
    BY <1>2, <1>t, StampedIsRoutine DEF Stamp, RunOver
  <2>5. Awaits' \subseteq Awaits
    BY <1>2, <1>o DEF Stamp
  <2> QED
    BY <2>1, <2>2, <2>3, <2>4, <2>5 DEF StaysOff
<1>3. CASE StampFails
  BY <1>3, <1>o DEF StampFails, RunOver, SchedulerKeeps, StaysOff
<1>4. CASE Clock
  BY <1>4 DEF Clock, scheduler, ghosts, StaysOff, Awaits
<1>5. CASE WindowPasses
  BY <1>5 DEF WindowPasses, ghosts, StaysOff, Awaits
<1>6. CASE Restart
  <2>1. DOMAIN store' = DOMAIN store /\ \A r \in DOMAIN store : store'[r] = store[r]
    BY <1>6, <1>t, Synced DEF Restart
  <2>2. DOMAIN listed' = {} /\ UNCHANGED <<off, late, stale>>
    BY <1>6 DEF Restart, NoRoutines
  <2> QED
    BY <2>1, <2>2 DEF StaysOff, Awaits
<1>7. ASSUME NEW answers \in BOOLEAN, Probe(answers)
      PROVE  StaysOff'
  <2>1. UNCHANGED <<store, off, late, stale>> /\ Awaits' \subseteq Awaits
    BY <1>7, <1>t, ProbeShrinks DEF Probe, SchedulerKeeps, Awaits
  <2> QED
    BY <2>1 DEF StaysOff
<1>8. ASSUME NEW r \in Ids, Fire(r)
      PROVE  StaysOff'
  <2>1. UNCHANGED <<store, off, stale>> /\ Awaits' = Awaits \ {r} /\ r \in Awaits
    BY <1>8 DEF Fire, SchedulerKeeps, Awaits
  <2>2. late' = [late EXCEPT ![r] = IF r \in off THEN late[r] + 1 ELSE late[r]]
    BY <1>8 DEF Fire
  <2>3. r \in Ids \ stale /\ r \in off => late[r] = 0
    BY <2>1 DEF StaysOff, TypeInv
  <2>4. \A i \in Ids \ stale : /\ late'[i] <= 1
                               /\ i \in off /\ late'[i] # 0 => i \notin Awaits'
    <3>1. ASSUME NEW i \in Ids \ stale
          PROVE  /\ late'[i] <= 1
                 /\ i \in off /\ late'[i] # 0 => i \notin Awaits'
      <4>1. CASE i # r \/ r \notin off
        <5>1. late'[i] = late[i]
          BY <4>1, <2>2 DEF TypeInv
        <5> QED
          BY <5>1, <2>1 DEF StaysOff
      <4>2. CASE i = r /\ r \in off
        <5>1. late'[i] = 1
          BY <4>2, <2>2, <2>3 DEF TypeInv
        <5> QED
          BY <5>1, <4>2, <2>1
      <4> QED
        BY <4>1, <4>2
    <3> QED
      BY <3>1
  <2> QED
    BY <2>1, <2>4 DEF StaysOff
<1>9. ASSUME NEW a \in Actors, Puts(a)
      PROVE  StaysOff'
  <2> DEFINE w == pend[a]
             off2 == w.kind = "delete" \/ ~w.rec.on
  <2>1. Awaits' = Awaits /\ stale \subseteq stale'
    BY <1>9 DEF Puts, scheduler, Awaits
  <2>2. /\ off' = IF off2 THEN off \cup {w.id} ELSE off \ {w.id}
        /\ late' = IF w.id \in off THEN late ELSE [late EXCEPT ![w.id] = 0]
    BY <1>9 DEF Puts
  <2>3. \A r \in DOMAIN store' : \/ r # w.id /\ r \in DOMAIN store /\ store'[r] = store[r]
                                 \/ r = w.id /\ w.kind # "delete" /\ store'[r] = w.rec
    BY <1>9, PutsStore
  <2>4. ASSUME NEW r \in Ids \ stale', r # w.id
        PROVE  /\ r \in off' /\ r \in DOMAIN store' => ~store'[r].on
               /\ late'[r] <= 1
               /\ r \in off' /\ late'[r] # 0 => r \notin Awaits'
    <3>1. late'[r] = late[r] /\ (r \in off' <=> r \in off)
      BY <2>2, <2>4 DEF TypeInv
    <3> HIDE DEF w, off2
    <3> QED
      BY <3>1, <2>1, <2>3, <2>4 DEF StaysOff
  <2>5. ASSUME w.id \in Ids \ stale'
        PROVE  /\ w.id \in off' /\ w.id \in DOMAIN store' => ~store'[w.id].on
               /\ late'[w.id] <= 1
               /\ w.id \in off' /\ late'[w.id] # 0 => w.id \notin Awaits'
    <3>1. w.id \in off' <=> off2
      BY <2>2
    <3>2. CASE w.id \in off
      <4>1. late'[w.id] = late[w.id]
        BY <3>2, <2>2
      <4> QED
        BY <3>1, <3>2, <4>1, <2>1, <2>3, <2>5 DEF StaysOff
    <3>3. CASE w.id \notin off
      <4>1. late'[w.id] = 0
        BY <3>3, <2>2, <2>5 DEF TypeInv
      <4> QED
        BY <3>1, <4>1, <2>3
    <3> QED
      BY <3>2, <3>3
  <2> HIDE DEF w
  <2> QED
    BY <2>4, <2>5 DEF StaysOff
<1>10. ASSUME NEW a \in Actors, NEW w \in Writes, Asking(a, w)
       PROVE  StaysOff'
  BY <1>10 DEF Asking, Asks, scheduler, ghosts, StaysOff, Awaits
<1>11. CASE UNCHANGED vars
  BY <1>11 DEF vars, scheduler, ghosts, StaysOff, Awaits
<1> QED
  BY <1>t, <1>1, <1>2, <1>3, <1>4, <1>5, <1>6, <1>7, <1>8, <1>9, <1>10, <1>11, NextSteps
  DEF Steps

-----------------------------------------------------------------------------
(* Theorems *)

(* All of it together is inductive. *)
LEMMA AlwaysInv == Spec => [](TypeInv /\ Times /\ Once /\ Approvals /\ StaysOff)
<1> DEFINE Inv == TypeInv /\ Times /\ Once /\ Approvals /\ StaysOff
<1>1. Init => Inv
  BY InitTypeInv, InitTimes, InitOnce, InitApprovals, InitStaysOff
<1>2. Inv /\ [Next]_vars => Inv'
  BY StepTypeInv, StepTimes, StepOnce, StepApprovals, StepStaysOff
<1> HIDE DEF Inv
<1>3. Spec => []Inv
  BY <1>1, <1>2, PTL DEF Spec
<1> QED
  BY <1>3 DEF Inv

(* A routine runs once for a due time, unless its stamp was lost, and for  *)
(* none before it was made: whatever is changed while it is listed or      *)
(* runs, and however often the daemon restarts.                            *)
THEOREM OnceEach == Spec => []OncePerDueTime
<1>1. Times /\ Once => OncePerDueTime
  BY DEF Times, Once, OncePerDueTime, RunsOnce, NoCatchUp
<1> QED
  BY <1>1, AlwaysInv, PTL

(* Below policy_auto a routine of the agent's runs only with a prompt the  *)
(* operator has enabled it with.                                           *)
THEOREM OnlyApproved == Spec => []RunsApproved
<1>1. Approvals => RunsApproved
  BY DEF Approvals, RunsApproved
<1> QED
  BY <1>1, AlwaysInv, PTL

(* A routine that was turned off or deleted begins at most the one run     *)
(* that was listed already, unless an older record was written over the    *)
(* change: OffHolds fails for no other reason.                             *)
THEOREM OffButForStale == Spec => []OffRuns
<1>1. StaysOff => OffRuns
  BY DEF StaysOff, OffRuns
<1> QED
  BY <1>1, AlwaysInv, PTL

=============================================================================
