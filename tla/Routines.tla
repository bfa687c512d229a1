------------------------------ MODULE Routines ------------------------------
(***************************************************************************)
(* Scheduled routines: the records in the store, which the operator and    *)
(* the agent read, change and write back, and the scheduler, which lists   *)
(* them, runs what is due one after the other and stamps each record it    *)
(* listed as fired.  A cron expression is the set of times it matches.     *)
(***************************************************************************)
EXTENDS Naturals, FiniteSetsExt, Functions

CONSTANTS Config,       \* routines of the configuration file
          Operators,    \* identifiers the operator may give
          Agents,       \* identifiers the agent's routines get
          Digests,      \* routines that run without the model
          Crons,        \* cron expressions
          Prompts,
          MaxTime,      \* bound: the clock
          MaxEdits,     \* bound: changes asked for
          MaxFaults     \* bound: restarts and lost stamps

Ids == Config \cup Operators \cup Agents

ASSUME RoutinesAssumption ==
  /\ Config \cap Operators = {} /\ Config \cap Agents = {} /\ Operators \cap Agents = {}
  /\ Digests \subseteq Ids
  /\ MaxTime \in Nat /\ MaxEdits \in Nat /\ MaxFaults \in Nat
  /\ Crons \subseteq SUBSET (1 .. MaxTime)
  /\ Crons # {} /\ Prompts # {}

Routine == [on : BOOLEAN, cron : Crons, prompt : Prompts, created : 0 .. MaxTime,
            fired : 0 .. MaxTime]   \* 0: not yet

VARIABLES
  direct,   \* the agent's routines are armed without approval (policy_auto)
  now,
  store,    \* identifier -> its record
  at,       \* the scheduler: idle, tick or run
  listed,   \* the due records of the tick not yet run, as listed
  cur,      \* the identifier that runs
  asked,    \* the model was asked in this tick
  ready,    \* the start-up hold has ended
  waited,   \* the hold's window has passed
  pend,     \* actor -> the write it is about to make
  edits, faults,
  served,   \* identifier -> the due times it was run for
  again,    \* a routine ran a second time for one due time, its stamp not lost
  lost,     \* identifiers whose stamp was lost: not written or overwritten
  early,    \* a routine ran for a time before it was there
  off,      \* identifiers whose last acknowledged change left them off
  late,     \* identifier -> runs begun since it was last turned off
  stale,    \* identifiers over which an older record was written
  approved, \* identifier -> the prompts the operator has enabled it with
  unasked   \* a routine of the agent's ran with another prompt

scheduler == <<at, listed, cur, asked, ready, waited>>
ghosts == <<served, again, lost, early, off, late, stale, approved, unasked>>
vars == <<direct, now, store, scheduler, pend, edits, faults, ghosts>>

Actors == {"operator", "agent"}
NoWrite == [kind |-> "none"]
NoRoutines == [r \in {} |-> NoWrite]

-----------------------------------------------------------------------------
(* Times *)

(* last_fired_or_epoch: a routine that never ran counts from its creation. *)
Anchor(rec) == IF rec.fired > 0 THEN rec.fired ELSE rec.created

(* next_fire_time_after; 0 is never. *)
NextFire(rec) == LET after == {t \in rec.cron : t > Anchor(rec)}
                 IN IF after = {} THEN 0 ELSE Min(after)

(* What a tick runs. *)
Due(rec) == rec.on /\ NextFire(rec) \in 1 .. now /\ rec.fired < NextFire(rec)

-----------------------------------------------------------------------------

(* config_to_records and sync_config_schedules *)
FromConfig(r) == [on |-> TRUE, cron |-> CHOOSE c \in Crons : TRUE,
                  prompt |-> CHOOSE p \in Prompts : TRUE, created |-> now, fired |-> 0]

Init ==
  /\ direct \in BOOLEAN
  /\ now = 0
  /\ \E drafts \in SUBSET Agents :
       store = [r \in Config \cup drafts |->
                  [FromConfig(r) EXCEPT !.on = r \in Config]]
  /\ at = "idle" /\ listed = NoRoutines /\ cur = "none" /\ asked = FALSE
  /\ ready = FALSE /\ waited = FALSE
  /\ pend = [a \in Actors |-> NoWrite]
  /\ edits = 0 /\ faults = 0
  /\ served = [r \in Ids |-> {}] /\ again = FALSE /\ lost = {} /\ early = FALSE
  /\ off = DOMAIN store \ Config /\ late = [r \in Ids |-> 0] /\ stale = {}
  /\ approved = [r \in Ids |-> {}] /\ unasked = FALSE

Clock == /\ now < MaxTime
         /\ now' = now + 1
         /\ UNCHANGED <<direct, store, scheduler, pend, edits, faults, ghosts>>

-----------------------------------------------------------------------------
(* The scheduler *)

SchedulerKeeps == UNCHANGED <<direct, now, pend, edits, off, approved>>

(* tick: the records are listed once, those that are due are kept.  A tick *)
(* that lists none changes nothing.                                        *)
Tick ==
  /\ at = "idle"
  /\ listed' = Restrict(store, {r \in DOMAIN store : Due(store[r])})
  /\ DOMAIN listed' # {}
  /\ at' = "tick" /\ UNCHANGED asked
  /\ SchedulerKeeps
  /\ UNCHANGED <<store, cur, ready, waited, faults, served, again, lost, early, late,
                 stale, unasked>>

Proceeds(probed) == /\ at' = IF DOMAIN listed' = {} THEN "idle" ELSE "tick"
                    /\ asked' = (probed /\ DOMAIN listed' # {})

(* StartupHold::model_ready, asked once per tick.  While the hold is on,   *)
(* what needs the model is left for a later tick.                          *)
Mut_HoldForever(answers) == ready' = (ready \/ answers)

HoldEnds(answers) == ready' = (ready \/ waited \/ answers)

Probe(answers) ==
  /\ at = "tick" /\ ~asked /\ DOMAIN listed \ Digests # {}
  /\ HoldEnds(answers)
  /\ listed' = IF ready' THEN listed ELSE Restrict(listed, DOMAIN listed \cap Digests)
  /\ Proceeds(TRUE)
  /\ SchedulerKeeps
  /\ UNCHANGED <<store, cur, waited, faults, served, again, lost, early,
                 late, stale, unasked>>

WindowPasses ==
  /\ ~waited
  /\ waited' = TRUE
  /\ UNCHANGED <<direct, now, store, at, listed, cur, asked, ready, pend, edits, faults,
                 ghosts>>

(* fire_schedule: the listed record is run, whatever the store now says. *)
Fire(r) ==
  LET rec == listed[r]
      due == NextFire(rec)
  IN /\ at = "tick" /\ r \in DOMAIN listed
     /\ r \in Digests \/ asked
     /\ at' = "run" /\ cur' = r
     /\ served' = [served EXCEPT ![r] = @ \cup {due}]
     /\ again' = (again \/ (due \in served[r] /\ r \notin lost))
     /\ early' = (early \/ due <= rec.created)
     /\ late' = [late EXCEPT ![r] = IF r \in off THEN @ + 1 ELSE @]
     /\ unasked' = (unasked \/ (r \in Agents /\ ~direct /\ rec.prompt \notin approved[r]))
     /\ SchedulerKeeps
     /\ UNCHANGED <<store, listed, asked, ready, waited, faults, lost, stale>>

(* The store with one record written: another one, or one more. *)
Put(r, rec) == [i \in DOMAIN store \cup {r} |-> IF i = r THEN rec ELSE store[i]]

(* update_last_fired: the listed record is written back, stamped; best     *)
(* effort.                                                                 *)
Stamped == [listed[cur] EXCEPT !.fired = now]

Mut_OnSuccess == \/ store' = Put(cur, Stamped)
                 \/ UNCHANGED store

WriteStamp == store' = Put(cur, Stamped)

RunOver ==
  /\ at = "run"
  /\ cur' = "none"
  /\ listed' = Restrict(listed, DOMAIN listed \ {cur})
  /\ Proceeds(asked)
  /\ SchedulerKeeps
  /\ UNCHANGED <<ready, waited, served, again, early, late, unasked>>

Stamp ==
  /\ RunOver
  /\ WriteStamp
  /\ stale' = IF cur \in DOMAIN store /\ store[cur] = listed[cur] THEN stale
              ELSE stale \cup {cur}
  /\ UNCHANGED <<faults, lost>>

StampFails ==
  /\ RunOver /\ faults < MaxFaults
  /\ faults' = faults + 1
  /\ lost' = lost \cup {cur}
  /\ UNCHANGED <<store, stale>>

-----------------------------------------------------------------------------
(* Changes: the record is read, changed and written back in another step. *)

Asks(a, write) ==
  /\ pend[a] = NoWrite /\ edits < MaxEdits
  /\ edits' = edits + 1
  /\ pend' = [pend EXCEPT ![a] = write]
  /\ UNCHANGED <<direct, now, store, scheduler, faults, ghosts>>

Write(kind, r, rec, read) == [kind |-> kind, id |-> r, rec |-> rec, read |-> read]

New(c, p, armed) == [on |-> armed, cron |-> c, prompt |-> p, created |-> now, fired |-> 0]

Changes(rec) == {[rec EXCEPT !.cron = c] : c \in Crons}
                \cup {[rec EXCEPT !.prompt = p] : p \in Prompts}
                \cup {[rec EXCEPT !.on = on] : on \in BOOLEAN}

OperatorCreates(r, c, p, armed) ==
  /\ r \in Operators \ DOMAIN store
  /\ Asks("operator", Write("create", r, New(c, p, armed), {}))

OperatorUpdates(r) ==
  /\ r \in DOMAIN store
  /\ \E rec \in Changes(store[r]) \ {store[r]} :
       Asks("operator", Write("update", r, rec, {store[r]}))

(* Routines of the configuration would come back at the next start. *)
OperatorDeletes(r) ==
  /\ r \in DOMAIN store \ Config
  /\ Asks("operator", Write("delete", r, store[r], {store[r]}))

AgentCreates(r, c, p) ==
  /\ r \in Agents \ DOMAIN store
  /\ Asks("agent", Write("create", r, New(c, p, direct), {}))

(* An edit of the agent's invalidates the approval. *)
Mut_KeepsApproval(rec) == rec

Edited(rec) == IF direct THEN rec ELSE [rec EXCEPT !.on = FALSE]

AgentUpdates(r) ==
  /\ r \in DOMAIN store \cap Agents
  /\ \E rec \in Changes(store[r]) \ {store[r]} :
       Asks("agent", Write("update", r, Edited(rec), {store[r]}))

AgentDeletes(r) ==
  /\ r \in DOMAIN store \cap Agents
  /\ Asks("agent", Write("delete", r, store[r], {store[r]}))

(* For the history: a record that counts from before a run takes its stamp *)
(* back, but for the run under way, which is still to be stamped.          *)
Forgets(r, rec) ==
  \E t \in served[r] : t > Anchor(rec) /\ ~(at = "run" /\ cur = r /\ t = NextFire(listed[r]))

Puts(a) ==
  LET w == pend[a]
      off2 == w.kind = "delete" \/ ~w.rec.on
      over == w.id \in DOMAIN store /\ store[w.id] \notin w.read
  IN /\ w # NoWrite
     /\ pend' = [pend EXCEPT ![a] = NoWrite]
     /\ store' = IF w.kind = "delete" THEN Restrict(store, DOMAIN store \ {w.id})
                 ELSE Put(w.id, w.rec)
     /\ off' = IF off2 THEN off \cup {w.id} ELSE off \ {w.id}
     /\ late' = IF w.id \in off THEN late ELSE [late EXCEPT ![w.id] = 0]
     /\ stale' = IF over THEN stale \cup {w.id} ELSE stale
     /\ lost' = IF w.kind # "delete" /\ Forgets(w.id, w.rec) THEN lost \cup {w.id} ELSE lost
     /\ approved' = IF a = "operator" /\ ~off2
                    THEN [approved EXCEPT ![w.id] = @ \cup {w.rec.prompt}] ELSE approved
     /\ UNCHANGED <<direct, now, scheduler, edits, faults, served, again, early, unasked>>

-----------------------------------------------------------------------------

(* sync_config_schedules: the store has precedence over the configuration. *)
SyncConfig == store' = [r \in DOMAIN store \cup Config |->
                          IF r \in DOMAIN store THEN store[r] ELSE FromConfig(r)]

(* The records survive; a run that was under way is not stamped. *)
Restart ==
  /\ faults < MaxFaults
  /\ faults' = faults + 1
  /\ SyncConfig
  /\ at' = "idle" /\ listed' = NoRoutines /\ cur' = "none" /\ asked' = FALSE
  /\ ready' = FALSE /\ waited' = FALSE
  /\ pend' = [a \in Actors |-> NoWrite]
  /\ lost' = lost \cup ({cur} \cap Ids)
  /\ UNCHANGED <<direct, now, edits, served, again, early, off, late, stale, approved,
                 unasked>>

SchedulerStep ==
  \/ Tick \/ Stamp
  \/ \E answers \in BOOLEAN : Probe(answers)
  \/ \E r \in Ids : Fire(r)

Next ==
  \/ SchedulerStep \/ StampFails \/ Clock \/ WindowPasses \/ Restart
  \/ \E a \in Actors : Puts(a)
  \/ \E r \in Ids :
       \/ OperatorUpdates(r) \/ OperatorDeletes(r) \/ AgentUpdates(r) \/ AgentDeletes(r)
       \/ \E c \in Crons, p \in Prompts :
            AgentCreates(r, c, p) \/ \E armed \in BOOLEAN : OperatorCreates(r, c, p, armed)

Spec == Init /\ [][Next]_vars

(* The scheduler's task is polled, a run ends and the window passes. *)
FairSpec == Spec /\ WF_vars(SchedulerStep) /\ WF_vars(WindowPasses)

-----------------------------------------------------------------------------
(* Properties *)

TypeOK ==
  /\ direct \in BOOLEAN /\ now \in 0 .. MaxTime
  /\ DOMAIN store \subseteq Ids /\ Config \subseteq DOMAIN store
  /\ \A r \in DOMAIN store : store[r] \in Routine
  /\ at \in {"idle", "tick", "run"}
  /\ DOMAIN listed \subseteq Ids /\ \A r \in DOMAIN listed : listed[r] \in Routine
  /\ cur \in Ids \cup {"none"} /\ (at = "run" => cur \in DOMAIN listed)
  /\ asked \in BOOLEAN /\ ready \in BOOLEAN /\ waited \in BOOLEAN
  /\ \A a \in Actors : pend[a] = NoWrite \/ (pend[a].id \in Ids /\ pend[a].rec \in Routine)
  /\ edits \in 0 .. MaxEdits /\ faults \in 0 .. MaxFaults

(* A routine runs once for a due time, unless its stamp was lost: by a     *)
(* crash, a failed write, or a change that was read before and written     *)
(* after it.                                                               *)
RunsOnce == ~again

(* No routine runs for a time at which it was not yet there.               *)
NoCatchUp == ~early

(* One run for each due time, and for none before the routine existed.     *)
OncePerDueTime == RunsOnce /\ NoCatchUp

(* Below policy_auto a routine of the agent's runs only with a prompt the  *)
(* operator has enabled it with, whoever edits it while it runs.           *)
RunsApproved == ~unasked

(* A routine that was turned off or deleted begins at most the one run its *)
(* tick had listed, if no older record was written over the change.        *)
OffRuns == \A r \in Ids : r \notin stale => late[r] <= 1

(* "You can edit, disable, or delete any of them": the same, whatever was  *)
(* written over it.                                                        *)
OffHolds == \A r \in Ids : r \in off => late[r] <= 1

(* A routine of the configuration, which nobody can delete, runs when it   *)
(* is due, or is edited so that it is not: the start-up hold ends.         *)
DueRuns ==
  \A r \in Config : Due(store[r]) ~> ((at = "run" /\ cur = r) \/ ~Due(store[r]))

=============================================================================
