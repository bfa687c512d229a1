# Aivyx PA: a TLA+ verification project

Aivyx PA is a personal-agent daemon written in Rust. A *turn* of the agent is a
loop "gates, audit, tool call, audit" around a language model. Around that loop sit a
tamper-evident audit log, the rules by which the operator's approval is asked
for, remembered and used, cost and rate gates, the guard that keeps private
conversations off the cloud, unattended drivers (missions, loops, routines,
reminders) and the channels through which an operator talks to the daemon.

The project models the parts where tasks, callbacks, timers, failed writes and
restarts meet, checks them with TLC on small instances, and proves the safety
properties of most of them with TLAPS for every instance.

Files: `X.tla` is a component, `X_proofs.tla` its theorems, `MC_X.tla` with
`MC_X_<question>.cfg` its TLC instances. `PROJECT.json` lists components, runs,
mutants, the source lines of every definition, findings, hazards and theorems.

## 1. Inventory

| Part | State it keeps | Operations | Hard behaviour | Correct when | Module |
|---|---|---|---|---|---|
| Persistent audit log (`aivyx-audit/src/persistent.rs`, the chain of `lib.rs`) | chain in memory, bounded channel, health flag, rows and anchor on disk | append, drain, open, drop | appenders without a common lock, two commits per entry, full channel, crash | no row disagrees with the chain, a hole in it has a known cause, a restart is refused for nothing else, nothing accepted vanishes silently | `AuditLog`, `AuditJournal` |
| Operator confirmations (`aivyx-core/src/confirm.rs`, `agent.rs`) | refusals per session, epoch of each session's turn | begin_turn, record_refusal, take_refusal, forget_turn | one turn later and never later; parallel batches; turns of one session at once; caps that clear | a call runs on the operator's reply to it and once | `Confirmations` |
| Parked steps (`aivyx-channel/src/parked_steps.rs`) | pending and resolved steps in the store | park, list, resolve, lapse, tidy | runs that park at once; run, then write: crash or failed write between; expiry; caps | one final outcome per step; only approved steps run | `ParkedSteps`, `StepReview` |
| Approval desk (`approval_desk.rs`; `drive_turn` and the frame loop of `daemon_server.rs`; the deadline of `agent.rs`) | open prompts, deferred frames, cancellation token, turn deadline | ask, resolve, deny_all, cancel, submit, disconnect | an answer against timeout, cancel, deadline and hangup; frames that arrive mid-turn | the first answer to a prompt decides it; a stop reaches its own turn; everything abandoned ends | `ApprovalDesk` |
| Budget gate (`budget_gate.rs`, `aivyx-cost/src/budget.rs`) | reserved sum; cost events in the audit chain | open_turn, reserve, charge, release | committed cost is read outside the lock of the reservations | no leak; overspend only for known reasons | `BudgetGate` |
| Team missions (`team_mission_driver.rs`; the plan's run in `aivyx-team`) | the record in registry and store, abort and pause flags, the run of the plan | start, drive, resolve a gate, pause, resume, abort, verify, retry, reload | operators who decide on one snapshot, put after an await; put in three steps; restart; bounded retries | a step begins once per attempt and never past a gate; the budget covers the mission, not a drive; an abort holds | `TeamMission`, `MissionWork` |
| Loop driver (`loop_driver.rs`, `loop_resume.rs`, `aivyx-ipc/src/loop_state.rs`) | run state, breaker, run marker | start, stop, iterate, delegate, rescue, judge, resume | stop and start while an iteration runs; a wake-up left over; marker written after the state | a run costs no more than it may, stops when told, resumes what was wanted | `LoopDriver` |
| Scheduler (`daemon_scheduler.rs`, routine tools and handlers) | routines in the store, start-up hold | tick, fire, stamp; create, edit, delete | a listed record is written back after its run; crash between run and stamp | once per due time; only approved prompts of the agent's routines run | `Routines` |
| Routing guard (`routing_guard.rs`, `escalation.rs`) | taint in memory and on disk, consent, one-shot arming | mark, arm, begin, end, allow, escalate | calls that mark side by side; unreadable and failed rows; restart | private content never reaches the cloud; a mark serves one turn | `CloudGate` |
| Rate gate (`rate_gate.rs`, `rate_limit.rs`) | per-turn counters, sliding window | begin_turn, check | one limiter shared by concurrent turns; the clock is read before the lock | the limits let no more through than they say, and refuse nothing they allow | `TurnResources` |
| KV-cache slot pool (`kv_slot_pool.rs`, the planner's load) | slots checked out, record of what each holds | checkout, record, drop | failed warm-ups, unpinned requests, turns that overlap | no slot is shared; the record is true | `TurnResources` |
| Loop backlog (`loop_backlog.rs`) | chained stories in the store | append, transition, open | concurrent appends, failed writes | the chain opens after every restart | story status in `LoopDriver`; the chain is not modelled |
| Reminders (`reminder_driver.rs`), triggers | reminders in the store | set, fire, clear | crash between delivery and clear | at least once | not modelled |
| Turn loop, daemon server, team runtime | | | | | in part, through the modules above |
| Everything else (providers, tools, memory, channels, UIs, crypto, configuration) | | | data and I/O | | not modelled; reasons in `PROJECT.json` |

How they interact: a turn begins on a connection (`ApprovalDesk`), opens the
budget gate (`BudgetGate`), takes a slot and clears the rate limits
(`TurnResources`), promotes the marks the turn before left (`CloudGate`),
dispatches batches of tool calls that look up the ledger (`Confirmations`), asks
the operator in-line if its channel can (`ApprovalDesk`) or parks the call if it is
unattended (`ParkedSteps`), and appends to the audit chain (`AuditLog`), from
which the budget gate reads what the day cost. Turns are begun by operators, by
the loop driver (`LoopDriver`), which also hands stories to the team
(`TeamMission`), and by the scheduler (`Routines`).

## 2. Modules and their correspondence to the code

**AuditLog.** `append` is not atomic: `ChainAppend`, `CheckHealth`, `Send` or
`SendFails` + `FlipHealth` are its statements, so several writers interleave as the
code lets them. The drain task is `DrainRecv`, `PutOk`/`PutFails`,
`AnchorOk`/`AnchorFails`, and `DrainCancelled` when its runtime goes away. `Crash`
keeps the store only; `Open`/`OpenRefused` is the verification at start-up
(gap, linkage, anchor). `Handlers` says whether the error handler panics, as the
daemon's does, or returns (`with_error_handler`). `overtaken` and `unwound` record, beside
the log's state, why a place can be missing from the store: a later entry was sent while
an earlier one was still inside `append`, or the handler panicked over a failed send,
past the statement that flips the health flag. A MAC is the number its entry was minted
with: collision-free, so tampering is out of scope. *AuditJournal* is the promise: each
entry takes the next place and becomes durable there after all before it, save places
that were passed over; a crash takes what is not durable; a journal with a place missing
is not continued.

**Confirmations.** `epochs` and `refused` are the fields of the ledger; a *lane* is
a connection and the turn it runs. Nothing keeps two lanes from running turns of one
session. `BeginTurn`, `Dispatch`, `Lookup`, `Refuse`, `Execute`,
`AnswerYes`/`AnswerNo`/`Unavailable`, `EndBatch`, `EndTurn` follow the turn loop;
`WindowPasses` is the approval window. `asked`, `approvable`, `saidNo`, `grants` and
`runs` record what the operator said and what ran, independently of the ledger, so that
the properties compare the two. `blurred` records the sessions whose turns the ledger
confuses: two overlapped, or one was under way when the table of epochs was cleared
(`Forgets`). It ends with a message that approves nothing, which drops what was left.

**ParkedSteps.** Runs park and operators decide from several tasks. An operation takes its
steps one await at a time: `ParkReads` finds no identical pending step and room for one,
`ParkWrites` writes, `ParkAudits` tells; `tidy` is `Lapse`, `LapseAudits`, `Drop`,
`TidyDone`. Between two of them a read or write fails (`StorageFails`) or the daemon stops
(`Crash`). The steps themselves know of no lock: only `Enter` and `Return` do, so that the
mutant which enters without it makes two runs meet. Times are ages. *StepReview* is the
promise: parked once, waiting, one final outcome, forgotten.

**ApprovalDesk.** One connection. The frontend sends submits, cancels, answers and
a goodbye in any order; the loop serves deferred frames first; `drive_turn` handles
what arrives mid-turn (`DriveFrame`, `DriveClosed`). Turn and frame handling are
polled by one task, so a step lies between two awaits. A turn is its prompts:
`Asking` by the turn itself (deadline paused), `SpecialistAsks` through the
lead's channel (deadline not paused). `AskAnswered`, `AskTimesOut` and
`AskCancelled` are the branches of one `select!`, which takes any that is ready.
A malformed frame ends the reader like a hangup. A shutdown is `Leave`. The switch
`SetApprovals` and headless turns only remove prompts, and query frames change none
of this state.

**BudgetGate.** `ReadCommitted` walks the chain (a failed read counts as nothing),
`Reserve`/`RefuseTurn` run under the enforcer's lock, `Charge` appends the cost,
`Release` drops the guard. `SpecialistTurn` spends on the same chain with no gate,
because `SpecialistFactory::build` attaches none. `overrun`, `stale` and `ungated`
record why the cap can be passed. Amounts are whole units, the cap denies, and the
costs fall in one day. `BudgetGate` and `CloudGate` carry their name in `BudgetInit`,
`CloudSpec` and so on, so that one module can extend both with `TurnResources` and hold
the proofs of all three gates of a turn.

**TeamMission.** One mission and several operators. Every write of its record is a
snapshot, a save and an insert into the registry (`put` of the driver), so each `put` of a
drive or an operator is three steps: it is drafted by the action that decides it
(`Resolve`, `Resume`, `Land`, `Persist`, ...), saved (`DriveSave`/`OpSave`, or it fails)
and shown (`DriveInsert`/`OpInsert`). Nothing locks them, so that two operators decide on
one snapshot; `seen` is the one an operator decided on, and `crossed` becomes true when a
decision is saved although the mission has moved on since or another decision is about to
be shown (`Crosses`). A *drive* is `drive_registered` around `drive`:
`DriveBegins`, `Arm`, `Persist`, `Land`, `Cleanup`, `Judge`, `Retry`. Its *run* is
the task that executes the plan wave by wave (`Boundary`, `WaveOver`), which goes on
alone when its drive fails (`Abandoned`). `armed` is the entry of the flag tables
for this mission; a drive's guard removes it by mission id. `Restart` is `reload`.
*MissionWork* is the promise about the plan: a step once per attempt, after its
dependencies, a gate decided once, attempts bounded, and nothing once decisions have
crossed. `work`, `granted`, `refused` and `attempt` are recorded beside the program's
state so that the refinement is about what was done and not about what the record says.

**LoopDriver.** `active`, `count`, `limit`, `reason` and `permit` are the shared run
state and the stored notification. The driver is one task; `at` is its await:
`Outer`, `Woken`, `Poll`, `Begin` between runs, `Decide`, `Fire`, `TurnOver`, `Gate`,
`Close`, `Verdict`, `MissionOver`, `EndRun` within one. `Settle` is
`StallTracker::record` with `next_arm`. Operators start and stop (`Start`, `Stop`) and
write the marker later (`PersistMarker`, or it fails); other users add and skip
stories. `Panic` is the guard of a run that unwinds: the task is gone. Counts since the
last start (`begun`, `late`, `streak`, `missions`) are kept beside the driver's own.

**Routines.** A tick lists the records (`Tick`), asks once whether the model is ready
(`Probe`, `StartupHold`), runs the due ones in any order of the list (`Fire`) and puts
each *listed* record back, stamped (`Stamp`, `StampFails`). The operator's handlers
and the agent's tools read, change and put a record in two steps (`Operator*`,
`Agent*`, `Puts`). A cron expression is the set of times it matches. `lost` holds the
routines whose stamp may have been lost: a put that failed, a crash before it, or an
older record written over it (`Forgets`), which takes the stamp back.

**CloudGate.** One conversation. `MarkEnter`, `MarkRead`, `MarkPut` are `mark` with its
lock; `Ask`, `Send`, `Stop`, `NoCloudModel` are the gate of one escalation, before and
after its await; `Promote`, `ArmNext`, `End` are begin_armed_turn, arm_next_turn and
end_armed_turn; `Allow` and `AllowOffer` are the two locks of `/allow-cloud`. A batch's
calls run side by side and may be model requests of child turns, which share the
parent's mark.

**TurnResources.** One limiter and one pool, shared by all turns. `Checkout`, `Load`,
`LoadFails`, `Start` are the begin of a turn in the planner and the gate. A call takes two
steps: `ReadClock` is the gate's `Instant::now()`, and `Admit` or `Refuse` (`Judge`) is
`check` under the limiter's lock, by the instant that was read. Other calls can be judged
in between; one that is judged by an instant before the latest so far is `overtaken`. The
window is pruned from the front, as the queue is. Each cap is optional. `Request` reaches
the server, which is external: a slot holds the prefix loaded last and the conversations
sent since.

## 3. Runs

| Run | Bounds | Distinct states | Properties | What it shows |
|---|---|---|---|---|
| `audit_daemon` | 2 writers, panicking and returning handler, channel of 2, 4 events, 2 crashes | @audit_daemon@ | `StoreIsChain`, `HolesAreExplained`, `RestartOpens`, `AckedNotLostWhileHealthy`, `RowsAreFinal`, `AckedReachesDisk`, `ImplementsJournal` | a hole in the store has one of two causes, and a start is refused for nothing else; an accepted event reaches the disk or the log is no longer healthy; the log implements the journal |
| `audit_order` (violation) | 2 writers, 3 events | | `DiskOrderIsAppendOrder` | the entry that came second is sent, and put, first |
| `confirm_ledger` | 2 sessions, 2 connections (one with parallel batches of 2), 3 turns, tables of 1 that are cleared | @confirm_ledger@ | `LedgerIsExact`, `OneApprovalOneRun` | lookups hit only calls the operator's message approves, no entry outlives its turn, one approval is one run, but in a session the ledger has confused |
| `parked_queue` | 2 concurrent runs and the sweeper, 2 calls, 2 parks, 1 fault | @parked_queue@ | `RunsOnlyIfApproved`, `TrailTellsOneOutcome`, `NoTwinsWaiting`, `ImplementsReview`, `NothingWaitsForever` | no call waits twice; outcome, trail and store agree; nothing waits forever |
| `desk_chat` | 4 frames, 2 prompts | 255 468 | `OrderKept`, `NoStaleCancel`, `DeclinedForAReason`, `AbandonedEnds` | order, stops and endings of a connection |
| `budget_day` | 3 tasks, 1 specialist, cap 3, cost to 2, 5 turns, 1 failed read | 105 564 | `ReservedIsHeld`, `OverspendExplained` | reservations are exact; every unit over the cap is explained |
| `mission` | 2 operators, 5 steps with 2 gates, budgets 2, 3 and 7, 2 attempts, 2 drives, 5 requests, 1 restart, 1 fault, no step once decisions crossed | @mission@ | `WorksOnce`, `RestartShowsTheSame`, `DoneWasAccepted`, `NoWorkPastCap`, `AbortHolds`, `Settles` | the mission keeps the promise of `MissionWork` through every put, gate, pause, retry and restart, until two decisions on one snapshot are both stored |
| `loop` | 2 stories, one for the team, cap 4, slack 2, 2 missions per story, 3 requests, 1 fault | 1 125 499 | `Bounded`, `StopsWhenAsked`, `StallIsEarned`, `RescueIsArmed`, `MarkerIsWanted`, `RunEnds` | what a run may cost, when it stops, and why it says it did |
| `routines` | 3 routines (file, operator's, agent's), 2 crons, 2 prompts, clock to 2, 2 changes, 1 fault | 779 022 | `OncePerDueTime`, `RunsApproved`, `DueRuns` | once per due time unless a stamp was lost; approvals hold against edits in flight |
| `routines_off` (violation) | the same | | `OffHolds` | a routine disabled or deleted while it runs comes back with its stamp |
| `cloud` | 2 calls per batch, 2 reasons, 4 turns, 2 faults | 121 938 | `PrivateStaysLocal`, `FirstReasonKept`, `MarksServeOnce` | private content stays local; a failure, an offer and a consent each serve one turn |
| `shared` | 3 turns, 2 tools, 2 slots, 2 prefixes, cap of 2 per turn, 1 for a tool, 2 per window for the other, window 2, 4 calls | @shared@ | `LimitsExact`, `PoolIsTrue` | each limit, reached alone, is exact for what it can know, a call judged late excepted; the pool's record is true |

Some properties are conjunctions of named parts (`Bounded`, `StopsWhenAsked`,
`MarksServeOnce`, `LimitsExact`, `PoolIsTrue`, `OncePerDueTime`, `LedgerIsExact`,
`StoreIsChain`): the parts belong together, and a counterexample names the one that
fails. Every module has a `TypeOK`. The runs do not repeat it where a theorem
`TypeCorrect` proves it; it can be added to any configuration.

**Why the bounds are enough.** Each bound admits every case the properties
distinguish: a channel of 2 can be full with one entry behind a failing put; two
crashes are a restart of a restarted log; two steps with `KeepResolved = 1` make tidy
drop one, and two runs that park one call meet; two prompts make crossed answers, four frames make a cancel between a
submit and a deferred submit; three turns make "the turn before" and "two turns
before" differ; three concurrent turns make a stale figure with others' reservations
present. In the mission, the gate on the path and the gate beside it can wait
together, a budget of 2 ends between the gates, one of 3 with the first attempt and one of 7 never, five requests decide both gates of both attempts, and two
drives overlap when an operator answers a gate while the old drive cleans up. The
constraint `NotCrossed` ends a behaviour when decisions have crossed: `crossed` never
becomes false again and every property of the run says `crossed` or nothing from there on, so that no
step left out could violate one. The two operators are explored until then: answers to
one gate, an answer to the next gate while the last is being put, a resume on an old
snapshot. Batches of one connection are parallel (`Parallel`): the other's turn overlaps
it all the same, and two tables of one entry are cleared under each other's turns. In
the loop, a slack of 2 tells the first idle iteration from the last and the rescue
extends it, and two missions per story make a failure that is not yet the bound.
Two times are enough for a routine to be due twice and for a change between. Two calls
race for the taint's row, two faults are an unreadable row and a failed write, or one of
them and a restart; four turns are a failure, its turn, an ignored offer's turn and a
later one. A third turn starts while two overlap and finds no slot; two turns meet at
the limiter, and one's call is overtaken by the other's. The theorems of
section 5 remove the bounds for the safety part. Symmetry is used for sessions, turns,
calls, reasons and prefixes, in runs that check no liveness.

**Deadlock.** The bounds (events, parks, frames, turns, requests, the clock) end every
behaviour of these models but one, so their configurations switch the deadlock check
off. `MC_ParkedSteps` keeps it on: the queue can always be swept.

## 4. Fairness

- `AuditLog` FairSpec: `WF(DrainTask)`. The drain task is a spawned task whose only
  awaits are the channel and the store; the runtime polls it. Writers, crashes and
  restarts are not fair.
- `ParkedSteps` FairSpec: `WF` of every task's next step inside its section (storage
  and calls return), `WF(Tick)`, and `SF(Sweep(sweeper))`, since the lock is free again
  and again, and tokio's mutex is a queue. That an approved call returns is an
  assumption: the lock is held while it runs and nothing bounds it.
- `ApprovalDesk` FairSpec: the connection's task is polled (`ServeDeferred`,
  `ServeNext`, `DriveFrame`, `DriveClosed`, `TurnStops`, `AskEnds`), and a prompt's
  write finishes (`AskWritten`). The last assumes that a frontend reads or is gone; one
  that does neither blocks the turn. Answers, prompt timeouts, the deadline and the
  completion of an undisturbed turn are **not** fair, so the liveness properties do not
  lean on them.
- `TeamMission` FairSpec: `WF` of each drive, each run and each operator's put under
  way. Tasks are polled and a specialist's turn has a deadline. No operator has to
  decide, pause or resume; failures and restarts are not fair.
- `LoopDriver` FairSpec: `WF(DriverStep)` and `WF(BootDecides)`. The driver is polled, its
  turns, missions and gates end. `Poll` is not fair and no request has to come; a
  panicked driver (`at = "dead"`) is exempt in `RunEnds`.
- `Routines` FairSpec: `WF(SchedulerStep)` and `WF(WindowPasses)`: the scheduler's task is
  polled, a run ends and the hold's window is a timer. The clock is not fair: `DueRuns`
  speaks of what is due already.
- `CloudGate`, `TurnResources`, `Confirmations` and `BudgetGate` promise nothing that must
  eventually happen and state no fairness.

## 5. Proofs

All theorems hold for every value of the constants under the named assumptions of
the modules (`AuditAssumption`, `ConfirmAssumption`, `ParkAssumption`,
`BudgetAssumption`, `CloudAssumption`, `TurnAssumption`, `LoopAssumption`,
`MissionAssumption`, `RoutinesAssumption`: naturals, finite sets, distinct model values, and
of a plan that a step needs earlier ones), which TLC evaluates in the runs. `ApprovalDesk`
needs none.

| Module | Theorems | Inductive invariant |
|---|---|---|
| `AuditLog_proofs` | `TypeCorrect`, `RowsAgreeWithChain`, `AnchorIsARow`, `StoreSound`, `DurableRowsStay`, `AcceptedIsKept`, `HolesExplained`, `RefusalsExplained`, `LogIsAJournal` | the chain numbers its entries by position, and whatever is queued, held by the drain task or on disk is the chain's entry of that number. Without the middle of the pipeline a row's origin is unknown when it is written. A process that is down holds nothing. `Accounted` says of each place before a row, a held or a queued entry that it is *settled* (a row, or overtaken, or given up by a panic) or further on its way, and of each place of a healthy log's chain that it is settled, on its way or inside `append`; so a put finds all before it settled, and a refused start has found a place that is not a row. The refinement of `AuditJournal` follows step by step. Any number of appenders, either handler. |
| `Confirmations_proofs` | `TypeCorrect`, `OnlyReplied`, `NoDead`, `LedgerExact`, `OneApproval` | in a session that is not blurred one connection at most runs a turn, the latest the ledger knows, and an entry's epoch is the current one or the one before; accordingly its call was asked about in this turn or is approved by this turn's message. A turn that begins carries that over: what it clears under other turns it blurs. `OneApproval` adds what is on its way to the tool to what has run (`Paid`), so that a parallel batch cannot overspend. Nothing is assumed of the connections or of the sizes of the tables. |
| `ParkedSteps_proofs` | `TypeCorrect`, `NoTwins`, `RunsApproved`, `TrailIsTrue`, `Implements` | only the lock's holder is in a section, and what it read is still true: its due set and the step it decides are pending, and a step that is about to be written has no twin. A run beyond those lost is recorded or under way. An outcome is written before it is told, by the same holder of the lock, and nothing of a pending step is told. The refinement follows step by step. |
| `ApprovalDesk_proofs` | `TypeCorrect`, `MessagesInOrder`, `CancelsAreTimely`, `FirstAnswerCounts`, `DeclinesHaveReasons` | what is still to be served is one sequence, the deferred frames followed by those on the wire, in the order they were sent; a set token was set by a frame read while its turn ran; a prompt that is closed has the first answer that named it, or a reason. |
| `TurnGates_proofs`, part I (`TurnResources`) | `TypeCorrect`, `LimitsAreExact`, `PoolStaysTrue` | the shared counters count exactly the calls since a turn last started, and a turn's calls split over the starts it has seen; what a queue has dropped had left the window of the latest instant judged by, so that a call which is not overtaken finds all that count for it; each cap may be absent; a slot that is out has one turn, and one that is not holds what its record says. |
| part II (`BudgetGate`) | `BudgetTypeCorrect`, `Held`, `Overspend` | the three invariants together: the reserved sum covers every running turn, so an admission on a right figure fits under the cap. |
| part III (`CloudGate`) | `CloudTypeCorrect`, `PrivateIsLocal`, `ReasonIsFinal`, `OffersAreFresh`, `EscalationsArePaid`, `AsksArePaid`, `MarksServe` | a marked call has its taint in memory or on disk, so a request between its check and its send belongs to a turn whose private content is known; only the lock's holder writes the row, and only an empty one; an armed mark, an active one and an offer each stand for a failure not yet spent. |
| `LoopDriver_proofs` | `TypeCorrect`, `RunsAreBounded`, `StopsAreObeyed`, `StallsAreEarned`, `RescuesAreArmed`, `MarkersAreWanted` | the driver's counters are its own and the promises are about the last start, which may find the driver in the middle of the run before. At each place of the driver a shape says how far the two are apart: iterations begun against counted, the streak against the idle count and the rescue, a story's missions against its failures, a permit against the start that left it, the marker against the one write under way. `TypeCorrect` adds that the count stays below the limit until its turn is over, also if a start resets it meanwhile. |
| `Routines_proofs` | `TypeCorrect`, `OnceEach`, `OnlyApproved`, `OffButForStale` | a stored record counts from no earlier than the last time it was run for, unless its stamp was lost, what a tick has listed was due after that, and one listed record is run once (`Once`, `Times`). Below `policy_auto` a record of the agent's that is on, in the store or listed, has a prompt the operator enabled it with, because the agent's own writes are off (`Approvals`). `OffButForStale` is the positive half of the run `routines_off`: a routine that is off begins at most the run its tick had listed, unless an older record was written over the change. |
| `TeamMission_proofs` | `TypeCorrect`, `RestartIsSeen`, `DoneIsAccepted`, `RunsAreAlone`, `BudgetCoversMission`, `AbortIsKept`, `ImplementsMissionWork` | of every behaviour, that what is put or worked on is a record (`Firm`: types, `Asked`, `Sound`). Until decisions cross, at most one drive, with its run or the run it left behind, *owns* the mission (`Owner`), none does while it rests before its start, at a gate or paused (`Resting`), and a decision about to be shown was taken on the record that is shown, and is the only one (`Alone`). Place by place a shape (`BeginShape`, `RunShape`, `LandShape`, `VerifyShape`) ties the record to what was done: an output is a step done or a gate granted, the spend is the cost, an abort of this attempt is still in the flag. `Stored` says that a stored record at rest is the one shown or about to be, without which a restart could bring back a gate already decided. The invariant is `Firm /\ (crossed \/ Shapes)` (`Safe`); the refinement of `MissionWork` follows step by step. |

The theorems hold for any number of operators and any overlap of their requests. What the
properties do not say is what a mission does after its decisions have crossed, except that it
keeps its types (section 6).

Every safety invariant, action property and refinement that a passing run checks is a
theorem. Only model-checked are the liveness properties (`AckedReachesDisk`,
`NothingWaitsForever`, `AbandonedEnds`, `Settles`, `RunEnds`, `DueRuns`), since the prover
has neither fairness nor ENABLED. No module uses RECURSIVE operators. That `Min` returns the
least member of a set of naturals follows from their well-foundedness (`MinIsLeast`).

The proofs corrected the models in two places. `OncePerDueTime` could not be proved with the
history as it was: a change read before a run and put after it takes the stamp back, and
`lost` did not count all of these; it now does (`Forgets`). And
`RoutinesAssumption` left out that there is a cron expression and a prompt to begin with.

## 6. Deviations

Statements of the documentation that the models refute. Two are runs
(`audit_order`, `routines_off`) and findings. The others can be reproduced with the
configuration named, which checks the one property.

| Configuration | Property | The code | The statement |
|---|---|---|---|
| `MC_AuditLog_full.cfg` | `NeverRefused` | `persistent.rs:525`: the error handler runs before the health flag is cleared, and the daemon's handler panics. After a full channel the log stays healthy, the next event leaves a gap, and the next start is refused. | `persistent.rs:528` "Still flip the health flag so subsequent appends short-circuit"; `:28` "never produces a log with a broken chain" |
| `MC_Confirmations_no.cfg` | `NoMeansNo` | `confirm.rs:188`: forget_turn drops this turn's entries only, so after an in-line "no" the same tool's call refused in the turn before stays approvable | `confirm.rs:58` "an explicit "no" must never pre-approve anything" |
| `MC_ParkedSteps_ran.cfg` | `NeverRan` | `parked_steps.rs:308` runs the call, `:318` writes the outcome; a failed write or a crash between leaves it pending, to be approved again, denied or lapsed | `parked_steps.rs:10` "an approved step runs once, exactly as parked"; `aivyx-ipc/src/parked.rs:15` "Turned down; never ran." |
| `MC_ApprovalDesk_paused.cfg` | `PausedWhilePrompting` | `pool.rs:129`: a specialist's prompt pauses the specialist's deadline only; the lead's passes while the prompt waits | `agent.rs:1230` "pausable while an approval prompt waits" |
| `MC_BudgetGate_team.cfg` | `WithinCap` | `factory.rs:251`: specialists have no budget gate | `aivyx.rs:10882` "every interactive / team turn is checked against" the day's cap |
| `MC_TeamMission_abort.cfg` | `RunIsAbortable` | `team_mission_driver.rs:1922`: the guard of a drive that has shown its result drops the flags by mission id; after a resume or an approval in between those are the next drive's, and an abort is told that the mission is not running | `:1110` "Executing in the record but no armed flag (e.g. a just-finished race): nothing to halt" |
| `MC_LoopDriver_wedged.cfg` | `StartProceeds` | `loop_driver.rs:806`: a panic ends the only driver task (`daemon_server.rs:1159` spawns it once); the next start is accepted and never driven | `:781` "so the next start can proceed" |

Met beside them, without a configuration of their own:

- With two connections on one session the older turn has the index after the younger
  one's (`confirm.rs:143`) and hits what that refused, where `confirm.rs:54` says that a
  reply "counts only in the turn right after". The same comes of a table of epochs that
  is cleared under a turn. `LedgerIsExact` and `OneApprovalOneRun` except such sessions
  (`blurred`), and fail without the exception.
- `prepare_gate_resolution` and `prepare_pause_resolution` check a snapshot and put
  after an await (`team_mission_driver.rs:1031`, `:1078`), so two answers to one gate, or
  two resumes, both start a drive: without `crossed` the mission fails `WorksOnce` and
  `OneRun`.
- `loop_driver.rs:911` says that "a fresh `loop start` always gets a full budget of idle slack". A start that finds the
  driver in an iteration of the run before inherits its streak. `StallIsEarned` excepts
  it.
- The marker tells what the last start or stop wanted unless two writes crossed, one was
  lost or one is under way; `MarkerIsWanted` excepts those, and a restart then resumes a
  loop that was stopped, or not one that was started.
- A mission registered but not yet driven at a restart stays `Planning` for ever, and
  a drive that fails leaves its mission `Executing` until the next restart.
- `ROUTINES.md`, "First-boot orientation": the routine is said to fire at the first
  start; `last_fired_or_epoch` anchors it at its creation, so it fires at the first due
  time after.
- `routing_guard.rs:42` says that "the resend escalates exactly once". A child's consent stop, answered while
  its armed turn still runs, escalates in that turn and arms the next: `OneTurnEach`
  allows for offers taken, and fails without them. Children carry no arming of their
  own (`aivyx.rs:10509`) and share the parent's.
- A taint whose write failed is lost at a restart, which `THREAT_MODEL.md:538` says it
  survives; `PrivateStaysLocal` excepts exactly that.
- `RATE_LIMITS.md` section 4, "at most `per_turn_total` tool calls in one turn": the cap does not hold for a turn during which
  another starts, because the start clears every count (`rate_limit.rs:166`). The bound
  that holds is the cap times one more than the turns started meanwhile. "At most
  `per_window` calls" does not hold either: a call that has read the clock
  (`rate_gate.rs:50`) and is overtaken before the lock (`rate_limit.rs:244`) is judged by an
  older instant, when the later call may have pruned what still counts for it; `WindowHolds` counts
  the calls that were not overtaken. Children of a
  role switch and team specialists have no rate gate.
- The pool's comment that a record describes what the server physically has in the
  slot is not true after a failed warm-up or an unpinned request; `RecordTrue` excepts
  those slots.

## 7. Not modelled, and why

Texts, previews, prompts, names and wording; the strings of scopes and digests (a call
stands for tool, input and scope); encryption and MACs (collision-free identities);
the moving 24-hour window of the budget and its `Alert` action; cron arithmetic (a
library's); which model a plan or a routed request picks; provider and network
protocols; user interfaces. A put to the store is one atomic, durable write that may
fail, which is what the storage layer's transaction gives.

The bulk of the source is of those kinds: the command line and its wiring, the web and
desktop frontends, the configuration's parsing, message types, tools and adapters of
external services. Their lines keep no state that outlives a request, so a model of
them would restate them.

The loop backlog's chain is not modelled although it has state: `persist_last`
(`loop_backlog.rs:551`) writes the last entry of the chain under the key of its own
append, and an entry joins the chain before its write (`:527`). With two appends at
once, or a failed write, the next open is refused; what is left to promise is the case
with neither. Reminders deliver, then clear, from one task.

## 8. Plan

Done: `AuditLog`, `Confirmations`, `ParkedSteps`, `ApprovalDesk`, `BudgetGate`, then
`TeamMission`, `LoopDriver`, `Routines`, `CloudGate`, `TurnResources`, with proofs of
the safety part of all of them.

Left, in this order:

1. Proofs: what a mission keeps after its decisions have crossed, beyond its types (the
   budget of each drive, a stored record for each drive); the safety halves of the liveness properties, that nothing which waits is
   forgotten.
2. The loop backlog's chain, once appends are serialised; then its composition with
   `LoopDriver`.
3. Composition: a loop iteration that is a mission's drive, with the abort of one and the
   stop of the other; a turn of `ApprovalDesk` whose dispatches are those of
   `Confirmations`.
4. The budget's `Alert` action and its moving window; reminders and triggers.

Further hazards of the code, beside those PROJECT.json lists:

| where | what |
|---|---|
| `persistent.rs:762` | the drain task writes behind a queue of 1024 entries, where the module doc (line 34) promises that at most one is lost |
| `persistent.rs:495` | the health flag is read before the send, and can be flipped in between |
| `persistent.rs:786` | the anchor follows the order of the channel and can move backwards |
| `persistent.rs:332` | after a lost tail the same numbers are minted again |
| `confirm.rs:143` | two connections run turns of one session at once: the older is indexed after the younger (checked: `LedgerIsExact`) |
| `confirm.rs:123` | the table of epochs is cleared in the middle of other sessions' turns (checked: `LedgerIsExact`) |
| `confirm.rs:159` | a call refused again across a turn boundary keeps the age of its first refusal |
| `parked_steps.rs:308` | the lock is held while the approved call runs, and the call has no deadline |
| `approval_desk.rs:64` | the prompt is written outside the select, the deadline paused: a frontend that neither reads nor hangs up blocks the turn |
| `daemon_server.rs:8975` | a cancel sent after a second message stops the first |
| `budget_gate.rs:107` | a failed chain read counts the day as free and lets one turn through |
| `budget_gate.rs:176` | a turn that fails, is refused or is cancelled must give its reservation back exactly once |
| `loop_driver.rs:709` | a start that finds the driver busy leaves a permit behind, which wakes it later |
| `loop_driver.rs:806` | an iteration that panics takes the driver task with it |
| `routing_guard.rs:216` | `/allow-cloud` records consent and takes the offer under two locks, with turns and children in between (checked: `MarksServeOnce`) |
| `loop_driver.rs:310` | the attempts per story, the idle streak with its extension, and the cap meet in one run (checked: `Bounded`) |
| `loop_backlog.rs:551`, `:527` | see section 7 |
