----------------------------- MODULE CloudGate ------------------------------
(***************************************************************************)
(* The routing guard and the cloud escalation of one conversation: its     *)
(* taint in memory and on disk, the operator's consent, the marks that arm *)
(* the turn after a failed one, and the turns that use them, one at a      *)
(* time, each with batches of tool calls that run side by side and may     *)
(* hold turns of children.  Conversations share nothing but a lock.        *)
(***************************************************************************)
EXTENDS Naturals

CONSTANTS Calls,      \* tool calls of one batch
          Reasons,    \* sources of private content
          None,
          MaxTurns,   \* bound: turns
          MaxFaults   \* bound: restarts and storage faults

ASSUME CloudAssumption ==
  /\ None \notin Reasons \cup Calls \cup {"turn"} /\ "turn" \notin Calls
  /\ MaxTurns \in Nat /\ MaxFaults \in Nat

Procs == Calls \cup {"turn"}

VARIABLES
  mode,       \* ask or auto
  row,        \* the taint on disk
  cache,      \* the taint in memory
  markLock,   \* who holds it
  consented,
  granting,   \* allow is between its two locks
  armed,      \* for the next turn
  active,     \* in this turn
  offer,
  phase,      \* idle, start, think, next, batch, stuck, end
  job,        \* what each call of the turn, and the turn itself, is at
  turns, faults,
  private,    \* private content has reached the conversation
  lost,       \* its taint was never written, and a restart came
  leaked,     \* a request with private content went to the cloud
  promoted,   \* the last turn began armed
  failures,   \* turns that armed the next one
  taken,      \* offers that /allow-cloud took
  asked,      \* turns that stopped for consent after a failure
  rescued,    \* turns that escalated after a failure
  did         \* of asked and rescued, what this turn is counted in

guard == <<row, cache, markLock, consented, granting, armed, active, offer>>
turn == <<phase, job>>
cloudGhosts == <<private, lost, leaked, promoted, failures, taken, asked, rescued, did>>
cloudVars == <<mode, guard, turn, turns, faults, cloudGhosts>>

Idle == [at |-> "idle", why |-> None]
Jobs == [at : {"idle", "enter", "read", "put", "marked", "ask", "decide", "stopped", "done"},
         why : Reasons \cup {None, "plain", "tier", "on_failure"}]

CloudTypeOK ==
  /\ mode \in {"ask", "auto"}
  /\ row \in Reasons \cup {None} /\ cache \in Reasons \cup {None}
  /\ markLock \in Procs \cup {None}
  /\ markLock # None => job[markLock].at \in {"read", "put"}
  /\ consented \in BOOLEAN /\ granting \in BOOLEAN
  /\ armed \in BOOLEAN /\ active \in BOOLEAN /\ offer \in BOOLEAN
  /\ phase \in {"idle", "start", "think", "next", "batch", "stuck", "end"}
  /\ job \in [Procs -> Jobs]
  /\ turns \in 0 .. MaxTurns /\ faults \in 0 .. MaxFaults
  /\ private \in BOOLEAN /\ lost \in BOOLEAN /\ leaked \in BOOLEAN /\ promoted \in BOOLEAN
  /\ failures \in Nat /\ taken \in Nat /\ asked \in Nat /\ rescued \in Nat
  /\ did \subseteq {"asked", "rescued"}

CloudInit ==
  /\ mode \in {"ask", "auto"}
  /\ row = None /\ cache = None /\ markLock = None
  /\ consented = FALSE /\ granting = FALSE
  /\ armed = FALSE /\ active = FALSE /\ offer = FALSE
  /\ phase = "idle" /\ job = [p \in Procs |-> Idle]
  /\ turns = 0 /\ faults = 0
  /\ private = FALSE /\ lost = FALSE /\ leaked = FALSE /\ promoted = FALSE
  /\ failures = 0 /\ taken = 0 /\ asked = 0 /\ rescued = 0 /\ did = {}

At(p, at, why) == job' = [job EXCEPT ![p] = [at |-> at, why |-> why]]
Fault == faults < MaxFaults /\ faults' = faults + 1

-----------------------------------------------------------------------------
(* The turn *)

Mut_Rearms ==
  /\ promoted' = (armed \/ offer) /\ active' = (active \/ armed \/ offer)
  /\ armed' = FALSE /\ offer' = FALSE

(* begin_armed_turn: an offer not taken by now is declined. *)
Promote ==
  /\ promoted' = armed /\ active' = (active \/ armed)
  /\ armed' = FALSE /\ offer' = FALSE

Begin ==
  /\ phase = "idle" /\ turns < MaxTurns
  /\ turns' = turns + 1
  /\ Promote
  /\ phase' = "start" /\ did' = {}
  /\ UNCHANGED <<mode, row, cache, markLock, consented, granting, job, faults,
                 private, lost, leaked, failures, taken, asked, rescued>>

(* A sensitive channel, or private memories recalled. *)
StartSensitive(r) ==
  /\ phase = "start" /\ job["turn"] = Idle
  /\ At("turn", "enter", r)
  /\ UNCHANGED <<mode, guard, phase, turns, faults, cloudGhosts>>

Settled == \A p \in Procs : job[p].at \in {"idle", "marked", "stopped", "done"}

(* What was marked is now in the conversation.  The next request is of a kind the tiers list or not. *)
Think(kind) ==
  /\ phase \in {"start", "batch"} /\ Settled
  /\ phase' = "think"
  /\ private' = (private \/ \E p \in Procs : job[p].at = "marked")
  /\ job' = [p \in Procs |-> IF p = "turn" THEN [at |-> "ask", why |-> kind] ELSE Idle]
  /\ UNCHANGED <<mode, guard, turns, faults, lost, leaked, promoted, failures, taken,
                 asked, rescued, did>>

(* The model answered: tools, a final message, or one more loop. *)
Answered ==
  /\ phase = "think" /\ job["turn"].at = "done"
  /\ job' = [job EXCEPT !["turn"] = Idle]
  /\ phase' \in {"next", "stuck", "end"}
  /\ UNCHANGED <<mode, guard, turns, faults, cloudGhosts>>

Batch ==
  /\ phase = "next"
  /\ phase' = "batch"
  /\ \E kind \in [Calls -> Reasons \cup {"plain", "tier"}] :
       job' = [p \in Procs |->
                 IF p = "turn" THEN Idle
                 ELSE [at |-> IF kind[p] \in Reasons THEN "enter" ELSE "ask",
                       why |-> kind[p]]]
  /\ UNCHANGED <<mode, guard, turns, faults, cloudGhosts>>

(* A request that stopped fails the turn; a cancel or the deadline is seen
   when the one under way has ended. *)
Cut ==
  /\ phase = "think" /\ job["turn"].at \in {"stopped", "done"}
  /\ phase' = "end"
  /\ job' = [job EXCEPT !["turn"] = Idle]
  /\ UNCHANGED <<mode, guard, turns, faults, cloudGhosts>>

(* arm_next_turn; the taint it reads first only words the hint. *)
ArmNext ==
  /\ phase = "stuck"
  /\ armed' = TRUE
  /\ failures' = failures + 1
  /\ phase' = "end"
  /\ UNCHANGED <<mode, row, cache, markLock, consented, granting, active, offer, job,
                 turns, faults, private, lost, leaked, promoted, taken, asked, rescued, did>>

(* end_armed_turn *)
End ==
  /\ phase = "end"
  /\ active' = FALSE
  /\ phase' = "idle"
  /\ UNCHANGED <<mode, row, cache, markLock, consented, granting, armed, offer, job,
                 turns, faults, cloudGhosts>>

-----------------------------------------------------------------------------
(* mark: a sensitive tool ran, and its output waits for this *)

Mut_NoLock(p) == UNCHANGED markLock

Unlock(p) == markLock' = None

TakeLock(p) == markLock = None /\ markLock' = p

MarkEnter(p) ==
  /\ job[p].at = "enter"
  /\ \/ /\ markLock = None /\ cache # None
        /\ At(p, "marked", job[p].why)
        /\ UNCHANGED markLock
     \/ /\ cache = None
        /\ TakeLock(p)
        /\ At(p, "read", job[p].why)
  /\ UNCHANGED <<mode, row, cache, consented, granting, armed, active, offer, phase,
                 turns, faults, cloudGhosts>>

Remember(r) == cache' = IF cache = None THEN r ELSE cache

Mut_UnreadableIsClean(r) == UNCHANGED cache

(* A row that cannot be read may hold a reason: it is not written over. *)
Unreadable(r) == Remember(r)

MarkRead(p) ==
  /\ job[p].at = "read"
  /\ \/ /\ row # None
        /\ Remember(row)
        /\ Unlock(p) /\ At(p, "marked", job[p].why)
        /\ UNCHANGED faults
     \/ /\ row = None
        /\ Remember(job[p].why)
        /\ At(p, "put", job[p].why)
        /\ UNCHANGED <<markLock, faults>>
     \/ /\ Fault
        /\ Unreadable(job[p].why)
        /\ Unlock(p) /\ At(p, "marked", job[p].why)
  /\ UNCHANGED <<mode, row, consented, granting, armed, active, offer, phase, turns, cloudGhosts>>

MarkPut(p) ==
  /\ job[p].at = "put"
  /\ \/ row' = job[p].why /\ UNCHANGED faults
     \/ Fault /\ UNCHANGED row
  /\ Unlock(p)
  /\ At(p, "marked", job[p].why)
  /\ UNCHANGED <<mode, cache, consented, granting, armed, active, offer, phase, turns, cloudGhosts>>

-----------------------------------------------------------------------------
(* A request to the model, of the turn or of a child within it *)

Trigger(p) == IF active THEN "on_failure" ELSE job[p].why

(* escalate, to the end of its await: a taint keeps the call local. *)
Ask(p) ==
  /\ job[p].at = "ask"
  /\ \/ /\ Trigger(p) = "plain" \/ cache # None
        /\ At(p, "done", None)
        /\ UNCHANGED <<cache, faults>>
     \/ /\ Trigger(p) # "plain" /\ cache = None
        /\ \/ row # None /\ cache' = row /\ At(p, "done", None) /\ UNCHANGED faults
           \/ row = None /\ At(p, "decide", Trigger(p)) /\ UNCHANGED <<cache, faults>>
           \/ Fault /\ At(p, "done", None) /\ UNCHANGED cache
  /\ UNCHANGED <<mode, row, markLock, consented, granting, armed, active, offer, phase,
                 turns, cloudGhosts>>

May == mode = "auto" \/ consented

Counted(what, n) == IF what \in did THEN n ELSE n + 1

Send(p) ==
  /\ job[p].at = "decide" /\ May
  /\ At(p, "done", None)
  /\ leaked' = (leaked \/ (private /\ ~lost))
  /\ IF job[p].why = "on_failure"
     THEN rescued' = Counted("rescued", rescued) /\ did' = did \cup {"rescued"}
     ELSE UNCHANGED <<rescued, did>>
  /\ UNCHANGED <<mode, guard, phase, turns, faults, private, lost, promoted, failures,
                 taken, asked>>

(* note_consent_requested *)
Note(trigger) == offer' = (offer \/ (trigger = "on_failure" /\ active))

Stop(p) ==
  /\ job[p].at = "decide" /\ ~May
  /\ Note(job[p].why)
  /\ At(p, "stopped", None)
  /\ IF job[p].why = "on_failure"
     THEN asked' = Counted("asked", asked) /\ did' = did \cup {"asked"}
     ELSE UNCHANGED <<asked, did>>
  /\ UNCHANGED <<mode, row, cache, markLock, consented, granting, armed, active, phase,
                 turns, faults, private, lost, leaked, promoted, failures, taken, rescued>>

NoCloudModel(p) ==
  /\ job[p].at = "decide"
  /\ At(p, "stopped", None)
  /\ UNCHANGED <<mode, guard, phase, turns, faults, cloudGhosts>>

-----------------------------------------------------------------------------
(* The operator, from the chat or the socket, and the process *)

Allow ==
  /\ mode = "ask" /\ ~granting
  /\ consented' = TRUE /\ granting' = TRUE
  /\ UNCHANGED <<mode, row, cache, markLock, armed, active, offer, turn, turns, faults, cloudGhosts>>

TakeOffer ==
  /\ offer' = FALSE
  /\ armed' = (armed \/ offer)
  /\ taken' = IF offer THEN taken + 1 ELSE taken

AllowOffer ==
  /\ granting
  /\ granting' = FALSE
  /\ TakeOffer
  /\ UNCHANGED <<mode, row, cache, markLock, consented, active, turn, turns, faults, private,
                 lost, leaked, promoted, failures, asked, rescued, did>>

(* Only the row is left. *)
Restart ==
  /\ Fault
  /\ cache' = None /\ markLock' = None
  /\ consented' = FALSE /\ granting' = FALSE
  /\ armed' = FALSE /\ active' = FALSE /\ offer' = FALSE
  /\ phase' = "idle" /\ job' = [p \in Procs |-> Idle]
  /\ lost' = (lost \/ (private /\ row = None))
  /\ UNCHANGED <<mode, row, turns, private, leaked, promoted, failures, taken, asked,
                 rescued, did>>

CloudNext ==
  \/ Begin \/ Answered \/ Batch \/ Cut \/ ArmNext \/ End
  \/ Allow \/ AllowOffer \/ Restart
  \/ \E r \in Reasons : StartSensitive(r)
  \/ \E kind \in {"plain", "tier"} : Think(kind)
  \/ \E p \in Procs : MarkEnter(p) \/ MarkRead(p) \/ MarkPut(p)
                      \/ Ask(p) \/ Send(p) \/ Stop(p) \/ NoCloudModel(p)

CloudSpec == CloudInit /\ [][CloudNext]_cloudVars

-----------------------------------------------------------------------------
(* Properties *)

(* "A tainted conversation never escalates, in any mode; consent does not
   override it", whatever marks, failed writes and unreadable rows came
   before: no request leaves once private content is in the conversation.
   Only a taint that could not be written, and then a restart, lose it. *)
PrivateStaysLocal == ~leaked

(* "The first reason is kept": two calls of a batch mark at once, a row was
   unreadable, the process restarted: what is on disk never changes. *)
FirstReasonKept == [][row # None => row' = row]_cloudVars

(* An ignored offer is declined by the next turn: an offer, which a later
   /allow-cloud would arm, is always one that the last turn left, and that
   turn had begun armed. *)
OfferIsFresh == offer => promoted /\ turns > 0

(* A failure escalates its next turn only: turns that went to the cloud for
   one are no more than failures and offers taken. *)
OneTurnEach == rescued <= failures + taken

(* An ignored offer never keeps asking: turns that stopped for consent after
   a failure are no more than the failures. *)
AskedOnce == asked <= failures

(* A failure, an offer and a consent each serve one turn, and no later one. *)
MarksServeOnce == OfferIsFresh /\ OneTurnEach /\ AskedOnce

=============================================================================
