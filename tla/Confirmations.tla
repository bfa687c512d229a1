--------------------------- MODULE Confirmations ---------------------------
(***************************************************************************)
(* The ledger of refused calls (OperatorConfirmations) and the part of the *)
(* turn loop that drives it: a turn begins, dispatches a batch of tool     *)
(* calls, looks each of them up, runs or refuses it, asks the operator     *)
(* in-line when the channel can, and ends.  Nothing keeps two connections  *)
(* from running turns of one session at once.                              *)
(*                                                                         *)
(* A call stands for a tool, its arguments and its resolved scope (the     *)
(* call_digest).  Capability, schema and rate gates come before the ledger *)
(* and touch none of this state: a call they stop is never dispatched      *)
(* here.                                                                   *)
(***************************************************************************)
EXTENDS Naturals, FiniteSets

CONSTANTS Sessions, Lanes, Calls, Tools,
          NoSession,      \* the session of a connection that runs no turn
          ToolOf,         \* the tool of a call
          Withheld,       \* calls whose scope is a withheld integration write
          Manual,         \* calls that change something in a manual area
          ConfirmFirst,   \* calls of tools whose schema declares `confirmed`
          EpochCap,       \* 1024: sessions remembered before all is forgotten
          RefusedCap,     \* 1024: refusals remembered before all are dropped
          MaxSteps,       \* MAX_STEPS_PER_TURN
          BatchSize,      \* bound: calls in one parallel batch
          Parallel,       \* bound: connections whose batches are parallel
          MaxTurns        \* bound: turns ever begun

ASSUME ConfirmAssumption ==
  /\ NoSession \notin Sessions
  /\ ToolOf \in [Calls -> Tools]
  /\ Withheld \subseteq Calls /\ Manual \subseteq Calls
  /\ ConfirmFirst \subseteq Calls
  /\ EpochCap \in Nat /\ RefusedCap \in Nat /\ MaxSteps \in Nat
  /\ BatchSize \in Nat \ {0} /\ MaxTurns \in Nat

VARIABLES
  epochs,      \* session -> latest turn seen and its index; turn 0 is "absent"
  refused,     \* the remembered refusals
  lane,        \* the turn each connection is running
  nextTurn,    \* the TurnId the next turn gets
  \* what the operator has actually said, independent of the ledger:
  asked,       \* session -> calls refused in the latest turn, not asked in-line
  approvable,  \* session -> calls the message that began the turn approves
  saidNo,      \* session -> tools declined in-line in the latest turn
  blurred,     \* session -> its refusals may be of turns the ledger confuses
  grants,      \* lane -> call -> approvals obtained in its turn
  runs         \* lane -> call -> executions in its turn

ledger == <<epochs, refused>>
truth  == <<asked, approvable, saidNo, blurred>>
tally  == <<grants, runs>>
vars   == <<epochs, refused, lane, nextTurn, asked, approvable, saidNo,
            blurred, grants, runs>>

-----------------------------------------------------------------------------

Absent  == [turn |-> 0, n |-> 0]
NoBatch == [i \in {} |-> 0]
Idle    == [active |-> FALSE, turn |-> 0, session |-> NoSession,
            operator |-> FALSE, canAsk |-> FALSE, steps |-> 0, batch |-> NoBatch]

Zero    == [c \in Calls |-> 0]

Active(l)   == lane[l].active
Session(l)  == lane[l].session
Turn(l)     == lane[l].turn

Present(ep) == {s \in Sessions : ep[s] # Absent}

(* OperatorConfirmations::epoch *)
Epoch(s, t) == IF epochs[s].turn = t THEN epochs[s].n
               ELSE IF epochs[s] # Absent THEN epochs[s].n + 1 ELSE 0

Mut_EntriesOfAnySession(s, c) == {p \in refused : p.call = c}

Entries(s, c) == {p \in refused : p.session = s /\ p.call = c}

(* take_refusal: the entry of the call was recorded in the turn before. *)
WouldHit(s, t, c) ==
  \E p \in Entries(s, c) :
    p.epoch + 1 = Epoch(s, t) /\ p.turn # t /\ ~p.expired

(* take_refusal: an entry that is too old is dropped on sight. *)
Dead(s, t, c) ==
  {p \in Entries(s, c) : p.epoch + 1 < Epoch(s, t) \/ p.expired}

(* Why a call must ask first, if it must. *)
AskReason(l, c) == c \in Withheld \/ (c \in Manual /\ lane[l].operator)

WantsLedger(l, c, claim) == AskReason(l, c) \/ (c \in ConfirmFirst /\ claim)

SetSlot(l, i, slot) == lane' = [lane EXCEPT ![l].batch[i] = slot]

-----------------------------------------------------------------------------

Init ==
  /\ epochs = [s \in Sessions |-> Absent]
  /\ refused = {}
  /\ lane = [l \in Lanes |-> Idle]
  /\ nextTurn = 1
  /\ asked = [s \in Sessions |-> {}]
  /\ approvable = [s \in Sessions |-> {}]
  /\ saidNo = [s \in Sessions |-> {}]
  /\ blurred = [s \in Sessions |-> FALSE]
  /\ grants = [l \in Lanes |-> Zero]
  /\ runs = [l \in Lanes |-> Zero]

(* The table of epochs is cleared, under the turns of other sessions too. *)
Forgets == Cardinality(Present(epochs)) > EpochCap

(* OperatorConfirmations::begin_turn *)
LedgerBegin(s, approves) ==
  LET kept    == IF approves THEN refused
                             ELSE {p \in refused : p.session # s}
      known   == IF Forgets THEN [x \in Sessions |-> Absent] ELSE epochs
      n       == IF known[s] = Absent THEN 0 ELSE known[s].n + 1
  IN /\ epochs' = [known EXCEPT ![s] = [turn |-> nextTurn, n |-> n]]
     /\ refused' = IF Forgets THEN {}
                   ELSE {p \in kept : /\ epochs'[p.session] # Absent
                                      /\ epochs'[p.session].n <= p.epoch + 1}

Busy(s) == \E l \in Lanes : Active(l) /\ Session(l) = s

(* The ledger counts the turns of a session apart as long as each begins   *)
(* after the one before has ended, and is not itself forgotten meanwhile.  *)
(* A message that approves nothing drops what was confused.                *)
Blur(s, approves) ==
  blurred' = [x \in Sessions |->
                IF x = s THEN Busy(s) \/ (blurred[s] /\ approves)
                         ELSE blurred[x] \/ (Forgets /\ Busy(x))]

(* turn_inner begins.  operator: the message's origin; yes: is_affirmative; *)
(* canAsk: the connection has chat approvals for this turn.                *)
BeginTurn(l, s, operator, yes, canAsk) ==
  /\ ~Active(l)
  /\ nextTurn <= MaxTurns
  /\ LedgerBegin(s, operator /\ yes)
  /\ Blur(s, operator /\ yes)
  /\ lane' = [lane EXCEPT ![l] =
       [active |-> TRUE, turn |-> nextTurn, session |-> s,
        operator |-> operator, canAsk |-> canAsk, steps |-> 0,
        batch |-> NoBatch]]
  /\ nextTurn' = nextTurn + 1
  /\ approvable' = [approvable EXCEPT ![s] = IF operator /\ yes THEN asked[s]
                                                                ELSE {}]
  /\ asked' = [asked EXCEPT ![s] = {}]
  /\ saidNo' = [saidNo EXCEPT ![s] = {}]
  /\ grants' = [grants EXCEPT ![l] = Zero]
  /\ runs' = [runs EXCEPT ![l] = Zero]

Planning(l) == Active(l) /\ lane[l].batch = NoBatch

(* The planner proposes calls; claim is the `confirmed` flag it sets, which *)
(* is read of confirm-first tools only.                                     *)
Dispatch(l, k, call, claim) ==
  /\ Planning(l)
  /\ lane[l].steps < MaxSteps
  /\ k = 1 \/ l \in Parallel
  /\ \A i \in 1 .. k : claim[i] => call[i] \in ConfirmFirst
  /\ lane' = [lane EXCEPT
       ![l].steps = @ + 1,
       ![l].batch = [i \in 1 .. k |-> [call |-> call[i], claim |-> claim[i],
                                       at |-> "start", confirmed |-> FALSE]]]
  /\ UNCHANGED <<ledger, nextTurn, truth, tally>>

Mut_LookupKeepsEntry(l, i) ==
  LET slot == lane[l].batch[i]
      s    == Session(l)
      c    == slot.call
      hit  == WantsLedger(l, c, slot.claim) /\ WouldHit(s, Turn(l), c)
  IN /\ slot.at = "start"
     /\ SetSlot(l, i, [slot EXCEPT
          !.confirmed = hit,
          !.at = IF AskReason(l, c) /\ ~hit THEN "ask" ELSE "execute"])
     /\ grants' = IF hit /\ c \in approvable[s]
                  THEN [grants EXCEPT ![l][c] = @ + 1] ELSE grants
     /\ approvable' = IF hit THEN [approvable EXCEPT ![s] = @ \ {c}]
                             ELSE approvable
     /\ UNCHANGED <<ledger, nextTurn, asked, saidNo, blurred, runs>>

(* run_tool_call: one lookup per call, consumed on use.  An approved call  *)
(* goes on to the tool, one that still must ask goes on to be refused.     *)
Lookup(l, i) ==
  LET slot == lane[l].batch[i]
      s    == Session(l)
      c    == slot.call
      want == WantsLedger(l, c, slot.claim)
      hit  == want /\ WouldHit(s, Turn(l), c)
  IN /\ slot.at = "start"
     /\ SetSlot(l, i, [slot EXCEPT
          !.confirmed = hit,
          !.at = IF AskReason(l, c) /\ ~hit THEN "ask" ELSE "execute"])
     /\ refused' = IF hit THEN refused \ Entries(s, c)
                   ELSE IF want THEN refused \ Dead(s, Turn(l), c)
                   ELSE refused
     /\ grants' = IF hit /\ c \in approvable[s]
                  THEN [grants EXCEPT ![l][c] = @ + 1] ELSE grants
     /\ approvable' = IF hit THEN [approvable EXCEPT ![s] = @ \ {c}]
                             ELSE approvable
     /\ UNCHANGED <<epochs, nextTurn, asked, saidNo, blurred, runs>>

(* OperatorConfirmations::record_refusal: the first refusal of a call wins. *)
LedgerRecord(s, t, c) ==
  LET kept == IF Cardinality(refused) > RefusedCap THEN {} ELSE refused
  IN refused' =
       IF \E p \in kept : p.session = s /\ p.call = c THEN kept
       ELSE kept \cup {[session |-> s, call |-> c, epoch |-> Epoch(s, t),
                        turn |-> t, expired |-> FALSE]}

(* The call is refused: by the gate before dispatch, or by a confirm-first *)
(* tool that did not get `confirmed`.                                      *)
Refuse(l, i) ==
  LET slot == lane[l].batch[i]
      s    == Session(l)
  IN /\ \/ slot.at = "ask"
        \/ slot.at = "execute" /\ slot.call \in ConfirmFirst /\ ~slot.confirmed
     /\ SetSlot(l, i, [slot EXCEPT !.at = "refused"])
     /\ LedgerRecord(s, Turn(l), slot.call)
     /\ asked' = [asked EXCEPT ![s] = @ \cup {slot.call}]
     /\ UNCHANGED <<epochs, nextTurn, approvable, saidNo, blurred, tally>>

(* tool.execute runs. *)
Execute(l, i) ==
  LET slot == lane[l].batch[i]
  IN /\ slot.at = "execute"
     /\ slot.call \in ConfirmFirst => slot.confirmed
     /\ SetSlot(l, i, [slot EXCEPT !.at = "done"])
     /\ runs' = [runs EXCEPT ![l][slot.call] = @ + 1]
     /\ UNCHANGED <<ledger, nextTurn, truth, grants>>

BatchRan(l) == \A i \in DOMAIN lane[l].batch :
                 lane[l].batch[i].at \in {"refused", "done", "escalated"}

FirstRefused(l, i) ==
  /\ BatchRan(l)
  /\ lane[l].batch[i].at = "refused"
  /\ \A j \in DOMAIN lane[l].batch : j < i => lane[l].batch[j].at # "refused"

(* OperatorConfirmations::forget_turn *)
LedgerForget(s, t, tool) ==
  refused' = {p \in refused : ~(/\ p.session = s
                                /\ ToolOf[p.call] = tool
                                /\ p.turn = t)}

OfTool(tool) == {c \in Calls : ToolOf[c] = tool}

(* seek_approval, answered: the calls of the batch are resolved in order.  *)
(* A "yes" runs the call with operator_approved set; a "no", a timeout and *)
(* a parked call are a failed result the model sees.                       *)
AnswerYes(l, i) ==
  LET slot == lane[l].batch[i]
      s    == Session(l)
      tool == ToolOf[slot.call]
  IN /\ FirstRefused(l, i)
     /\ lane[l].canAsk
     /\ LedgerForget(s, Turn(l), tool)
     /\ SetSlot(l, i, [slot EXCEPT !.at = "done"])
     /\ asked' = [asked EXCEPT ![s] = @ \ OfTool(tool)]
     /\ grants' = [grants EXCEPT ![l][slot.call] = @ + 1]
     /\ runs' = [runs EXCEPT ![l][slot.call] = @ + 1]
     /\ UNCHANGED <<epochs, nextTurn, approvable, saidNo, blurred>>

AnswerNo(l, i) ==
  LET slot == lane[l].batch[i]
      s    == Session(l)
      tool == ToolOf[slot.call]
  IN /\ FirstRefused(l, i)
     /\ lane[l].canAsk
     /\ LedgerForget(s, Turn(l), tool)
     /\ SetSlot(l, i, [slot EXCEPT !.at = "done"])
     /\ asked' = [asked EXCEPT ![s] = @ \ OfTool(tool)]
     /\ saidNo' = [saidNo EXCEPT ![s] = @ \cup {tool}]
     /\ UNCHANGED <<epochs, nextTurn, approvable, blurred, tally>>

(* seek_approval on a channel that can't ask: the escalation stays. *)
Unavailable(l, i) ==
  /\ FirstRefused(l, i)
  /\ ~lane[l].canAsk
  /\ SetSlot(l, i, [lane[l].batch[i] EXCEPT !.at = "escalated"])
  /\ UNCHANGED <<ledger, nextTurn, truth, tally>>

(* The batch is done: an escalated call ends the turn, otherwise the       *)
(* results go back to the planner.                                         *)
EndBatch(l) ==
  /\ Active(l) /\ lane[l].batch # NoBatch
  /\ \A i \in DOMAIN lane[l].batch :
       lane[l].batch[i].at \in {"done", "escalated"}
  /\ lane' = [lane EXCEPT
       ![l] = IF \E i \in DOMAIN @.batch : @.batch[i].at = "escalated"
              THEN Idle ELSE [@ EXCEPT !.batch = NoBatch]]
  /\ UNCHANGED <<ledger, nextTurn, truth, tally>>

(* A final message, a stop, a failure, a cancel or the step limit. *)
EndTurn(l) ==
  /\ Planning(l)
  /\ lane' = [lane EXCEPT ![l] = Idle]
  /\ UNCHANGED <<ledger, nextTurn, truth, tally>>

(* APPROVAL_WINDOW passes for a remembered refusal. *)
WindowPasses(p) ==
  /\ ~p.expired
  /\ refused' = (refused \ {p}) \cup {[p EXCEPT !.expired = TRUE]}
  /\ asked' = [asked EXCEPT ![p.session] = @ \ {p.call}]
  /\ approvable' = [approvable EXCEPT ![p.session] = @ \ {p.call}]
  /\ UNCHANGED <<epochs, lane, nextTurn, saidNo, blurred, tally>>

-----------------------------------------------------------------------------

Slot(l, i) == \/ Lookup(l, i) \/ Refuse(l, i) \/ Execute(l, i)
              \/ AnswerYes(l, i) \/ AnswerNo(l, i) \/ Unavailable(l, i)

Next ==
  \/ \E l \in Lanes :
       \/ \E s \in Sessions, operator, yes, canAsk \in BOOLEAN :
            BeginTurn(l, s, operator, yes, canAsk)
       \/ \E k \in 1 .. BatchSize : \E call \in [1 .. k -> Calls],
                                       claim \in [1 .. k -> BOOLEAN] :
            Dispatch(l, k, call, claim)
       \/ \E i \in DOMAIN lane[l].batch : Slot(l, i)
       \/ EndBatch(l) \/ EndTurn(l)
  \/ \E p \in refused : WindowPasses(p)

Spec == Init /\ [][Next]_vars

-----------------------------------------------------------------------------
(* Properties *)

Refusal == [session : Sessions, call : Calls, epoch : Nat, turn : Nat,
            expired : BOOLEAN]

SlotType == [call : Calls, claim : BOOLEAN, confirmed : BOOLEAN,
             at : {"start", "ask", "execute", "refused", "done", "escalated"}]

Batches == UNION {[1 .. k -> SlotType] : k \in 0 .. BatchSize}

LaneType == [active : BOOLEAN, turn : Nat, session : Sessions \cup {NoSession},
             operator : BOOLEAN, canAsk : BOOLEAN, steps : 0 .. MaxSteps,
             batch : Batches]

TypeOK ==
  /\ epochs \in [Sessions -> [turn : Nat, n : Nat]]
  /\ refused \subseteq Refusal
  /\ lane \in [Lanes -> LaneType]
  /\ nextTurn \in Nat \ {0}
  /\ asked \in [Sessions -> SUBSET Calls]
  /\ approvable \in [Sessions -> SUBSET Calls]
  /\ saidNo \in [Sessions -> SUBSET Tools]
  /\ blurred \in [Sessions -> BOOLEAN]
  /\ grants \in [Lanes -> [Calls -> Nat]] /\ runs \in [Lanes -> [Calls -> Nat]]

(* A lookup can only hit a call that was refused in the turn right before, *)
(* that the operator's message approves, within the window, and that has   *)
(* not been used yet (doc of OperatorConfirmations).  Not so in a session  *)
(* two of whose turns overlapped, or were under way when the epochs were   *)
(* cleared, until a message that approves nothing drops what they left.    *)
OnlyRepliedCallsHit ==
  \A l \in Lanes : Active(l) /\ ~blurred[Session(l)] =>
    \A c \in Calls : WouldHit(Session(l), Turn(l), c)
                       => c \in approvable[Session(l)]

(* A call that must ask first runs at most as often as it was approved:    *)
(* one approval, one run, in parallel batches and in approved re-runs too, *)
(* with the same exception.                                                *)
OneApprovalOneRun ==
  \A l \in Lanes : Active(l) /\ ~blurred[Session(l)] =>
    \A c \in Calls : (c \in ConfirmFirst \/ AskReason(l, c))
                       => runs[l][c] <= grants[l][c]

(* "An explicit no must never pre-approve anything": after an in-line "no" *)
(* to a tool, no call of that tool passes on the strength of the ledger.   *)
NoMeansNo ==
  \A l \in Lanes : Active(l) =>
    \A c \in Calls : WouldHit(Session(l), Turn(l), c)
                       => ToolOf[c] \notin saidNo[Session(l)]

(* Every refusal that is still remembered belongs to a known session and   *)
(* is at most one turn old: the ledger never keeps a dead entry across a   *)
(* turn boundary.                                                          *)
NoDeadEntries ==
  \A p \in refused : ~blurred[p.session] =>
    /\ epochs[p.session] # Absent
    /\ epochs[p.session].n \in {p.epoch, p.epoch + 1}

(* The ledger holds exactly what the operator's next message may approve.  *)
LedgerIsExact == OnlyRepliedCallsHit /\ NoDeadEntries

=============================================================================
