------------------------ MODULE Confirmations_proofs ------------------------
(***************************************************************************)
(* Proofs about the ledger of refused calls, for every number of sessions, *)
(* connections, calls and turns, every limit of its tables and every       *)
(* overlap of turns.                                                       *)
(***************************************************************************)
EXTENDS Confirmations, FiniteSetTheorems, TLAPS

-----------------------------------------------------------------------------

(* A turn whose session the ledger does not confuse. *)
Clear(l) == Active(l) /\ ~blurred[Session(l)]

(* The connections: a clear one alone runs the latest turn of its session. *)
LaneInv ==
  \A l \in Lanes :
    /\ ~Active(l) => lane[l] = Idle
    /\ Active(l) => Session(l) \in Sessions
    /\ Clear(l) =>
         /\ epochs[Session(l)] # Absent
         /\ Turn(l) = epochs[Session(l)].turn
         /\ \A k \in Lanes : Active(k) /\ Session(k) = Session(l) => l = k

EpochInv ==
  \A s \in Sessions : /\ epochs[s].turn < nextTurn
                      /\ epochs[s].turn = 0 => epochs[s] = Absent

(* One call of a session has one remembered refusal. *)
OneEntryPerCall ==
  \A p, q \in refused : (p.session = q.session /\ p.call = q.call) => p = q

(* What the ledger says agrees with what the operator said: an entry of    *)
(* the latest turn is a call that was asked about in it, an entry of the   *)
(* turn before is a call the latest message approves.                      *)
EntryOK(p) ==
  LET e == epochs[p.session]
  IN /\ e # Absent
     /\ p.turn < nextTurn
     /\ \/ p.epoch = e.n /\ p.turn = e.turn
        \/ p.epoch + 1 = e.n /\ p.turn # e.turn
     /\ p.epoch = e.n /\ ~p.expired => p.call \in asked[p.session]
     /\ p.epoch + 1 = e.n /\ ~p.expired => p.call \in approvable[p.session]

EntryInv == \A p \in refused : ~blurred[p.session] => EntryOK(p)

IInv == TypeOK /\ LaneInv /\ EpochInv /\ OneEntryPerCall /\ EntryInv

-----------------------------------------------------------------------------
(* Lemmas about the steps of a turn *)

(* Rewriting one call of a batch leaves every connection's turn alone. *)
LEMMA SlotKeepsTurns ==
  ASSUME TypeOK, NEW l \in Lanes, NEW i \in DOMAIN lane[l].batch,
         NEW slot \in SlotType, SetSlot(l, i, slot)
  PROVE  /\ lane' \in [Lanes -> LaneType]
         /\ \A k \in Lanes : /\ lane'[k].active = lane[k].active
                             /\ lane'[k].turn = lane[k].turn
                             /\ lane'[k].session = lane[k].session
                             /\ k # l => lane'[k] = lane[k]
                             /\ UNCHANGED blurred => (Clear(k)' <=> Clear(k))
<1>1. lane[l] \in LaneType
  BY DEF TypeOK
<1>2. PICK n \in 0 .. BatchSize : lane[l].batch \in [1 .. n -> SlotType]
  BY <1>1 DEF LaneType, Batches
<1>3. [lane[l].batch EXCEPT ![i] = slot] \in Batches
  BY <1>2 DEF Batches
<1>4. lane' = [lane EXCEPT ![l] = [lane[l] EXCEPT !.batch =
                 [lane[l].batch EXCEPT ![i] = slot]]]
  BY DEF SetSlot
<1> DEFINE new == [lane[l] EXCEPT !.batch = [lane[l].batch EXCEPT ![i] = slot]]
<1>5. /\ new \in LaneType
      /\ new.active = lane[l].active
      /\ new.turn = lane[l].turn
      /\ new.session = lane[l].session
  BY <1>1, <1>3 DEF LaneType
<1>6. lane' = [lane EXCEPT ![l] = new]
  BY <1>4
<1> HIDE DEF new
<1>7. \A j \in Lanes : lane'[j] = IF j = l THEN new ELSE lane[j]
  BY <1>6 DEF TypeOK
<1>8. lane' \in [Lanes -> LaneType]
  BY <1>5, <1>6 DEF TypeOK
<1>9. \A k \in Lanes : /\ lane'[k].active = lane[k].active
                       /\ lane'[k].turn = lane[k].turn
                       /\ lane'[k].session = lane[k].session
                       /\ k # l => lane'[k] = lane[k]
  BY <1>5, <1>7
<1>10. ASSUME UNCHANGED blurred, NEW k \in Lanes
       PROVE  Clear(k)' <=> Clear(k)
  <2>1. /\ lane'[k].active = lane[k].active
        /\ lane'[k].session = lane[k].session
    BY <1>9
  <2> QED
    BY <2>1, <1>10, Zenon DEF Clear, Active, Session
<1> QED
  BY <1>8, <1>9, <1>10

(* A connection that works on a batch is in a turn of its session. *)
LEMMA BusyIsActive ==
  ASSUME IInv, NEW l \in Lanes, NEW i \in DOMAIN lane[l].batch
  PROVE  /\ Active(l)
         /\ Session(l) \in Sessions
         /\ Turn(l) \in Nat /\ Epoch(Session(l), Turn(l)) \in Nat
         /\ lane[l].batch[i] \in SlotType
         /\ ~blurred[Session(l)] =>
              /\ Clear(l)
              /\ Turn(l) = epochs[Session(l)].turn
              /\ epochs[Session(l)] # Absent
              /\ Epoch(Session(l), Turn(l)) = epochs[Session(l)].n
<1>1. Active(l)
  <2> SUFFICES ASSUME ~Active(l) PROVE FALSE
    OBVIOUS
  <2>1. lane[l] = Idle
    BY DEF IInv, LaneInv
  <2>2. Idle.batch = NoBatch /\ DOMAIN NoBatch = {}
    BY DEF Idle, NoBatch
  <2> QED
    BY <2>1, <2>2
<1>2. lane[l].batch[i] \in SlotType
  <2>1. lane[l].batch \in Batches
    BY DEF IInv, TypeOK, LaneType
  <2>2. PICK k \in 0 .. BatchSize : lane[l].batch \in [1 .. k -> SlotType]
    BY <2>1 DEF Batches
  <2> QED
    BY <2>2
<1>3. Session(l) \in Sessions
  BY <1>1 DEF IInv, LaneInv
<1>4. Turn(l) \in Nat
  BY DEF IInv, TypeOK, LaneType, Turn
<1>5. Epoch(Session(l), Turn(l)) \in Nat
  <2>1. epochs[Session(l)].n \in Nat
    BY <1>3 DEF IInv, TypeOK
  <2> QED
    BY <2>1 DEF Epoch
<1>6. ASSUME ~blurred[Session(l)]
      PROVE  /\ Clear(l)
             /\ Turn(l) = epochs[Session(l)].turn
             /\ epochs[Session(l)] # Absent
             /\ Epoch(Session(l), Turn(l)) = epochs[Session(l)].n
  BY <1>1, <1>6 DEF IInv, LaneInv, Clear, Epoch
<1> QED
  BY <1>1, <1>2, <1>3, <1>4, <1>5, <1>6

(* A step that leaves the turns and the epochs alone keeps LaneInv and     *)
(* EpochInv.                                                               *)
LEMMA TurnsKept ==
  ASSUME IInv, NEW l \in Lanes, NEW i \in DOMAIN lane[l].batch,
         NEW slot \in SlotType, SetSlot(l, i, slot),
         UNCHANGED <<epochs, nextTurn, blurred>>
  PROVE  LaneInv' /\ EpochInv'
<1>1. Active(l)
  BY BusyIsActive
<1>2. \A k \in Lanes : /\ lane'[k].active = lane[k].active
                       /\ lane'[k].turn = lane[k].turn
                       /\ lane'[k].session = lane[k].session
                       /\ k # l => lane'[k] = lane[k]
                       /\ Clear(k)' <=> Clear(k)
  BY SlotKeepsTurns DEF IInv
<1>3. ASSUME NEW k \in Lanes, ~lane'[k].active
      PROVE  lane'[k] = Idle
  <2>1. ~lane[k].active /\ k # l
    BY <1>1, <1>2, <1>3 DEF Active
  <2> QED
    BY <2>1, <1>2 DEF IInv, LaneInv, Active
<1>4. ASSUME NEW k \in Lanes, lane'[k].active
      PROVE  lane'[k].session \in Sessions
  BY <1>2, <1>4 DEF IInv, LaneInv, Active, Session
<1>6. ASSUME NEW k \in Lanes, Clear(k)'
      PROVE  /\ epochs'[lane'[k].session] # Absent
             /\ lane'[k].turn = epochs'[lane'[k].session].turn
             /\ \A j \in Lanes : lane'[j].active /\ lane'[j].session = lane'[k].session => k = j
  <2>1. Clear(k)
    BY <1>2, <1>6
  <2> QED
    BY <2>1, <1>2 DEF IInv, LaneInv, Active, Session, Turn
<1>5. LaneInv'
  BY <1>3, <1>4, <1>6 DEF LaneInv, Active, Session, Turn
<1> QED
  BY <1>5 DEF IInv, EpochInv

-----------------------------------------------------------------------------
(* Each step keeps the inductive invariant *)

(* A tally that adds one at a place stays a tally. *)
LEMMA CountedUp ==
  ASSUME NEW f \in [Lanes -> [Calls -> Nat]], NEW l \in Lanes, NEW c \in Calls
  PROVE  [f EXCEPT ![l][c] = @ + 1] \in [Lanes -> [Calls -> Nat]]
<1>1. [f[l] EXCEPT ![c] = @ + 1] \in [Calls -> Nat]
  OBVIOUS
<1> QED
  BY <1>1

(* An empty ledger satisfies the invariant. *)
LEMMA InitIInv ==
  ASSUME Init
  PROVE  IInv
<1>1. Idle \in LaneType
  <2>1. NoBatch \in [1 .. 0 -> SlotType]
    BY DEF NoBatch
  <2>2. NoBatch \in Batches
    BY <2>1, ConfirmAssumption DEF Batches
  <2> QED
    BY <2>2, ConfirmAssumption DEF Idle, LaneType
<1>2. TypeOK
  BY <1>1 DEF Init, TypeOK, Absent, Zero
<1>3. LaneInv
  BY DEF Init, LaneInv, Clear, Active, Idle
<1>4. EpochInv
  BY DEF Init, EpochInv, Absent
<1>5. OneEntryPerCall /\ EntryInv
  BY DEF Init, OneEntryPerCall, EntryInv
<1> QED
  BY <1>2, <1>3, <1>4, <1>5 DEF IInv

(* A lookup takes its own entry, and dead ones, and adds none. *)
LEMMA LookupKeeps ==
  ASSUME IInv, NEW l \in Lanes, NEW i \in DOMAIN lane[l].batch, Lookup(l, i)
  PROVE  IInv'
<1> DEFINE slot == lane[l].batch[i]
           s    == Session(l)
           c    == slot.call
           hit  == WantsLedger(l, c, slot.claim) /\ WouldHit(s, Turn(l), c)
           new  == [slot EXCEPT
                      !.confirmed = hit,
                      !.at = IF AskReason(l, c) /\ ~hit THEN "ask" ELSE "execute"]
<1>1. /\ s \in Sessions
      /\ slot \in SlotType
  BY BusyIsActive
<1>2. hit \in BOOLEAN
  BY DEF WantsLedger, WouldHit, AskReason
<1>3. new \in SlotType
  BY <1>1, <1>2 DEF SlotType
<1>4. SetSlot(l, i, new) /\ UNCHANGED <<epochs, nextTurn, asked, saidNo, blurred, runs>>
  BY DEF Lookup
<1>5. LaneInv' /\ EpochInv'
  BY <1>3, <1>4, TurnsKept
<1>6. lane' \in [Lanes -> LaneType]
  BY <1>3, <1>4, SlotKeepsTurns DEF IInv
<1>7. CASE hit
  <2>1. /\ refused' = refused \ Entries(s, c)
        /\ approvable' = [approvable EXCEPT ![s] = @ \ {c}]
    BY <1>7 DEF Lookup
  <2>2. grants' \in [Lanes -> [Calls -> Nat]]
    BY <1>1, <1>7 DEF Lookup, IInv, TypeOK, SlotType
  <2>3. TypeOK'
    BY <2>1, <2>2, <1>1, <1>4, <1>6 DEF IInv, TypeOK
  <2>4. OneEntryPerCall'
    BY <2>1 DEF IInv, OneEntryPerCall
  <2>5. EntryInv'
    BY <2>1, <1>4, <1>1 DEF IInv, EntryInv, EntryOK, Entries, TypeOK, Refusal
  <2> QED
    BY <2>3, <2>4, <2>5, <1>5 DEF IInv
<1>8. CASE ~hit
  <2>1. refused' \subseteq refused /\ UNCHANGED <<approvable, grants>>
    BY <1>8 DEF Lookup
  <2>2. TypeOK' /\ OneEntryPerCall'
    BY <2>1, <1>4, <1>6 DEF IInv, TypeOK, OneEntryPerCall
  <2>3. EntryInv'
    BY <2>1, <1>4 DEF IInv, EntryInv, EntryOK
  <2> QED
    BY <2>2, <2>3, <1>5 DEF IInv
<1> QED
  BY <1>7, <1>8

(* A recorded refusal is of the latest turn and was asked about in it. *)
LEMMA RefuseKeeps ==
  ASSUME IInv, NEW l \in Lanes, NEW i \in DOMAIN lane[l].batch, Refuse(l, i)
  PROVE  IInv'
<1> DEFINE slot == lane[l].batch[i]
           s    == Session(l)
           c    == slot.call
           new  == [slot EXCEPT !.at = "refused"]
           mine == [session |-> s, call |-> c, epoch |-> Epoch(s, Turn(l)),
                    turn |-> Turn(l), expired |-> FALSE]
           kept == IF Cardinality(refused) > RefusedCap THEN {} ELSE refused
<1>1. /\ s \in Sessions
      /\ slot \in SlotType
      /\ Turn(l) \in Nat /\ Epoch(s, Turn(l)) \in Nat
      /\ ~blurred[s] => /\ Turn(l) = epochs[s].turn
                        /\ Epoch(s, Turn(l)) = epochs[s].n
                        /\ epochs[s] # Absent
  BY BusyIsActive
<1>2. new \in SlotType
  BY <1>1 DEF SlotType
<1>3. /\ SetSlot(l, i, new)
      /\ asked' = [asked EXCEPT ![s] = @ \cup {c}]
      /\ UNCHANGED <<epochs, nextTurn, approvable, saidNo, blurred, grants, runs>>
  BY DEF Refuse, tally
<1>4. /\ kept \subseteq refused
      /\ \/ refused' = kept
         \/ /\ refused' = kept \cup {mine}
            /\ ~\E p \in kept : p.session = s /\ p.call = c
  BY DEF Refuse, LedgerRecord
<1> HIDE DEF kept
<1>5. LaneInv' /\ EpochInv'
  BY <1>2, <1>3, TurnsKept
<1>6. lane' \in [Lanes -> LaneType]
  BY <1>2, <1>3, SlotKeepsTurns DEF IInv
<1>7. mine \in Refusal
  BY <1>1 DEF Refusal, SlotType, IInv, TypeOK
<1>8. TypeOK'
  <2>1. refused' \subseteq Refusal
    BY <1>4, <1>7 DEF IInv, TypeOK
  <2>2. asked' \in [Sessions -> SUBSET Calls]
    BY <1>1, <1>3 DEF IInv, TypeOK, SlotType
  <2> QED
    BY <2>1, <2>2, <1>3, <1>6 DEF IInv, TypeOK
<1>9. OneEntryPerCall'
  <2>1. mine.session = s /\ mine.call = c
    OBVIOUS
  <2>2. \A p, q \in kept : (p.session = q.session /\ p.call = q.call) => p = q
    BY <1>4 DEF IInv, OneEntryPerCall
  <2> HIDE DEF mine
  <2> QED
    BY <2>1, <2>2, <1>4 DEF OneEntryPerCall
<1>10. ASSUME NEW p \in refused', ~blurred'[p.session] PROVE EntryOK(p)'
  <2>1. CASE p \in refused
    BY <2>1, <1>1, <1>3, <1>10 DEF IInv, EntryInv, EntryOK, TypeOK, Refusal
  <2>2. CASE p = mine
    <3>1. /\ p.session = s /\ p.call = c /\ p.epoch = epochs[s].n
          /\ p.turn = epochs[s].turn
      BY <2>2, <1>1, <1>3, <1>10
    <3>2. c \in asked'[s]
      BY <1>1, <1>3 DEF IInv, TypeOK
    <3>3. epochs[s].n \in Nat /\ epochs[s].turn < nextTurn
      BY <1>1 DEF IInv, TypeOK, EpochInv
    <3>4. epochs[s] # Absent
      BY <3>1, <1>1, <1>3, <1>10
    <3> QED
      BY <3>1, <3>2, <3>3, <3>4, <1>3 DEF EntryOK
  <2> QED
    BY <2>1, <2>2, <1>4
<1> QED
  BY <1>5, <1>8, <1>9, <1>10 DEF IInv, EntryInv, EntryOK

(* Running a call, or being unable to ask, changes no entry. *)
LEMMA ExecuteKeeps ==
  ASSUME IInv, NEW l \in Lanes, NEW i \in DOMAIN lane[l].batch,
         Execute(l, i) \/ Unavailable(l, i)
  PROVE  IInv'
<1> DEFINE slot == lane[l].batch[i]
<1>1. slot \in SlotType
  BY BusyIsActive
<1>2. PICK at \in {"done", "escalated"} :
        SetSlot(l, i, [slot EXCEPT !.at = at])
  BY DEF Execute, Unavailable
<1>3. [slot EXCEPT !.at = at] \in SlotType
  BY <1>1 DEF SlotType
<1>4. /\ UNCHANGED <<epochs, refused, nextTurn, asked, approvable, saidNo,
                     blurred, grants>>
      /\ \/ UNCHANGED runs
         \/ runs' = [runs EXCEPT ![l][slot.call] = @ + 1]
  BY DEF Execute, Unavailable, ledger, truth, tally
<1>5. LaneInv' /\ EpochInv'
  BY <1>2, <1>3, <1>4, TurnsKept
<1>6. lane' \in [Lanes -> LaneType]
  BY <1>2, <1>3, SlotKeepsTurns DEF IInv
<1>7. TypeOK'
  <2>1. slot.call \in Calls
    BY <1>1 DEF SlotType
  <2>2. runs' \in [Lanes -> [Calls -> Nat]]
    <3>1. CASE UNCHANGED runs
      BY <3>1 DEF IInv, TypeOK
    <3>2. CASE runs' = [runs EXCEPT ![l][slot.call] = @ + 1]
      BY <3>2, <2>1, CountedUp DEF IInv, TypeOK
    <3> QED
      BY <3>1, <3>2, <1>4
  <2> QED
    BY <2>2, <1>4, <1>6 DEF IInv, TypeOK
<1>8. OneEntryPerCall' /\ EntryInv'
  BY <1>4 DEF IInv, OneEntryPerCall, EntryInv, EntryOK
<1> QED
  BY <1>5, <1>7, <1>8 DEF IInv

(* An in-line answer only takes entries of this turn away. *)
LEMMA AnswerKeeps ==
  ASSUME IInv, NEW l \in Lanes, NEW i \in DOMAIN lane[l].batch,
         AnswerYes(l, i) \/ AnswerNo(l, i)
  PROVE  IInv'
<1> DEFINE slot == lane[l].batch[i]
           s    == Session(l)
           tool == ToolOf[slot.call]
           new  == [slot EXCEPT !.at = "done"]
<1>1. /\ s \in Sessions
      /\ slot \in SlotType
      /\ ~blurred[s] => Turn(l) = epochs[s].turn
  BY BusyIsActive
<1>2. new \in SlotType /\ slot.call \in Calls /\ tool \in Tools
  BY <1>1, ConfirmAssumption DEF SlotType
<1>3. /\ SetSlot(l, i, new)
      /\ LedgerForget(s, Turn(l), tool)
      /\ asked' = [asked EXCEPT ![s] = @ \ OfTool(tool)]
      /\ UNCHANGED <<epochs, nextTurn, approvable, blurred>>
  BY DEF AnswerYes, AnswerNo, tally
<1>4. /\ saidNo' \in [Sessions -> SUBSET Tools]
      /\ grants' \in [Lanes -> [Calls -> Nat]]
      /\ runs' \in [Lanes -> [Calls -> Nat]]
  <2>1. CASE AnswerYes(l, i)
    <3>1. /\ saidNo' = saidNo
          /\ grants' = [grants EXCEPT ![l][slot.call] = @ + 1]
          /\ runs' = [runs EXCEPT ![l][slot.call] = @ + 1]
      BY <2>1 DEF AnswerYes
    <3> QED
      BY <3>1, <1>2, CountedUp DEF IInv, TypeOK
  <2>2. CASE AnswerNo(l, i)
    <3>1. /\ saidNo' = [saidNo EXCEPT ![s] = @ \cup {tool}]
          /\ UNCHANGED <<grants, runs>>
      BY <2>2 DEF AnswerNo, tally
    <3> QED
      BY <3>1, <1>1, <1>2 DEF IInv, TypeOK
  <2> QED
    BY <2>1, <2>2
<1>5. LaneInv' /\ EpochInv'
  BY <1>2, <1>3, TurnsKept
<1>6. lane' \in [Lanes -> LaneType]
  BY <1>2, <1>3, SlotKeepsTurns DEF IInv
<1>7. refused' \subseteq refused
  BY <1>3 DEF LedgerForget
<1>8. TypeOK' /\ OneEntryPerCall'
  BY <1>3, <1>4, <1>6, <1>7 DEF IInv, TypeOK, OneEntryPerCall
<1>9. ASSUME NEW p \in refused', ~blurred'[p.session] PROVE EntryOK(p)'
  <2>1. /\ p \in refused
        /\ ~(p.session = s /\ ToolOf[p.call] = tool /\ p.turn = epochs[s].turn)
    BY <1>1, <1>3, <1>9 DEF LedgerForget
  <2>2. EntryOK(p) /\ p \in Refusal
    BY <2>1, <1>3, <1>9 DEF IInv, EntryInv, TypeOK
  <2>3. p.epoch = epochs[p.session].n => p.turn = epochs[p.session].turn
    BY <2>2 DEF EntryOK, Refusal, IInv, TypeOK
  <2>4. p.epoch = epochs[p.session].n /\ ~p.expired => p.call \in asked'[p.session]
    BY <2>1, <2>2, <2>3, <1>1, <1>3 DEF EntryOK, Refusal, OfTool, IInv, TypeOK
  <2> QED
    BY <2>2, <2>4, <1>3 DEF EntryOK
<1> QED
  BY <1>5, <1>8, <1>9 DEF IInv, EntryInv, EntryOK

(* A new turn moves what was asked to what is approvable, and drops the dead. *)
LEMMA BeginKeeps ==
  ASSUME IInv, NEW l \in Lanes, NEW s \in Sessions,
         NEW operator \in BOOLEAN, NEW yes \in BOOLEAN, NEW canAsk \in BOOLEAN,
         BeginTurn(l, s, operator, yes, canAsk)
  PROVE  IInv'
<1> DEFINE known == IF Forgets THEN [x \in Sessions |-> Absent] ELSE epochs
           n     == IF known[s] = Absent THEN 0 ELSE known[s].n + 1
           fresh == [active |-> TRUE, turn |-> nextTurn, session |-> s,
                     operator |-> operator, canAsk |-> canAsk, steps |-> 0,
                     batch |-> NoBatch]
<1>1. /\ known \in [Sessions -> [turn : Nat, n : Nat]]
      /\ \A x \in Sessions : known[x] = epochs[x] \/ known[x] = Absent
      /\ ~Forgets => known = epochs
  BY DEF IInv, TypeOK, Absent
<1>2. /\ epochs' = [known EXCEPT ![s] = [turn |-> nextTurn, n |-> n]]
      /\ refused' \subseteq refused
      /\ Forgets => refused' = {}
      /\ ~(operator /\ yes) => \A p \in refused' : p.session # s
      /\ \A p \in refused' : epochs'[p.session].n <= p.epoch + 1
  BY DEF BeginTurn, LedgerBegin
<1>3. /\ ~Active(l)
      /\ lane' = [lane EXCEPT ![l] = fresh]
      /\ nextTurn' = nextTurn + 1
      /\ approvable' = [approvable EXCEPT ![s] = IF operator /\ yes THEN asked[s]
                                                                    ELSE {}]
      /\ asked' = [asked EXCEPT ![s] = {}]
      /\ saidNo' = [saidNo EXCEPT ![s] = {}]
      /\ grants' = [grants EXCEPT ![l] = Zero]
      /\ runs' = [runs EXCEPT ![l] = Zero]
  BY DEF BeginTurn
<1>b. /\ blurred' \in [Sessions -> BOOLEAN]
      /\ ~blurred'[s] => ~Busy(s) /\ (operator /\ yes => ~blurred[s])
      /\ \A x \in Sessions \ {s} :
           ~blurred'[x] => ~blurred[x] /\ (Forgets => ~Busy(x))
  <2>1. blurred' = [x \in Sessions |->
          IF x = s THEN Busy(s) \/ (blurred[s] /\ operator /\ yes)
                   ELSE blurred[x] \/ (Forgets /\ Busy(x))]
    BY DEF BeginTurn, Blur
  <2>2. /\ blurred \in [Sessions -> BOOLEAN]
        /\ \A x \in Sessions : Busy(x) \in BOOLEAN
        /\ Forgets \in BOOLEAN
    BY DEF IInv, TypeOK, Busy, Forgets
  <2> QED
    BY <2>1, <2>2, Zenon
<1>4. n \in Nat /\ nextTurn \in Nat \ {0}
  BY <1>1 DEF IInv, TypeOK
<1>5. fresh \in LaneType
  <2>1. NoBatch \in [1 .. 0 -> SlotType]
    BY DEF NoBatch
  <2>2. NoBatch \in Batches
    BY <2>1, ConfirmAssumption DEF Batches
  <2> QED
    BY <2>2, <1>4, ConfirmAssumption DEF LaneType
<1> HIDE DEF n, known
<1>6. TypeOK'
  <2>1. lane' \in [Lanes -> LaneType]
    BY <1>3, <1>5 DEF IInv, TypeOK
  <2>2. epochs' \in [Sessions -> [turn : Nat, n : Nat]]
    BY <1>1, <1>2, <1>4
  <2>3. Zero \in [Calls -> Nat]
    BY DEF Zero
  <2>4. /\ approvable' \in [Sessions -> SUBSET Calls]
        /\ asked' \in [Sessions -> SUBSET Calls]
        /\ saidNo' \in [Sessions -> SUBSET Tools]
    BY <1>3 DEF IInv, TypeOK
  <2> QED
    <3>1. refused' \subseteq Refusal /\ nextTurn' \in Nat \ {0}
      BY <1>2, <1>3, <1>4 DEF IInv, TypeOK
    <3>2. /\ grants' \in [Lanes -> [Calls -> Nat]]
          /\ runs' \in [Lanes -> [Calls -> Nat]]
      BY <2>3, <1>3 DEF IInv, TypeOK
    <3>3. blurred' \in [Sessions -> BOOLEAN]
      BY <1>b
    <3> QED
      BY <2>1, <2>2, <2>4, <3>1, <3>2, <3>3 DEF TypeOK
<1>7. \A k \in Lanes : lane'[k] = IF k = l THEN fresh ELSE lane[k]
  BY <1>3 DEF IInv, TypeOK
<1>8. \A x \in Sessions :
        epochs'[x] = IF x = s THEN [turn |-> nextTurn, n |-> n] ELSE known[x]
  BY <1>1, <1>2
<1>9. LaneInv'
  <2>1. ASSUME NEW k \in Lanes, ~lane'[k].active
        PROVE  lane'[k] = Idle
    BY <2>1, <1>7 DEF IInv, LaneInv, Active
  <2>2. ASSUME NEW k \in Lanes, lane'[k].active
        PROVE  lane'[k].session \in Sessions
    BY <2>2, <1>7 DEF IInv, LaneInv, Active, Session
  <2>3. ASSUME NEW k \in Lanes, lane'[k].active, ~blurred'[lane'[k].session]
        PROVE  /\ epochs'[lane'[k].session] # Absent
               /\ lane'[k].turn = epochs'[lane'[k].session].turn
               /\ \A j \in Lanes : lane'[j].active
                                     /\ lane'[j].session = lane'[k].session
                                     => k = j
    <3>1. CASE lane'[k].session = s
      <4>1. ~Busy(s)
        BY <2>3, <3>1, <1>b
      <4>2. \A j \in Lanes : lane'[j].active /\ lane'[j].session = s => j = l
        BY <4>1, <1>7 DEF Busy, Active, Session
      <4>3. epochs'[s] = [turn |-> nextTurn, n |-> n] /\ epochs'[s] # Absent
        BY <1>4, <1>8 DEF Absent
      <4> QED
        BY <2>3, <3>1, <4>2, <4>3, <1>7
    <3>2. CASE lane'[k].session # s
      <4>1. k # l /\ lane'[k] = lane[k] /\ Active(k) /\ Session(k) \in Sessions
        BY <2>2, <2>3, <3>2, <1>7 DEF Active, Session
      <4>2. Clear(k) /\ ~Forgets
        BY <2>3, <3>2, <4>1, <1>b DEF Clear, Busy, Session
      <4>3. epochs'[Session(k)] = epochs[Session(k)]
        BY <3>2, <4>1, <4>2, <1>1, <1>8 DEF Session
      <4>4. \A j \in Lanes : lane'[j].active /\ lane'[j].session = Session(k)
                               => lane'[j] = lane[j]
        BY <3>2, <4>1, <1>7 DEF Session
      <4> QED
        BY <4>1, <4>2, <4>3, <4>4 DEF IInv, LaneInv, Active, Session, Turn
    <3> QED
      BY <3>1, <3>2
  <2> QED
    BY <2>1, <2>2, <2>3 DEF LaneInv, Clear, Active, Session, Turn
<1>10. EpochInv'
  <2> SUFFICES ASSUME NEW x \in Sessions
               PROVE  /\ epochs'[x].turn < nextTurn'
                      /\ epochs'[x].turn = 0 => epochs'[x] = Absent
    BY DEF EpochInv
  <2>1. /\ epochs[x].turn < nextTurn /\ epochs[x].turn \in Nat
        /\ epochs[x].turn = 0 => epochs[x] = Absent
    BY DEF IInv, EpochInv, TypeOK
  <2>2. Absent.turn = 0
    BY DEF Absent
  <2>3. known[x].turn \in Nat /\ known[x].turn < nextTurn
    BY <2>1, <2>2, <1>1, <1>4
  <2> QED
    BY <2>1, <2>3, <1>1, <1>3, <1>4, <1>8
<1>11. OneEntryPerCall'
  BY <1>2 DEF IInv, OneEntryPerCall
<1>12. ASSUME NEW p \in refused', ~blurred'[p.session] PROVE EntryOK(p)'
  <2>0. ~Forgets /\ p \in refused /\ p \in Refusal
    BY <1>2 DEF IInv, TypeOK
  <2>1. CASE p.session # s
    <3>1. ~blurred[p.session]
      BY <2>0, <2>1, <1>b, <1>12 DEF Refusal
    <3>2. EntryOK(p)
      BY <3>1, <2>0 DEF IInv, EntryInv
    <3>3. epochs'[p.session] = epochs[p.session]
      BY <2>0, <2>1, <1>1, <1>8 DEF Refusal
    <3> QED
      BY <3>2, <3>3, <2>0, <2>1, <1>3, <1>4 DEF EntryOK, Refusal, IInv, TypeOK
  <2>2. CASE p.session = s
    <3>1. operator /\ yes /\ ~blurred[s]
      BY <2>2, <1>2, <1>b, <1>12
    <3>2. EntryOK(p)
      BY <3>1, <2>0, <2>2 DEF IInv, EntryInv
    <3>3. epochs[s] # Absent /\ known = epochs
      BY <3>2, <2>0, <2>2, <1>1 DEF EntryOK
    <3>4. n = epochs[s].n + 1 /\ n <= p.epoch + 1
      BY <3>3, <2>2, <1>2, <1>8 DEF n
    <3>5. p.epoch = epochs[s].n /\ p.epoch + 1 = n /\ p.turn # nextTurn
      BY <3>2, <3>4, <2>0, <2>2 DEF EntryOK, Refusal, IInv, TypeOK
    <3>6. ~p.expired => p.call \in approvable'[s]
      BY <3>1, <3>2, <3>5, <2>2, <1>3 DEF EntryOK, IInv, TypeOK
    <3>7. epochs'[s] # Absent
      BY <1>4, <1>8 DEF Absent
    <3>8. p.turn < nextTurn'
      BY <3>2, <2>0, <1>3, <1>4 DEF EntryOK, Refusal
    <3> QED
      BY <3>5, <3>6, <3>7, <3>8, <2>0, <2>2, <1>4, <1>8 DEF EntryOK, Refusal
  <2> QED
    BY <2>1, <2>2
<1> QED
  BY <1>6, <1>9, <1>10, <1>11, <1>12 DEF IInv, EntryInv, EntryOK

(* A batch is dispatched by the turn that is under way. *)
LEMMA DispatchKeeps ==
  ASSUME IInv, NEW l \in Lanes, NEW k \in 1 .. BatchSize,
         NEW call \in [1 .. k -> Calls], NEW claim \in [1 .. k -> BOOLEAN],
         Dispatch(l, k, call, claim)
  PROVE  IInv'
<1> DEFINE batch == [i \in 1 .. k |-> [call |-> call[i], claim |-> claim[i],
                                       at |-> "start", confirmed |-> FALSE]]
           new   == [lane[l] EXCEPT !.steps = @ + 1, !.batch = batch]
<1>1. batch \in [1 .. k -> SlotType]
  BY DEF SlotType
<1>2. batch \in Batches
  BY <1>1, ConfirmAssumption DEF Batches
<1>3. /\ Active(l) /\ lane[l].steps < MaxSteps
      /\ lane' = [lane EXCEPT ![l] = new]
      /\ UNCHANGED <<epochs, refused, nextTurn, asked, approvable, saidNo,
                     blurred, grants, runs>>
  BY DEF Dispatch, Planning, ledger, truth, tally
<1> HIDE DEF batch
<1>4. lane[l] \in LaneType
  BY DEF IInv, TypeOK
<1>5. lane[l].steps + 1 \in 0 .. MaxSteps
  BY <1>3, <1>4, ConfirmAssumption DEF LaneType
<1>6. /\ new \in LaneType
      /\ new.active = lane[l].active
      /\ new.turn = lane[l].turn
      /\ new.session = lane[l].session
  BY <1>2, <1>4, <1>5 DEF LaneType
<1> HIDE DEF new
<1>7. \A j \in Lanes : lane'[j] = IF j = l THEN new ELSE lane[j]
  BY <1>3 DEF IInv, TypeOK
<1>8. TypeOK'
  BY <1>3, <1>6 DEF IInv, TypeOK
<1>9. LaneInv'
  <2>1. ASSUME NEW j \in Lanes, ~lane'[j].active
        PROVE  lane'[j] = Idle
    BY <2>1, <1>3, <1>6, <1>7 DEF IInv, LaneInv, Active
  <2>2. ASSUME NEW j \in Lanes, lane'[j].active
        PROVE  lane'[j].session \in Sessions
    BY <2>2, <1>3, <1>6, <1>7 DEF IInv, LaneInv, Active, Session
  <2>3. ASSUME NEW j \in Lanes, lane'[j].active, ~blurred'[lane'[j].session]
        PROVE  /\ epochs'[lane'[j].session] # Absent
               /\ lane'[j].turn = epochs'[lane'[j].session].turn
               /\ \A m \in Lanes : lane'[m].active /\ lane'[m].session = lane'[j].session
                                     => j = m
    BY <2>3, <1>3, <1>6, <1>7 DEF IInv, LaneInv, Clear, Active, Session, Turn
  <2> QED
    BY <2>1, <2>2, <2>3 DEF LaneInv, Clear, Active, Session, Turn
<1>10. EpochInv' /\ OneEntryPerCall' /\ EntryInv'
  BY <1>3 DEF IInv, EpochInv, OneEntryPerCall, EntryInv, EntryOK
<1> QED
  BY <1>8, <1>9, <1>10 DEF IInv

(* The end of a batch or of a turn leaves the ledger alone. *)
LEMMA EndKeeps ==
  ASSUME IInv, NEW l \in Lanes, EndBatch(l) \/ EndTurn(l)
  PROVE  IInv'
<1>1. PICK new \in {Idle, [lane[l] EXCEPT !.batch = NoBatch]} :
        lane' = [lane EXCEPT ![l] = new]
  BY DEF EndBatch, EndTurn
<1>2. /\ Active(l)
      /\ UNCHANGED <<epochs, refused, nextTurn, asked, approvable, saidNo,
                     blurred, grants, runs>>
  BY DEF EndBatch, EndTurn, Planning, ledger, truth, tally
<1>3. lane[l] \in LaneType
  BY DEF IInv, TypeOK
<1>4. NoBatch \in Batches
  <2>1. NoBatch \in [1 .. 0 -> SlotType]
    BY DEF NoBatch
  <2> QED
    BY <2>1, ConfirmAssumption DEF Batches
<1>5. /\ new \in LaneType
      /\ ~new.active => new = Idle
      /\ new.active => /\ new.turn = lane[l].turn
                       /\ new.session = lane[l].session
  <2>1. CASE new = Idle
    BY <2>1, <1>4, ConfirmAssumption DEF LaneType, Idle
  <2>2. CASE new = [lane[l] EXCEPT !.batch = NoBatch]
    BY <2>2, <1>2, <1>3, <1>4 DEF LaneType, Active
  <2> QED
    BY <2>1, <2>2
<1>6. \A j \in Lanes : lane'[j] = IF j = l THEN new ELSE lane[j]
  BY <1>1 DEF IInv, TypeOK
<1>7. TypeOK'
  BY <1>1, <1>2, <1>5 DEF IInv, TypeOK
<1>8. LaneInv'
  <2>1. ASSUME NEW j \in Lanes, ~lane'[j].active
        PROVE  lane'[j] = Idle
    BY <2>1, <1>5, <1>6 DEF IInv, LaneInv, Active
  <2>2. ASSUME NEW j \in Lanes, lane'[j].active
        PROVE  lane'[j].session \in Sessions
    BY <2>2, <1>2, <1>5, <1>6 DEF IInv, LaneInv, Active, Session
  <2>3. ASSUME NEW j \in Lanes, lane'[j].active, ~blurred'[lane'[j].session]
        PROVE  /\ epochs'[lane'[j].session] # Absent
               /\ lane'[j].turn = epochs'[lane'[j].session].turn
               /\ \A m \in Lanes : lane'[m].active /\ lane'[m].session = lane'[j].session
                                     => j = m
    BY <2>3, <1>2, <1>5, <1>6 DEF IInv, LaneInv, Clear, Active, Session, Turn
  <2> QED
    BY <2>1, <2>2, <2>3 DEF LaneInv, Clear, Active, Session, Turn
<1>9. EpochInv' /\ OneEntryPerCall' /\ EntryInv'
  BY <1>2 DEF IInv, EpochInv, OneEntryPerCall, EntryInv, EntryOK
<1> QED
  BY <1>7, <1>8, <1>9 DEF IInv

(* An entry that expires promises less. *)
LEMMA WindowKeeps ==
  ASSUME IInv, NEW p \in refused, WindowPasses(p)
  PROVE  IInv'
<1> DEFINE old == [p EXCEPT !.expired = TRUE]
<1>1. /\ refused' = (refused \ {p}) \cup {old}
      /\ asked' = [asked EXCEPT ![p.session] = @ \ {p.call}]
      /\ approvable' = [approvable EXCEPT ![p.session] = @ \ {p.call}]
      /\ UNCHANGED <<epochs, lane, nextTurn, saidNo, blurred, grants, runs>>
  BY DEF WindowPasses, tally
<1>2. p \in Refusal /\ (~blurred[p.session] => EntryOK(p))
  BY DEF IInv, TypeOK, EntryInv
<1>3. /\ old \in Refusal
      /\ old.session = p.session /\ old.call = p.call
      /\ old.epoch = p.epoch /\ old.turn = p.turn /\ old.expired
  BY <1>2 DEF Refusal
<1> HIDE DEF old
<1>4. TypeOK'
  <2>1. refused' \subseteq Refusal
    BY <1>1, <1>3 DEF IInv, TypeOK
  <2>2. /\ asked' \in [Sessions -> SUBSET Calls]
        /\ approvable' \in [Sessions -> SUBSET Calls]
    BY <1>1, <1>2 DEF IInv, TypeOK, Refusal
  <2> QED
    BY <2>1, <2>2, <1>1 DEF IInv, TypeOK
<1>5. LaneInv' /\ EpochInv'
  BY <1>1 DEF IInv, LaneInv, EpochInv, Clear, Active, Session, Turn
<1>6. OneEntryPerCall'
  BY <1>1, <1>3 DEF IInv, OneEntryPerCall
<1>7. ASSUME NEW q \in refused', ~blurred'[q.session] PROVE EntryOK(q)'
  <2>1. CASE q = old
    BY <2>1, <1>1, <1>2, <1>3, <1>7 DEF EntryOK
  <2>2. CASE q \in refused /\ q # p
    <3>1. EntryOK(q) /\ q \in Refusal
      BY <2>2, <1>1, <1>7 DEF IInv, EntryInv, TypeOK
    <3>2. ~(q.session = p.session /\ q.call = p.call)
      BY <2>2 DEF IInv, OneEntryPerCall
    <3> QED
      BY <3>1, <3>2, <1>1, <1>2 DEF EntryOK, Refusal, IInv, TypeOK
  <2> QED
    BY <2>1, <2>2, <1>1
<1> QED
  BY <1>4, <1>5, <1>6, <1>7 DEF IInv, EntryInv, EntryOK

-----------------------------------------------------------------------------
(* The theorems *)

(* Every step of the turn loop and the clock keeps the invariant. *)
LEMMA NextKeeps ==
  ASSUME IInv, [Next]_vars
  PROVE  IInv'
<1>1. ASSUME NEW l \in Lanes, NEW s \in Sessions, NEW operator \in BOOLEAN,
             NEW yes \in BOOLEAN, NEW canAsk \in BOOLEAN,
             BeginTurn(l, s, operator, yes, canAsk)
      PROVE  IInv'
  BY <1>1, BeginKeeps
<1>2. ASSUME NEW l \in Lanes, NEW k \in 1 .. BatchSize,
             NEW call \in [1 .. k -> Calls], NEW claim \in [1 .. k -> BOOLEAN],
             Dispatch(l, k, call, claim)
      PROVE  IInv'
  BY <1>2, DispatchKeeps
<1>3. ASSUME NEW l \in Lanes, NEW i \in DOMAIN lane[l].batch, Slot(l, i)
      PROVE  IInv'
  BY <1>3, LookupKeeps, RefuseKeeps, ExecuteKeeps, AnswerKeeps DEF Slot
<1>4. ASSUME NEW l \in Lanes, EndBatch(l) \/ EndTurn(l)
      PROVE  IInv'
  BY <1>4, EndKeeps
<1>5. ASSUME NEW p \in refused, WindowPasses(p)
      PROVE  IInv'
  BY <1>5, WindowKeeps
<1>6. CASE UNCHANGED vars
  BY <1>6 DEF vars, IInv, TypeOK, LaneInv, EpochInv, OneEntryPerCall, EntryInv,
              EntryOK, Clear, Active, Session, Turn
<1> QED
  BY <1>1, <1>2, <1>3, <1>4, <1>5, <1>6 DEF Next

(* The inductive invariant holds in every state. *)
THEOREM Invariance ==
  Spec => []IInv
<1>1. Init => IInv
  BY InitIInv
<1>2. IInv /\ [Next]_vars => IInv'
  BY NextKeeps
<1> QED
  BY <1>1, <1>2, PTL DEF Spec

(* The ledger, the turns and the operator's words keep their types, for    *)
(* any number of sessions, connections and calls: every counter and batch  *)
(* the turn loop builds stays in range.                                    *)
THEOREM TypeCorrect ==
  Spec => []TypeOK
<1>1. IInv => TypeOK
  BY DEF IInv
<1> QED
  BY <1>1, Invariance, PTL

(* A hit of the ledger is a call the operator's message approves. *)
LEMMA HitIsApproved ==
  ASSUME IInv, NEW l \in Lanes, Clear(l), NEW c \in Calls,
         WouldHit(Session(l), Turn(l), c)
  PROVE  c \in approvable[Session(l)]
<1>1. PICK p \in refused : /\ p.session = Session(l) /\ p.call = c
                           /\ p.epoch + 1 = Epoch(Session(l), Turn(l))
                           /\ ~p.expired
  BY DEF WouldHit, Entries
<1>2. Epoch(Session(l), Turn(l)) = epochs[Session(l)].n
  BY DEF IInv, LaneInv, Epoch
<1> QED
  BY <1>1, <1>2 DEF IInv, EntryInv, EntryOK, Clear

(* A lookup of the ledger (take_refusal) can only hit a call the operator  *)
(* was asked about in the turn before and has just said yes to, whatever   *)
(* the other connections do, while the session's turns are kept apart.     *)
THEOREM OnlyReplied ==
  Spec => []OnlyRepliedCallsHit
<1>1. IInv => OnlyRepliedCallsHit
  BY HitIsApproved DEF OnlyRepliedCallsHit, Clear
<1> QED
  BY <1>1, Invariance, PTL

(* begin_turn leaves no dead entry behind: what the ledger remembers       *)
(* belongs to a session it knows and is at most one turn old.              *)
THEOREM NoDead ==
  Spec => []NoDeadEntries
<1>1. IInv => NoDeadEntries
  BY DEF IInv, EntryInv, EntryOK, NoDeadEntries
<1> QED
  BY <1>1, Invariance, PTL

(* Between turns the ledger holds what the next message may approve, no    *)
(* more and nothing dead.                                                  *)
THEOREM LedgerExact ==
  Spec => []LedgerIsExact
<1>1. OnlyRepliedCallsHit /\ NoDeadEntries => LedgerIsExact
  BY DEF LedgerIsExact
<1> QED
  BY <1>1, OnlyReplied, NoDead, PTL
-----------------------------------------------------------------------------
(* One approval, one run.  A connection whose calls are let through one at *)
(* a time can still overspend: what is let through and has not run yet has *)
(* to be counted with what has run.                                        *)

MustAsk(operator, c) == c \in Withheld \/ (c \in Manual /\ operator)

(* The calls of a batch on their way to the tool with an approval. *)
Going(slot, c) == slot.call = c /\ slot.at = "execute" /\ slot.confirmed
GoingIn(batch, c) == {i \in DOMAIN batch : Going(batch[i], c)}

LanePaid(ln, ran, got) ==
  /\ \A i \in DOMAIN ln.batch :
       ln.batch[i].at = "execute" /\ MustAsk(ln.operator, ln.batch[i].call)
         => ln.batch[i].confirmed
  /\ \A c \in Calls :
       c \in ConfirmFirst \/ MustAsk(ln.operator, c)
         => ran[c] + Cardinality(GoingIn(ln.batch, c)) <= got[c]

Paid == \A l \in Lanes : Clear(l) => LanePaid(lane[l], runs[l], grants[l])

PaidInv == IInv /\ Paid

Tally == [Calls -> Nat]
Weight(slot, c) == IF Going(slot, c) THEN 1 ELSE 0

(* The arithmetic of a step: n calls were on their way, o of them this one, *)
(* and w says whether it still is.                                         *)
LEMMA Balance ==
  ASSUME NEW n \in Nat, NEW m, NEW o \in {0, 1}, NEW w \in {0, 1},
         NEW a \in Nat, NEW b \in Nat, NEW a2 \in Nat, NEW b2 \in Nat,
         m = n + w - o, a + n <= b, a2 + w + b <= a + o + b2
  PROVE  a2 + m <= b2
OBVIOUS

(* What adding or taking away one element does to a cardinality. *)
LEMMA OneMoves ==
  ASSUME NEW S, IsFiniteSet(S), NEW i
  PROVE  /\ Cardinality(S \cup {i})
              = Cardinality(S) + 1 - (IF i \in S THEN 1 ELSE 0)
         /\ Cardinality(S \ {i})
              = Cardinality(S) + 0 - (IF i \in S THEN 1 ELSE 0)
<1>1. Cardinality(S) \in Nat
  BY FS_CardinalityType
<1>2. Cardinality(S \cup {i}) = IF i \in S THEN Cardinality(S) ELSE Cardinality(S) + 1
  BY FS_AddElement
<1>3. Cardinality(S \ {i}) = IF i \in S THEN Cardinality(S) - 1 ELSE Cardinality(S)
  BY FS_RemoveElement
<1> QED
  BY <1>1, <1>2, <1>3

(* A batch has finitely many calls on their way, so they can be counted. *)
LEMMA GoingIsFinite ==
  ASSUME NEW batch \in Batches, NEW c
  PROVE  /\ IsFiniteSet(GoingIn(batch, c))
         /\ Cardinality(GoingIn(batch, c)) \in Nat
<1>1. PICK k \in 0 .. BatchSize : batch \in [1 .. k -> SlotType]
  BY DEF Batches
<1>2. IsFiniteSet(1 .. k)
  BY FS_Interval, ConfirmAssumption
<1>3. GoingIn(batch, c) \subseteq 1 .. k
  BY <1>1 DEF GoingIn
<1>4. IsFiniteSet(GoingIn(batch, c))
  BY <1>2, <1>3, FS_Subset
<1> QED
  BY <1>4, FS_CardinalityType

(* A step that rewrites one call ... *)
Rewrites(ln, new, i, slot) ==
  /\ i \in DOMAIN ln.batch
  /\ slot.call = ln.batch[i].call
  /\ new.operator = ln.operator
  /\ new.batch = [ln.batch EXCEPT ![i] = slot]

(* ... and balances what it runs and lets through by what it is granted ... *)
Balanced(ln, i, slot, c, ran, got, ran2, got2) ==
  /\ c = slot.call
  /\ slot.at = "execute" /\ MustAsk(ln.operator, c) => slot.confirmed
  /\ \A d \in Calls \ {c} : ran2[d] = ran[d] /\ got2[d] = got[d]
  /\ c \in ConfirmFirst \/ MustAsk(ln.operator, c) =>
       ran2[c] + Weight(slot, c) + got[c]
         <= ran[c] + Weight(ln.batch[i], c) + got2[c]

(* ... is paid for. *)
LEMMA RewritePaid ==
  ASSUME NEW ln \in LaneType, NEW new, NEW i, NEW slot \in SlotType,
         NEW c \in Calls, NEW ran \in Tally, NEW got \in Tally,
         NEW ran2 \in Tally, NEW got2 \in Tally,
         LanePaid(ln, ran, got), Rewrites(ln, new, i, slot),
         Balanced(ln, i, slot, c, ran, got, ran2, got2)
  PROVE  LanePaid(new, ran2, got2)
<1>. USE DEF Rewrites, Balanced
<1> DEFINE old == ln.batch
           now == new.batch
<1>1. PICK k \in 0 .. BatchSize : old \in [1 .. k -> SlotType]
  BY DEF LaneType, Batches
<1>2. /\ DOMAIN now = DOMAIN old /\ now[i] = slot
      /\ \A j \in DOMAIN old : j # i => now[j] = old[j]
  BY <1>1
<1>3. ASSUME NEW j \in DOMAIN now, now[j].at = "execute",
             MustAsk(new.operator, now[j].call)
      PROVE  now[j].confirmed
  <2>1. CASE j = i
    BY <2>1, <1>2, <1>3
  <2>2. CASE j # i
    BY <2>2, <1>2, <1>3 DEF LanePaid
  <2> QED
    BY <2>1, <2>2
<1>4. ASSUME NEW d \in Calls, d \in ConfirmFirst \/ MustAsk(ln.operator, d)
      PROVE  ran2[d] + Cardinality(GoingIn(now, d)) <= got2[d]
  <2>1. /\ ran[d] + Cardinality(GoingIn(old, d)) <= got[d]
        /\ ran[d] \in Nat /\ got[d] \in Nat /\ ran2[d] \in Nat /\ got2[d] \in Nat
    BY <1>4 DEF LanePaid, Tally
  <2>2. IsFiniteSet(GoingIn(old, d)) /\ Cardinality(GoingIn(old, d)) \in Nat
    <3>1. old \in Batches
      BY DEF LaneType
    <3> QED
      BY <3>1, GoingIsFinite
  <2>3. CASE d # c
    <3>1. GoingIn(now, d) = GoingIn(old, d)
      BY <2>3, <1>2 DEF GoingIn, Going
    <3> QED
      BY <2>1, <2>3, <3>1
  <2>4. CASE d = c
    <3> DEFINE S == GoingIn(old, c)
    <3>1. i \in S <=> Going(old[i], c)
      BY DEF GoingIn
    <3>2. /\ Going(slot, c) => GoingIn(now, c) = S \cup {i}
          /\ ~Going(slot, c) => GoingIn(now, c) = S \ {i}
      BY <1>2 DEF GoingIn
    <3>3. IsFiniteSet(S) /\ Cardinality(S) \in Nat
      BY <2>2, <2>4
    <3>4. Weight(slot, c) \in {0, 1} /\ Weight(old[i], c) \in {0, 1}
      BY DEF Weight
    <3>5. ran2[c] + Weight(slot, c) + got[c] <= ran[c] + Weight(old[i], c) + got2[c]
      BY <1>4, <2>4
    <3> HIDE DEF S, old, now
    <3>6. Cardinality(GoingIn(now, c)) = Cardinality(S) + Weight(slot, c) - Weight(old[i], c)
      <4>1. Weight(old[i], c) = IF i \in S THEN 1 ELSE 0
        BY <3>1 DEF Weight
      <4>2. /\ Cardinality(S \cup {i}) = Cardinality(S) + 1 - Weight(old[i], c)
            /\ Cardinality(S \ {i}) = Cardinality(S) + 0 - Weight(old[i], c)
        <5>1. /\ Cardinality(S \cup {i})
                   = Cardinality(S) + 1 - (IF i \in S THEN 1 ELSE 0)
              /\ Cardinality(S \ {i})
                   = Cardinality(S) + 0 - (IF i \in S THEN 1 ELSE 0)
          BY <3>3, OneMoves
        <5> QED
          BY <4>1, <5>1
      <4>3. CASE Going(slot, c)
        BY <4>2, <4>3, <3>2 DEF Weight
      <4>4. CASE ~Going(slot, c)
        BY <4>2, <4>4, <3>2 DEF Weight
      <4> QED
        BY <4>3, <4>4
    <3>7. ran[c] + Cardinality(S) <= got[c]
      BY <2>1, <2>4 DEF S
    <3> QED
      BY <2>1, <2>4, <3>3, <3>4, <3>5, <3>6, <3>7, Balance
  <2> QED
    BY <2>3, <2>4
<1> QED
  BY <1>3, <1>4 DEF LanePaid

(* A batch in which no call goes on owes nothing. *)
LEMMA NothingGoing ==
  ASSUME NEW new, NEW ran \in Tally, NEW got \in Tally,
         \A i \in DOMAIN new.batch : new.batch[i].at # "execute",
         \A c \in Calls : c \in ConfirmFirst \/ MustAsk(new.operator, c)
                            => ran[c] <= got[c]
  PROVE  LanePaid(new, ran, got)
<1>1. \A c \in Calls : GoingIn(new.batch, c) = {}
  BY DEF GoingIn, Going
<1>2. Cardinality({}) = 0
  BY FS_EmptySet
<1>3. \A c \in Calls : ran[c] + Cardinality(GoingIn(new.batch, c)) = ran[c]
  BY <1>1, <1>2 DEF Tally
<1> QED
  BY <1>3 DEF LanePaid

(* What has run is paid for, whatever else is on its way. *)
LEMMA PaidIsEnough ==
  ASSUME NEW ln \in LaneType, NEW ran \in Tally, NEW got \in Tally,
         LanePaid(ln, ran, got), NEW c \in Calls,
         c \in ConfirmFirst \/ MustAsk(ln.operator, c)
  PROVE  ran[c] <= got[c]
<1>1. Cardinality(GoingIn(ln.batch, c)) \in Nat
  BY GoingIsFinite DEF LaneType
<1>2. ran[c] + Cardinality(GoingIn(ln.batch, c)) <= got[c]
  BY DEF LanePaid
<1> QED
  BY <1>1, <1>2 DEF Tally

(* A step of one connection leaves what the others owe alone. *)
LEMMA OthersPaid ==
  ASSUME Paid, NEW l \in Lanes,
         Clear(l)' => LanePaid(lane'[l], runs'[l], grants'[l]),
         \A k \in Lanes \ {l} : /\ Clear(k)' => Clear(k)
                                /\ lane'[k] = lane[k]
                                /\ runs'[k] = runs[k]
                                /\ grants'[k] = grants[k]
  PROVE  Paid'
BY DEF Paid

(* The call of a turn that is not clear owes nothing. *)
LEMMA BlurredPaid ==
  ASSUME IInv, Paid, NEW l \in Lanes, NEW i \in DOMAIN lane[l].batch,
         ~Clear(l), UNCHANGED blurred,
         NEW slot \in SlotType, SetSlot(l, i, slot),
         \A k \in Lanes \ {l} : runs'[k] = runs[k] /\ grants'[k] = grants[k]
  PROVE  Paid'
<1>1. \A k \in Lanes : /\ Clear(k)' <=> Clear(k)
                       /\ k # l => lane'[k] = lane[k]
  BY SlotKeepsTurns DEF IInv
<1> QED
  BY <1>1, OthersPaid

(* What moves on both sides keeps the balance. *)
LEMMA BothMove ==
  ASSUME NEW a \in Nat, NEW b \in Nat, NEW r \in {0, 1}, NEW g \in {0, 1},
         NEW x \in {0, 1}, NEW y \in {0, 1}, r + x <= y + g
  PROVE  a + r + x + b <= a + y + (b + g)
OBVIOUS

(* The step of a call: what it rewrites, and the tallies it moves. *)
LEMMA SlotPaid ==
  ASSUME IInv, Paid, NEW l \in Lanes, NEW i \in DOMAIN lane[l].batch,
         Clear(l), UNCHANGED blurred,
         NEW slot \in SlotType, SetSlot(l, i, slot),
         slot.call = lane[l].batch[i].call,
         NEW r \in {0, 1}, NEW g \in {0, 1},
         runs' = [runs EXCEPT ![l][slot.call] = @ + r],
         grants' = [grants EXCEPT ![l][slot.call] = @ + g],
         slot.at = "execute" /\ MustAsk(lane[l].operator, slot.call)
           => slot.confirmed,
         slot.call \in ConfirmFirst \/ MustAsk(lane[l].operator, slot.call) =>
           r + Weight(slot, slot.call)
             <= Weight(lane[l].batch[i], slot.call) + g
  PROVE  Paid'
<1> DEFINE c   == slot.call
           new == [lane[l] EXCEPT !.batch = [lane[l].batch EXCEPT ![i] = slot]]
<1>1. c \in Calls
  BY DEF SlotType
<1>2. /\ lane[l] \in LaneType /\ lane[l].batch[i].call = c
      /\ lane \in [Lanes -> LaneType]
      /\ runs \in [Lanes -> Tally] /\ grants \in [Lanes -> Tally]
  BY DEF IInv, TypeOK, Tally
<1>3. lane' = [lane EXCEPT ![l] = new]
  BY DEF SetSlot
<1>4. new.operator = lane[l].operator
      /\ new.batch = [lane[l].batch EXCEPT ![i] = slot]
  BY <1>2 DEF LaneType
<1> HIDE DEF new
<1>5. lane'[l] = new /\ \A k \in Lanes \ {l} : lane'[k] = lane[k]
  BY <1>2, <1>3
<1>6. \A k \in Lanes : Clear(k)' => Clear(k)
  BY SlotKeepsTurns DEF IInv
<1>7. /\ \A k \in Lanes \ {l} : runs'[k] = runs[k]
      /\ runs'[l] \in Tally
      /\ runs'[l][c] = runs[l][c] + r /\ runs[l][c] \in Nat
      /\ \A d \in Calls \ {c} : runs'[l][d] = runs[l][d]
  <2> HIDE DEF c
  <2>1. runs' = [runs EXCEPT ![l][c] = @ + r]
    BY DEF c
  <2>2. /\ \A k \in Lanes \ {l} : runs'[k] = runs[k]
        /\ runs'[l] = [runs[l] EXCEPT ![c] = @ + r]
    BY <2>1, <1>2
  <2>3. runs[l] \in [Calls -> Nat] /\ r \in Nat
    BY <1>2 DEF Tally
  <2>4. runs[l][c] \in Nat /\ runs[l][c] + r \in Nat
    BY <2>3, <1>1
  <2>5. [runs[l] EXCEPT ![c] = @ + r] \in [Calls -> Nat]
    BY <2>3, <2>4
  <2>6. runs'[l] \in Tally
    BY <2>2, <2>5 DEF Tally
  <2> QED
    BY <2>2, <2>3, <2>4, <2>6, <1>1
<1>8. /\ \A k \in Lanes \ {l} : grants'[k] = grants[k]
      /\ grants'[l] \in Tally
      /\ grants'[l][c] = grants[l][c] + g /\ grants[l][c] \in Nat
      /\ \A d \in Calls \ {c} : grants'[l][d] = grants[l][d]
  <2> HIDE DEF c
  <2>1. grants' = [grants EXCEPT ![l][c] = @ + g]
    BY DEF c
  <2>2. /\ \A k \in Lanes \ {l} : grants'[k] = grants[k]
        /\ grants'[l] = [grants[l] EXCEPT ![c] = @ + g]
    BY <2>1, <1>2
  <2>3. grants[l] \in [Calls -> Nat] /\ g \in Nat
    BY <1>2 DEF Tally
  <2>4. grants[l][c] \in Nat /\ grants[l][c] + g \in Nat
    BY <2>3, <1>1
  <2>5. [grants[l] EXCEPT ![c] = @ + g] \in [Calls -> Nat]
    BY <2>3, <2>4
  <2>6. grants'[l] \in Tally
    BY <2>2, <2>5 DEF Tally
  <2> QED
    BY <2>2, <2>3, <2>4, <2>6, <1>1
<1>9. Weight(slot, c) \in {0, 1} /\ Weight(lane[l].batch[i], c) \in {0, 1}
  BY DEF Weight
<1>10. c \in ConfirmFirst \/ MustAsk(lane[l].operator, c) =>
         runs'[l][c] + Weight(slot, c) + grants[l][c]
           <= runs[l][c] + Weight(lane[l].batch[i], c) + grants'[l][c]
  <2> DEFINE x == Weight(slot, c)
             y == Weight(lane[l].batch[i], c)
  <2>1. x \in {0, 1} /\ y \in {0, 1}
    BY <1>9
  <2>2. c \in ConfirmFirst \/ MustAsk(lane[l].operator, c) => r + x <= y + g
    OBVIOUS
  <2> HIDE DEF x, y, c
  <2>3. c \in ConfirmFirst \/ MustAsk(lane[l].operator, c) =>
          runs'[l][c] + x + grants[l][c] <= runs[l][c] + y + grants'[l][c]
    <3>1. /\ runs'[l][c] = runs[l][c] + r /\ runs[l][c] \in Nat
          /\ grants'[l][c] = grants[l][c] + g /\ grants[l][c] \in Nat
      BY <1>7, <1>8
    <3>2. ASSUME r + x <= y + g
          PROVE  runs[l][c] + r + x + grants[l][c]
                   <= runs[l][c] + y + (grants[l][c] + g)
      BY <3>1, <3>2, <2>1, BothMove
    <3> QED
      BY <2>2, <3>1, <3>2
  <2> QED
    BY <2>3 DEF x, y
<1>11. LanePaid(lane[l], runs[l], grants[l]) /\ runs[l] \in Tally /\ grants[l] \in Tally
  BY <1>2 DEF Paid
<1> HIDE DEF c
<1>12. slot.at = "execute" /\ MustAsk(lane[l].operator, c) => slot.confirmed
  BY DEF c
<1>13. lane[l].batch[i].call = c /\ slot.call = c
  BY <1>2 DEF c
<1>14. LanePaid(new, runs'[l], grants'[l])
  <2>1. Balanced(lane[l], i, slot, c, runs[l], grants[l], runs'[l], grants'[l])
    BY <1>7, <1>8, <1>10, <1>12, <1>13 DEF Balanced
  <2>2. Rewrites(lane[l], new, i, slot)
    BY <1>4, <1>13 DEF Rewrites
  <2>3. lane[l] \in LaneType /\ runs'[l] \in Tally /\ grants'[l] \in Tally
    BY <1>2, <1>7, <1>8
  <2> QED
    BY <1>1, <1>11, <2>1, <2>2, <2>3, RewritePaid
<1> QED
  BY <1>5, <1>6, <1>7, <1>8, <1>14, OthersPaid

(* Adding nothing to a tally. *)
LEMMA StaysPut ==
  ASSUME NEW f \in [Lanes -> Tally], NEW l \in Lanes, NEW c \in Calls
  PROVE  f = [f EXCEPT ![l][c] = @ + 0]
<1>1. f[l] \in [Calls -> Nat] /\ f[l][c] \in Nat /\ f[l][c] + 0 = f[l][c]
  BY DEF Tally
<1>2. [f[l] EXCEPT ![c] = @ + 0] = f[l]
  BY <1>1
<1> QED
  BY <1>2

(* A lookup lets a call through with an approval only if it is approved:   *)

(* the ledger hits nothing the operator's message does not approve.        *)
LEMMA LookupPaid ==
  ASSUME IInv, Paid, NEW l \in Lanes, NEW i \in DOMAIN lane[l].batch,
         Lookup(l, i)
  PROVE  Paid'
<1> DEFINE slot == lane[l].batch[i]
           s    == Session(l)
           c    == slot.call
           hit  == WantsLedger(l, c, slot.claim) /\ WouldHit(s, Turn(l), c)
           at   == IF AskReason(l, c) /\ ~hit THEN "ask" ELSE "execute"
           new  == [slot EXCEPT !.confirmed = hit, !.at = at]
           g    == IF hit THEN 1 ELSE 0
<1>1. /\ s \in Sessions
      /\ Active(l)
      /\ slot \in SlotType /\ c \in Calls
      /\ runs \in [Lanes -> Tally] /\ grants \in [Lanes -> Tally]
  BY BusyIsActive DEF SlotType, IInv, TypeOK, Tally
<1>2. hit \in BOOLEAN /\ at \in {"ask", "execute"}
  BY DEF WouldHit
<1>3. /\ slot.at = "start"
      /\ SetSlot(l, i, new)
      /\ grants' = IF hit /\ c \in approvable[s]
                   THEN [grants EXCEPT ![l][c] = @ + 1] ELSE grants
      /\ UNCHANGED <<runs, blurred>>
  BY DEF Lookup
<1>a. new \in SlotType
  BY <1>1, <1>2 DEF SlotType
<1>b. CASE ~Clear(l)
  <2>1. \A k \in Lanes \ {l} : runs'[k] = runs[k] /\ grants'[k] = grants[k]
    BY <1>1, <1>3
  <2> QED
    BY <2>1, <1>a, <1>b, <1>3, BlurredPaid
<1> SUFFICES ASSUME Clear(l) PROVE Paid'
  BY <1>b
<1>4. hit => c \in approvable[s]
  BY <1>1, HitIsApproved
<1>5. /\ AskReason(l, c) = MustAsk(lane[l].operator, c)
      /\ at = "execute" /\ AskReason(l, c) => hit
  BY DEF AskReason, MustAsk
<1> HIDE DEF hit, at
<1>6. new \in SlotType /\ new.call = c /\ new.at = at /\ new.confirmed = hit
  BY <1>1, <1>2 DEF SlotType
<1>7. /\ g \in {0, 1}
      /\ Weight(slot, c) = 0
      /\ Weight(new, c) <= g /\ Weight(new, c) \in {0, 1}
  BY <1>3, <1>6 DEF Weight, Going
<1> HIDE DEF new
<1>8. runs' = [runs EXCEPT ![l][c] = @ + 0]
  BY <1>1, <1>3, StaysPut
<1>9. grants' = [grants EXCEPT ![l][c] = @ + g]
  <2>1. CASE hit
    BY <2>1, <1>3, <1>4
  <2>2. CASE ~hit
    BY <2>2, <1>1, <1>3, StaysPut
  <2> QED
    BY <2>1, <2>2
<1> HIDE DEF g
<1>10. new.at = "execute" /\ MustAsk(lane[l].operator, new.call) => new.confirmed
  BY <1>5, <1>6
<1>11. 0 + Weight(new, new.call) <= Weight(lane[l].batch[i], new.call) + g
  BY <1>6, <1>7
<1>12. /\ new.call = lane[l].batch[i].call
       /\ runs' = [runs EXCEPT ![l][new.call] = @ + 0]
       /\ grants' = [grants EXCEPT ![l][new.call] = @ + g]
  BY <1>6, <1>8, <1>9
<1>13. 0 \in {0, 1} /\ SetSlot(l, i, new) /\ UNCHANGED blurred
  BY <1>3
<1> HIDE DEF slot
<1> QED
  BY <1>6, <1>7, <1>10, <1>11, <1>12, <1>13, SlotPaid

(* A call that is refused, declined or escalated runs nothing; one that    *)

(* runs was let through or has just been granted.                          *)
LEMMA OutcomePaid ==
  ASSUME IInv, Paid, NEW l \in Lanes, NEW i \in DOMAIN lane[l].batch,
         \/ Refuse(l, i) \/ Execute(l, i) \/ AnswerYes(l, i)
         \/ AnswerNo(l, i) \/ Unavailable(l, i)
  PROVE  Paid'
<1> DEFINE slot == lane[l].batch[i]
           c    == slot.call
<1>1. /\ slot \in SlotType /\ c \in Calls
      /\ runs \in [Lanes -> Tally] /\ grants \in [Lanes -> Tally]
  BY BusyIsActive DEF SlotType, IInv, TypeOK, Tally
<1>2. UNCHANGED runs => runs' = [runs EXCEPT ![l][c] = @ + 0]
  BY <1>1, StaysPut
<1>3. UNCHANGED grants => grants' = [grants EXCEPT ![l][c] = @ + 0]
  BY <1>1, StaysPut
<1>4. PICK at \in {"refused", "done", "escalated"} :
        SetSlot(l, i, [slot EXCEPT !.at = at])
  BY DEF Refuse, Execute, AnswerYes, AnswerNo, Unavailable
<1> DEFINE new == [slot EXCEPT !.at = at]
<1>5. new \in SlotType /\ new.call = c /\ new.at = at
  BY <1>1 DEF SlotType
<1>a. UNCHANGED blurred
  BY DEF Refuse, Execute, AnswerYes, AnswerNo, Unavailable, truth
<1>b. CASE ~Clear(l)
  <2>1. \A k \in Lanes \ {l} : runs'[k] = runs[k] /\ grants'[k] = grants[k]
    <3>1. /\ runs' = runs \/ runs' = [runs EXCEPT ![l][c] = @ + 1]
          /\ grants' = grants \/ grants' = [grants EXCEPT ![l][c] = @ + 1]
      BY DEF Refuse, Execute, AnswerYes, AnswerNo, Unavailable, tally
    <3> QED
      BY <3>1, <1>1
  <2> QED
    BY <2>1, <1>4, <1>5, <1>a, <1>b, BlurredPaid
<1> SUFFICES ASSUME Clear(l) PROVE Paid'
  BY <1>b
<1>6. /\ Weight(new, c) = 0
      /\ Weight(slot, c) \in {0, 1}
      /\ ~(new.at = "execute")
  BY <1>5 DEF Weight, Going
<1>7. PICK r \in {0, 1}, g \in {0, 1} :
        /\ runs' = [runs EXCEPT ![l][c] = @ + r]
        /\ grants' = [grants EXCEPT ![l][c] = @ + g]
        /\ c \in ConfirmFirst \/ MustAsk(lane[l].operator, c)
             => r <= Weight(slot, c) + g
  <2>1. CASE Execute(l, i)
    <3>1. /\ slot.at = "execute" /\ c \in ConfirmFirst => slot.confirmed
          /\ runs' = [runs EXCEPT ![l][c] = @ + 1]
          /\ grants' = [grants EXCEPT ![l][c] = @ + 0]
      BY <2>1, <1>3 DEF Execute
    <3>2. slot.at = "execute" /\ MustAsk(lane[l].operator, c) => slot.confirmed
      BY DEF Paid, LanePaid
    <3>3. c \in ConfirmFirst \/ MustAsk(lane[l].operator, c) => Weight(slot, c) = 1
      BY <2>1, <3>1, <3>2 DEF Execute, Weight, Going
    <3>4. c \in ConfirmFirst \/ MustAsk(lane[l].operator, c) => 1 <= Weight(slot, c) + 0
      BY <3>3
    <3> QED
      BY <3>1, <3>4
  <2>2. CASE AnswerYes(l, i)
    <3>1. /\ runs' = [runs EXCEPT ![l][c] = @ + 1]
          /\ grants' = [grants EXCEPT ![l][c] = @ + 1]
      BY <2>2 DEF AnswerYes
    <3>2. 1 <= Weight(slot, c) + 1
      BY <1>6
    <3> QED
      BY <3>1, <3>2
  <2>3. CASE Refuse(l, i) \/ AnswerNo(l, i) \/ Unavailable(l, i)
    <3>1. UNCHANGED <<runs, grants>>
      BY <2>3 DEF Refuse, AnswerNo, Unavailable, tally
    <3>2. 0 <= Weight(slot, c) + 0
      BY <1>6
    <3> QED
      BY <3>1, <3>2, <1>2, <1>3
  <2> QED
    BY <2>1, <2>2, <2>3
<1>8. /\ new.call = lane[l].batch[i].call
      /\ runs' = [runs EXCEPT ![l][new.call] = @ + r]
      /\ grants' = [grants EXCEPT ![l][new.call] = @ + g]
      /\ new.call \in ConfirmFirst \/ MustAsk(lane[l].operator, new.call)
           => r + Weight(new, new.call) <= Weight(lane[l].batch[i], new.call) + g
  BY <1>5, <1>6, <1>7
<1> HIDE DEF new
<1> QED
  BY <1>4, <1>5, <1>6, <1>8, <1>a, SlotPaid DEF new

(* A turn that begins owes nothing. *)
LEMMA BeginPaid ==
  ASSUME IInv, Paid, NEW l \in Lanes, NEW s \in Sessions,
         NEW operator \in BOOLEAN, NEW yes \in BOOLEAN, NEW canAsk \in BOOLEAN,
         BeginTurn(l, s, operator, yes, canAsk)
  PROVE  Paid'
<1>1. /\ lane'[l].batch = NoBatch
      /\ runs'[l] = Zero /\ grants'[l] = Zero
      /\ \A k \in Lanes \ {l} : /\ lane'[k] = lane[k]
                                /\ runs'[k] = runs[k]
                                /\ grants'[k] = grants[k]
  BY DEF BeginTurn, IInv, TypeOK
<1>2. Zero \in Tally /\ \A c \in Calls : Zero[c] <= Zero[c]
  BY DEF Zero, Tally
<1>3. LanePaid(lane'[l], runs'[l], grants'[l])
  BY <1>1, <1>2, NothingGoing DEF NoBatch
<1>4. ASSUME NEW k \in Lanes \ {l}, Clear(k)' PROVE Clear(k)
  <2>1. /\ lane[k].active /\ lane'[k] = lane[k]
        /\ lane[k].session \in Sessions
        /\ ~blurred'[lane[k].session]
    BY <1>1, <1>4 DEF Clear, Active, Session, IInv, LaneInv
  <2>2. Busy(lane[k].session)
    BY <2>1 DEF Busy, Active, Session
  <2>3. lane[k].session # s /\ ~blurred[lane[k].session]
    BY <2>1, <2>2 DEF BeginTurn, Blur
  <2> QED
    BY <2>1, <2>3 DEF Clear, Active, Session
<1> QED
  BY <1>1, <1>3, <1>4, OthersPaid

(* A new batch, and the end of one, let nothing through. *)
LEMMA BatchPaid ==
  ASSUME IInv, Paid, NEW l \in Lanes, NEW new,
         lane' = [lane EXCEPT ![l] = new],
         \A i \in DOMAIN new.batch : new.batch[i].at # "execute",
         new.operator \in {FALSE, lane[l].operator},
         new.active => new.session = lane[l].session, Active(l),
         UNCHANGED <<runs, grants, blurred>>
  PROVE  Paid'
<1>1. /\ lane[l] \in LaneType /\ runs[l] \in Tally /\ grants[l] \in Tally
      /\ lane'[l] = new
      /\ \A k \in Lanes \ {l} : lane'[k] = lane[k]
  BY DEF IInv, TypeOK, Tally
<1>a. \A k \in Lanes : Clear(k)' => Clear(k)
  <2>1. \A k \in Lanes : /\ lane'[k].active => lane[k].active
                         /\ lane'[k].active => lane'[k].session = lane[k].session
    BY <1>1 DEF Active
  <2> QED
    BY <2>1 DEF Clear, Active, Session
<1>b. CASE ~Clear(l)'
  BY <1>1, <1>a, <1>b, OthersPaid
<1> SUFFICES ASSUME Clear(l)' PROVE Paid'
  BY <1>b
<1>2. LanePaid(lane[l], runs[l], grants[l])
  BY <1>a DEF Paid
<1>3. ASSUME NEW c \in Calls, c \in ConfirmFirst \/ MustAsk(new.operator, c)
      PROVE  runs[l][c] <= grants[l][c]
  <2>1. c \in ConfirmFirst \/ MustAsk(lane[l].operator, c)
    BY <1>3 DEF MustAsk
  <2> QED
    BY <2>1, <1>1, <1>2, PaidIsEnough
<1>4. LanePaid(new, runs[l], grants[l])
  BY <1>1, <1>3, NothingGoing
<1> QED
  BY <1>1, <1>4, <1>a, OthersPaid

(* A call that is dispatched is paid for by the approval its claim took. *)
LEMMA DispatchPaid ==
  ASSUME IInv, Paid, NEW l \in Lanes, NEW k \in 1 .. BatchSize,
         NEW call \in [1 .. k -> Calls], NEW claim \in [1 .. k -> BOOLEAN],
         Dispatch(l, k, call, claim)
  PROVE  Paid'
<1> DEFINE batch == [i \in 1 .. k |-> [call |-> call[i], claim |-> claim[i],
                                       at |-> "start", confirmed |-> FALSE]]
           new   == [lane[l] EXCEPT !.steps = @ + 1, !.batch = batch]
<1>1. /\ lane' = [lane EXCEPT ![l] = new] /\ Active(l)
      /\ UNCHANGED <<runs, grants, blurred>>
  BY DEF Dispatch, Planning, tally, truth
<1>2. \A i \in DOMAIN batch : batch[i].at # "execute"
  OBVIOUS
<1>3. lane[l] \in LaneType
  BY DEF IInv, TypeOK
<1> HIDE DEF batch
<1>4. /\ new.batch = batch /\ new.operator = lane[l].operator
      /\ new.session = lane[l].session
  BY <1>3 DEF LaneType
<1> HIDE DEF new
<1> QED
  BY <1>1, <1>2, <1>4, BatchPaid

(* The end of a batch or a turn only drops calls on their way. *)
LEMMA EndPaid ==
  ASSUME IInv, Paid, NEW l \in Lanes, EndBatch(l) \/ EndTurn(l)
  PROVE  Paid'
<1>1. UNCHANGED <<runs, grants, blurred>> /\ Active(l)
  BY DEF EndBatch, EndTurn, Planning, tally, truth
<1>2. lane[l] \in LaneType
  BY DEF IInv, TypeOK
<1>3. DOMAIN NoBatch = {}
  BY DEF NoBatch
<1>4. CASE lane' = [lane EXCEPT ![l] = Idle]
  <2>1. Idle.batch = NoBatch /\ Idle.operator = FALSE /\ ~Idle.active
    BY DEF Idle
  <2> QED
    BY <2>1, <1>1, <1>3, <1>4, BatchPaid
<1>5. CASE lane' = [lane EXCEPT ![l] = [lane[l] EXCEPT !.batch = NoBatch]]
  <2> DEFINE new == [lane[l] EXCEPT !.batch = NoBatch]
  <2>1. /\ new.batch = NoBatch /\ new.operator = lane[l].operator
        /\ new.session = lane[l].session
    BY <1>2 DEF LaneType
  <2> HIDE DEF new
  <2>2. lane' = [lane EXCEPT ![l] = new]
    BY <1>5 DEF new
  <2> QED
    BY <2>1, <2>2, <1>1, <1>3, BatchPaid
<1> QED
  BY <1>4, <1>5 DEF EndBatch, EndTurn

(* A call that must ask first (withheld, manual for an operator's turn, or *)
(* confirm-first) never runs more often in a turn than the operator has    *)
(* approved it, however the calls of a batch interleave: run_tool_call's   *)
(* lookup is consumed on use and seek_approval runs what it was granted.   *)
THEOREM OneApproval ==
  Spec => []OneApprovalOneRun
<1>1. Init => PaidInv
  <2> SUFFICES ASSUME Init PROVE Paid
    BY InitIInv DEF PaidInv
  <2>1. Zero \in Tally /\ \A c \in Calls : Zero[c] <= Zero[c]
    BY DEF Zero, Tally
  <2>2. Idle.batch = NoBatch /\ DOMAIN NoBatch = {}
    BY DEF Idle, NoBatch
  <2>3. LanePaid(Idle, Zero, Zero)
    BY <2>1, <2>2, NothingGoing
  <2> QED
    BY <2>3 DEF Init, Paid
<1>2. PaidInv /\ [Next]_vars => PaidInv'
  <2> SUFFICES ASSUME IInv, Paid, [Next]_vars PROVE Paid'
    BY NextKeeps DEF PaidInv
  <2>1. ASSUME NEW l \in Lanes, NEW s \in Sessions, NEW operator \in BOOLEAN,
               NEW yes \in BOOLEAN, NEW canAsk \in BOOLEAN,
               BeginTurn(l, s, operator, yes, canAsk)
        PROVE  Paid'
    BY <2>1, BeginPaid
  <2>2. ASSUME NEW l \in Lanes, NEW k \in 1 .. BatchSize,
               NEW call \in [1 .. k -> Calls], NEW claim \in [1 .. k -> BOOLEAN],
               Dispatch(l, k, call, claim)
        PROVE  Paid'
    BY <2>2, DispatchPaid
  <2>3. ASSUME NEW l \in Lanes, NEW i \in DOMAIN lane[l].batch, Slot(l, i)
        PROVE  Paid'
    BY <2>3, LookupPaid, OutcomePaid DEF Slot
  <2>4. ASSUME NEW l \in Lanes, EndBatch(l) \/ EndTurn(l)
        PROVE  Paid'
    BY <2>4, EndPaid
  <2>5. ASSUME NEW p \in refused, WindowPasses(p)
        PROVE  Paid'
    BY <2>5 DEF WindowPasses, Paid, Clear, Active, Session, tally
  <2>6. CASE UNCHANGED vars
    BY <2>6 DEF vars, Paid, Clear, Active, Session
  <2> QED
    BY <2>1, <2>2, <2>3, <2>4, <2>5, <2>6 DEF Next
<1>3. PaidInv => OneApprovalOneRun
  <2> SUFFICES ASSUME IInv, Paid, NEW l \in Lanes, Clear(l), NEW c \in Calls,
                      c \in ConfirmFirst \/ AskReason(l, c)
               PROVE  runs[l][c] <= grants[l][c]
    BY DEF PaidInv, OneApprovalOneRun, Clear
  <2>1. c \in ConfirmFirst \/ MustAsk(lane[l].operator, c)
    BY DEF AskReason, MustAsk
  <2>2. /\ lane[l] \in LaneType /\ runs[l] \in Tally /\ grants[l] \in Tally
        /\ LanePaid(lane[l], runs[l], grants[l])
    BY DEF IInv, TypeOK, Tally, Paid
  <2> QED
    BY <2>1, <2>2, PaidIsEnough
<1> QED
  BY <1>1, <1>2, <1>3, PTL DEF Spec

=============================================================================
