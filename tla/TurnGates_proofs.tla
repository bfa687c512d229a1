------------------------- MODULE TurnGates_proofs -------------------------
(***************************************************************************)
(* Proofs about what a turn passes on its way to a model or a tool: the    *)
(* limiter and the slot pool (TurnResources, part I), the day budget       *)
(* (BudgetGate, part II) and the routing guard (CloudGate, part III).      *)
(*                                                                         *)
(* I, for any turns, tools, prefixes, limits and number of slots.  The     *)
(* pool: a turn under way has its slot to itself, so what it recorded      *)
(* there stays on record, and what it sends there is what the record says. *)
(* The limiter: its counters are the sizes of sets of calls, and a window  *)
(* holds every call that is recent at the latest instant it was pruned by, *)
(* so a limit is reached in the counters when, and only when, it is        *)
(* reached by the calls; but for the window and a call whose instant is an *)
(* older one.                                                              *)
(*                                                                         *)
(* II, for any number of turns and specialists, any cap, estimate and      *)
(* cost, and any number of failed reads.  The three invariants are         *)
(* inductive together: a reservation that is admitted on a figure that is  *)
(* still right fits under the cap because the reserved sum covers every    *)
(* running turn, and every other way past the cap is counted when it is    *)
(* taken.                                                                  *)
(*                                                                         *)
(* III, for any number of parallel calls, sources of private content,      *)
(* turns and faults.  The taint: what is in the conversation was marked    *)
(* first, and a mark is in memory until a restart; so a request that found *)
(* no taint carries nothing private, and the calls of a batch settle       *)
(* before anything new reaches the conversation.  The marks: an armed or   *)
(* active mark that was not used yet is one of the failures or offers that *)
(* no turn has used.                                                       *)
(***************************************************************************)
EXTENDS TurnResources, BudgetGate, CloudGate, FiniteSetTheorems, TLAPS

-----------------------------------------------------------------------------
(* Part I: the limiter and the slot pool *)

UnderWay(t) == at[t] \in {"load", "begin", "run"}

(* Where a turn's slot is, and what the record says of it. *)
PoolShape ==
  /\ \A t \in Turns : at[t] = "new" => slot[t] = Nothing
  /\ \A t \in Turns : at[t] = "load" => slot[t] \in Slots /\ loaded[slot[t]] # prefix[t]
  /\ \A t \in Turns : UnderWay(t) /\ slot[t] # Nothing => slot[t] \in out
  /\ \A t \in Turns : at[t] \in {"begin", "run"} /\ slot[t] \in Slots \ astray
                        => loaded[slot[t]] = prefix[t]
  /\ \A s \in Slots \ astray : loaded[s] = holds[s]

PoolInv == TypeOK /\ PoolShape /\ SlotsExclusive /\ ~wiped

-----------------------------------------------------------------------------
(* Types *)

(* The first state is well typed. *)
LEMMA StartsTyped == ASSUME Init PROVE TypeOK
<1>1. setup \in Setups /\ now \in 0 .. MaxTime
  BY TurnAssumption DEF TurnAssumption, Init
<1>2. /\ window \in [Tools -> SUBSET Entries] /\ history \subseteq Entries /\ fresh \subseteq history
      /\ \A k \in Tools : window[k] = {}
  BY DEF Init
<1>3. queued \in [Turns -> [tool : Tools, time : 0 .. now] \cup {Nothing}] /\ last \in [Tools -> 0 .. now]
  BY DEF Init
<1> QED
  BY <1>1, <1>2, <1>3 DEF Init, TypeOK

(* A call's record is an entry of the history. *)
LEMMA CallTyped ==
  ASSUME TypeOK, IsFiniteSet(history), NEW t \in Turns, NEW k \in Tools, NEW instant \in Nat
  PROVE  Call(t, k, instant) \in Entries
<1>1. Cardinality(Since(k, history)) \in Nat
  BY FS_Subset, FS_CardinalityType DEF Since
<1> QED
  BY <1>1 DEF Call, Entries

(* Taking, loading, using and returning a slot is well typed. *)
LEMMA PoolStepsTyped ==
  ASSUME TypeOK, NEW t \in Turns,
         Checkout(t) \/ Load(t) \/ LoadFails(t) \/ Start(t) \/ Request(t) \/ Finish(t),
         UnderWay(t) /\ at[t] = "load" => slot[t] \in Slots
  PROVE  TypeOK'
<1>1. CASE Checkout(t)
  BY <1>1 DEF TypeOK, Checkout, Free, Take, limiter, ghosts
<1>2. CASE Load(t)
  BY <1>2 DEF TypeOK, Load, Record, Overwrite, limiter, UnderWay
<1>3. CASE LoadFails(t)
  BY <1>3 DEF TypeOK, LoadFails, Overwrite, limiter, UnderWay
<1>4. CASE Start(t)
  BY <1>4 DEF TypeOK, Start, Reset, pool
<1>5. CASE Request(t)
  BY <1>5 DEF TypeOK, Request, limiter
<1>6. CASE Finish(t)
  BY <1>6 DEF TypeOK, Finish, limiter, ghosts
<1> QED
  BY <1>1, <1>2, <1>3, <1>4, <1>5, <1>6

(* The instant a call is judged by, and the latest of its tool. *)
LEMMA JudgeTyped ==
  ASSUME TypeOK, NEW t \in Turns, NEW k \in Tools, Judge(t, k)
  PROVE  /\ queued[t].time \in 0 .. now /\ now \in Nat /\ last[k] \in 0 .. now
         /\ queued' \in [Turns -> [tool : Tools, time : 0 .. now] \cup {Nothing}]
         /\ last' \in [Tools -> 0 .. now]
         /\ last'[k] = (IF queued[t].time > last[k] THEN queued[t].time ELSE last[k])
         /\ \A j \in Tools \ {k} : last'[j] = last[j]
<1>1. now \in Nat
  BY TurnAssumption DEF TurnAssumption, TypeOK
<1>2. queued[t] \in [tool : Tools, time : 0 .. now] /\ last[k] \in 0 .. now
  BY DEF TypeOK, Judge
<1>3. last' = [last EXCEPT ![k] = IF queued[t].time > last[k] THEN queued[t].time ELSE last[k]]
  BY DEF TypeOK, Judge
<1> QED
  BY <1>1, <1>2, <1>3 DEF TypeOK, Judge

(* So is a call that waits for the limiter, and one it admits or refuses. *)
LEMMA LimiterStepsTyped ==
  ASSUME TypeOK, IsFiniteSet(history), NEW t \in Turns, NEW k \in Tools,
         ReadClock(t, k) \/ Admit(t, k) \/ Refuse(t, k)
  PROVE  TypeOK'
<1>1. CASE ReadClock(t, k)
  <2>1. now \in 0 .. now
    BY TurnAssumption DEF TurnAssumption, TypeOK
  <2>2. queued' \in [Turns -> [tool : Tools, time : 0 .. now] \cup {Nothing}]
    BY <1>1, <2>1 DEF TypeOK, ReadClock
  <2> QED
    BY <1>1, <2>2 DEF TypeOK, ReadClock, pool, ghosts
<1>2. CASE Admit(t, k)
  <2>1. Judge(t, k)
    BY <1>2 DEF Admit
  <2> DEFINE instant == queued[t].time
             e == Call(t, k, instant)
  <2>2. instant \in Nat /\ e \in Entries
    BY <2>1, JudgeTyped, CallTyped
  <2>3. /\ Keep(k, instant, {e})
        /\ history' = history \cup {e} /\ fresh' = fresh \cup {e}
        /\ perTool' = [perTool EXCEPT ![k] = @ + 1] /\ total' = total + 1
    BY <1>2 DEF Admit
  <2> HIDE DEF e, instant
  <2>4. window' \in [Tools -> SUBSET Entries]
    BY <2>2, <2>3 DEF TypeOK, Keep, Pruned
  <2>5. history' \subseteq Entries /\ fresh' \subseteq history'
    BY <2>2, <2>3 DEF TypeOK
  <2>6. perTool' \in [Tools -> Nat] /\ total' \in Nat
    BY <2>3 DEF TypeOK
  <2>7. UNCHANGED <<setup, now, at, pool, astray, wiped, crossed, wronged>>
    BY <1>2 DEF Admit, Judge
  <2> QED
    BY <2>1, <2>4, <2>5, <2>6, <2>7, JudgeTyped DEF TypeOK, pool
<1>3. CASE Refuse(t, k)
  <2>1. Judge(t, k) /\ Keep(k, queued[t].time, {})
        /\ UNCHANGED <<perTool, total, history, fresh>> /\ wronged' \in BOOLEAN
    BY <1>3 DEF TypeOK, Refuse
  <2>2. window' \in [Tools -> SUBSET Entries]
    BY <2>1 DEF TypeOK, Keep, Pruned
  <2>3. UNCHANGED <<setup, now, at, pool, astray, wiped, crossed>>
    BY <2>1 DEF Judge
  <2> QED
    BY <2>1, <2>2, <2>3, JudgeTyped DEF TypeOK, pool
<1> QED
  BY <1>1, <1>2, <1>3

(* So is the passing of time. *)
LEMMA TickTyped == ASSUME TypeOK, Tick PROVE TypeOK'
<1>1. now' \in 0 .. MaxTime /\ 0 .. now \subseteq 0 .. now'
  BY TurnAssumption DEF TurnAssumption, TypeOK, Tick
<1> QED
  BY <1>1 DEF TypeOK, Tick, limiter, pool, ghosts

-----------------------------------------------------------------------------
(* The pool *)

(* A fresh pool holds nothing. *)
LEMMA StartsPool == ASSUME Init PROVE PoolInv
<1>1. PoolShape /\ SlotsExclusive /\ ~wiped
  BY DEF Init, PoolShape, SlotsExclusive, UnderWay
<1> QED
  BY <1>1, StartsTyped DEF PoolInv

(* A slot that is free belongs to no turn under way. *)
LEMMA CheckoutStep == ASSUME PoolInv, NEW t \in Turns, Checkout(t) PROVE PoolInv'
<1>1. TypeOK'
  BY PoolStepsTyped DEF PoolInv, Checkout, UnderWay
<1>2. UNCHANGED <<loaded, holds, astray, wiped>> /\ at[t] = "new" /\ at'[t] \in {"begin", "load"}
      /\ \A u \in Turns \ {t} : at'[u] = at[u] /\ slot'[u] = slot[u] /\ prefix'[u] = prefix[u]
  BY DEF PoolInv, TypeOK, Checkout, ghosts
<1>3. CASE slot' = slot /\ out' = out /\ at'[t] = "begin"
  <2>1. slot[t] = Nothing
    BY <1>2 DEF PoolInv, PoolShape
  <2>2. PoolShape'
    BY <1>2, <1>3, <2>1, TurnAssumption DEF TurnAssumption, PoolInv, PoolShape, UnderWay
  <2>3. SlotsExclusive'
    BY <1>2, <1>3, <2>1, TurnAssumption DEF TurnAssumption, PoolInv, TypeOK, SlotsExclusive
  <2> QED
    BY <1>1, <1>2, <2>2, <2>3 DEF PoolInv
<1>4. ASSUME NEW s \in Slots \ out, out' = out \cup {s}, slot' = [slot EXCEPT ![t] = s],
             at'[t] = IF loaded[s] = prefix'[t] THEN "begin" ELSE "load"
      PROVE  PoolInv'
  <2>1. slot'[t] = s /\ s # Nothing
    BY <1>4, TurnAssumption DEF TurnAssumption, PoolInv, TypeOK
  <2>2. PoolShape'
    BY <1>2, <1>4, <2>1 DEF PoolInv, PoolShape, UnderWay
  <2>3. \A u \in Turns \ {t} : slot[u] # Nothing /\ at[u] # "over" => slot[u] \in out
    BY DEF PoolInv, PoolShape, TypeOK, UnderWay
  <2>4. SlotsExclusive'
    <3>1. \A u, v \in Turns : slot'[u] = slot'[v] /\ slot'[u] # Nothing
                               /\ at'[u] # "over" /\ at'[v] # "over" => u = v
      BY <1>2, <1>4, <2>1, <2>3 DEF PoolInv, SlotsExclusive
    <3>2. \A r \in out : \E u \in Turns \ {t} : slot[u] = r /\ at[u] # "over"
      BY <1>2, TurnAssumption DEF TurnAssumption, PoolInv, TypeOK, PoolShape, SlotsExclusive
    <3>3. \A r \in out' : \E u \in Turns : slot'[u] = r /\ at'[u] # "over"
      BY <1>2, <1>4, <2>1, <3>2
    <3> QED
      BY <3>1, <3>3 DEF SlotsExclusive
  <2> QED
    BY <1>1, <1>2, <2>2, <2>4 DEF PoolInv
<1> QED
  BY <1>3, <1>4 DEF PoolInv, TypeOK, Checkout, Free, Take

(* What was on record under another prefix is overwritten, never the turn's own. *)
LEMMA LoadSteps == ASSUME PoolInv, NEW t \in Turns, Load(t) \/ LoadFails(t) PROVE PoolInv'
<1> DEFINE s == slot[t]
<1>1. s \in Slots /\ loaded[s] # prefix[t] /\ s # Nothing /\ at[t] = "load" /\ s \in out
  BY TurnAssumption DEF TurnAssumption, PoolInv, PoolShape, UnderWay, Load, LoadFails
<1>2. TypeOK'
  BY <1>1, PoolStepsTyped DEF PoolInv
<1>3. /\ \A u \in Turns \ {t} : at'[u] = at[u]
      /\ at'[t] = "begin" /\ UNCHANGED <<slot, prefix, out>>
  BY DEF PoolInv, TypeOK, Load, LoadFails
<1>4. \A u \in Turns \ {t} : UnderWay(u) => slot[u] # s
  BY <1>1 DEF PoolInv, SlotsExclusive, UnderWay
<1>5. ~wiped'
  BY <1>1 DEF PoolInv, PoolShape, Load, LoadFails, Overwrite
<1>6. \A r \in Slots \ {s} : loaded'[r] = loaded[r] /\ holds'[r] = holds[r]
                              /\ (r \in astray' <=> r \in astray)
  BY <1>1 DEF PoolInv, TypeOK, Load, LoadFails, Record, Overwrite
<1>7. s \in astray' \/ (loaded'[s] = prefix[t] /\ holds'[s] = prefix[t])
  BY <1>1 DEF PoolInv, TypeOK, Load, LoadFails, Record, Overwrite
<1> HIDE DEF s
<1>8. PoolShape'
  <2>1. \A u \in Turns : at'[u] \in {"begin", "run"} /\ slot'[u] \in Slots \ astray'
                            => loaded'[slot'[u]] = prefix'[u]
    BY <1>1, <1>3, <1>4, <1>6, <1>7 DEF PoolInv, PoolShape, UnderWay, s
  <2>2. \A u \in Turns : at'[u] = "load" => slot'[u] \in Slots /\ loaded'[slot'[u]] # prefix'[u]
    BY <1>1, <1>3, <1>4, <1>6 DEF PoolInv, PoolShape, UnderWay, s
  <2>3. \A r \in Slots \ astray' : loaded'[r] = holds'[r]
    BY <1>6, <1>7 DEF PoolInv, PoolShape
  <2> QED
    BY <1>1, <1>3, <2>1, <2>2, <2>3 DEF PoolInv, PoolShape, UnderWay
<1>9. SlotsExclusive'
  BY <1>1, <1>3 DEF PoolInv, SlotsExclusive
<1> QED
  BY <1>2, <1>5, <1>8, <1>9 DEF PoolInv

(* A turn that starts keeps the slot it has. *)
LEMMA StartStep == ASSUME PoolInv, NEW t \in Turns, Start(t) PROVE PoolInv'
<1>1. TypeOK'
  BY PoolStepsTyped DEF PoolInv, Start, UnderWay
<1>2. /\ at[t] = "begin" /\ at'[t] = "run" /\ \A u \in Turns \ {t} : at'[u] = at[u]
      /\ UNCHANGED <<pool, astray, wiped>>
  BY DEF PoolInv, TypeOK, Start
<1>3. PoolShape' /\ SlotsExclusive'
  BY <1>2 DEF PoolInv, PoolShape, SlotsExclusive, UnderWay, pool
<1> QED
  BY <1>1, <1>2, <1>3 DEF PoolInv

(* A turn sends its own prefix to its own slot; elsewhere it leaves a trace. *)
LEMMA RequestStep == ASSUME PoolInv, NEW t \in Turns, Request(t) PROVE PoolInv'
<1>1. TypeOK'
  BY PoolStepsTyped DEF PoolInv, Request, InTurn, UnderWay
<1>2. at[t] = "run" /\ UNCHANGED <<at, slot, prefix, out, loaded, wiped>>
  BY DEF Request, InTurn
<1>3. PICK s \in Slots : /\ slot[t] \in {s, Nothing}
                         /\ holds' = [holds EXCEPT ![s] = prefix[t]]
                         /\ astray' = IF slot[t] = Nothing THEN astray \cup {s} ELSE astray
  BY DEF Request
<1>4. astray \subseteq astray'
  BY <1>3
<1>5. \A r \in Slots \ astray' : loaded[r] = holds'[r]
  BY <1>2, <1>3 DEF PoolInv, TypeOK, PoolShape
<1>6. PoolShape' /\ SlotsExclusive'
  BY <1>2, <1>4, <1>5 DEF PoolInv, PoolShape, SlotsExclusive, UnderWay
<1> QED
  BY <1>1, <1>2, <1>6 DEF PoolInv

(* A turn that ends returns its slot with what it holds. *)
LEMMA FinishStep == ASSUME PoolInv, NEW t \in Turns, Finish(t) PROVE PoolInv'
<1>1. TypeOK'
  BY PoolStepsTyped DEF PoolInv, Finish, InTurn, UnderWay
<1>2. /\ at[t] = "run" /\ at'[t] = "over" /\ \A u \in Turns \ {t} : at'[u] = at[u]
      /\ UNCHANGED <<slot, prefix, loaded, holds, astray, wiped>>
      /\ out' = out \ {slot[t]}
  BY TurnAssumption DEF TurnAssumption, PoolInv, TypeOK, Finish, InTurn, ghosts
<1>3. \A u \in Turns \ {t} : UnderWay(u) /\ slot[u] # Nothing => slot[u] # slot[t]
  BY <1>2 DEF PoolInv, SlotsExclusive, UnderWay
<1>4. PoolShape'
  BY <1>2, <1>3 DEF PoolInv, PoolShape, UnderWay
<1>5. SlotsExclusive'
  BY <1>2 DEF PoolInv, SlotsExclusive
<1> QED
  BY <1>1, <1>2, <1>4, <1>5 DEF PoolInv

(* The limiter, the clock and stuttering leave the pool alone. *)
LEMMA PoolKept ==
  ASSUME PoolInv, TypeOK', UNCHANGED <<at, pool, astray, wiped>>
  PROVE  PoolInv'
BY DEF PoolInv, PoolShape, SlotsExclusive, UnderWay, pool

-----------------------------------------------------------------------------
(* The limiter *)

(* Counters are sizes of sets of calls; a window holds all that is recent at
   the latest instant it was pruned by. *)
CountShape ==
  /\ IsFiniteSet(history)
  /\ \A t \in Turns : queued[t] # Nothing => at[t] = "run"
  /\ \A e \in history : e.n < Cardinality(Since(e.tool, history)) /\ e.time <= last[e.tool]
  /\ total = Cardinality(fresh)
  /\ \A k \in Tools : perTool[k] = Cardinality(Since(k, fresh))
  /\ \A k \in Tools : WindowCap[k] # Nothing => /\ window[k] \subseteq Since(k, history)
                                               /\ Recent(k, last[k], history) \subseteq window[k]

CountInv == TypeOK /\ CountShape

(* The limits, of turns that run and of turns that are over. *)
Mine(t, calls) == {e \in calls : e.turn = t}

CapShape ==
  setup.action = "deny" =>
    /\ TotalCap # Nothing => Cardinality(fresh) <= TotalCap
    /\ \A k \in Tools : ToolCap[k] # Nothing => Cardinality(Since(k, fresh)) <= ToolCap[k]
    /\ \A t \in Turns : at[t] \in {"new", "load", "begin"} => Mine(t, history) = {}
    /\ \A t \in Turns : at[t] = "run" =>
         /\ TotalCap # Nothing =>
              Cardinality(Mine(t, history))
                <= TotalCap * crossed[t] + Cardinality(Mine(t, fresh))
         /\ \A k \in Tools : ToolCap[k] # Nothing =>
              Cardinality(Since(k, Mine(t, history)))
                <= ToolCap[k] * crossed[t] + Cardinality(Since(k, Mine(t, fresh)))

LimitInv == CountInv /\ CapShape /\ LimitsExact

(* Sets of calls are finite, and their sizes natural numbers. *)
LEMMA Sizes ==
  ASSUME CountInv, NEW S \in SUBSET history
  PROVE  /\ IsFiniteSet(S) /\ Cardinality(S) \in Nat
         /\ \A T \in SUBSET S : IsFiniteSet(T) /\ Cardinality(T) \in Nat
                               /\ Cardinality(T) <= Cardinality(S)
<1>1. IsFiniteSet(S)
  BY FS_Subset DEF CountInv, CountShape
<1> QED
  BY <1>1, FS_Subset, FS_CardinalityType

(* One more element is one more, in a set that it belongs to. *)
LEMMA OneMore ==
  ASSUME NEW S, IsFiniteSet(S), NEW e, e \notin S
  PROVE  /\ IsFiniteSet(S \cup {e}) /\ Cardinality(S \cup {e}) = Cardinality(S) + 1
BY FS_AddElement

(* Pruning keeps what is recent, and a later instant finds no more recent. *)
LEMMA PrunedKeepsRecent ==
  ASSUME CountInv, NEW k \in Tools, NEW instant \in Nat
  PROVE  /\ Pruned(k, instant) \subseteq window[k]
         /\ Recent(k, instant, window[k]) \subseteq Pruned(k, instant)
         /\ Recent(k, instant, Pruned(k, instant)) = Recent(k, instant, window[k])
<1>1. window[k] \subseteq Entries
  BY DEF CountInv, TypeOK
<1>2. Recent(k, instant, window[k]) \subseteq Pruned(k, instant)
  BY <1>1 DEF Pruned, Recent, Entries
<1> QED
  BY <1>2 DEF Pruned, Recent

(* A call is older at a later instant. *)
LEMMA AgeGrows ==
  ASSUME NEW a \in Nat, NEW b \in Nat, a <= b, NEW e \in Entries
  PROVE  Age(a, e) <= Age(b, e) /\ Age(a, e) \in Nat /\ Age(b, e) \in Nat
<1>1. e.time \in Nat
  BY DEF Entries
<1> QED
  BY <1>1 DEF Age

(* After a judgement by an instant, the queue holds what is recent at the
   later of that and of all before. *)
LEMMA KeepsRecent ==
  ASSUME CountInv, NEW t \in Turns, NEW k \in Tools, Judge(t, k), NEW calls,
         Keep(k, queued[t].time, calls)
  PROVE  \A j \in Tools : WindowCap[j] # Nothing =>
           /\ Recent(j, last'[j], history) \subseteq window'[j]
           /\ window'[j] \subseteq window[j] \cup (IF j = k THEN calls ELSE {})
<1> SUFFICES ASSUME NEW j \in Tools, WindowCap[j] # Nothing
             PROVE  /\ Recent(j, last'[j], history) \subseteq window'[j]
                    /\ window'[j] \subseteq window[j] \cup (IF j = k THEN calls ELSE {})
  OBVIOUS
<1> DEFINE instant == queued[t].time
<1>1. /\ instant \in Nat /\ last[k] \in Nat /\ last'[k] \in Nat
      /\ instant <= last'[k] /\ last[k] <= last'[k]
      /\ \A i \in Tools \ {k} : last'[i] = last[i]
  BY JudgeTyped DEF CountInv
<1> HIDE DEF instant
<1>2. Recent(j, last[j], history) \subseteq window[j]
  BY DEF CountInv, CountShape
<1>3. CASE j # k
  <2>1. window'[j] = window[j] /\ last'[j] = last[j]
    BY <1>1, <1>3 DEF CountInv, TypeOK, Keep
  <2> QED
    BY <1>2, <1>3, <2>1
<1>4. CASE j = k
  <2>1. window'[k] = Pruned(k, instant) \cup calls
    BY <1>4 DEF CountInv, TypeOK, Keep, instant
  <2>2. Pruned(k, instant) \subseteq window[k] /\ Recent(k, instant, window[k]) \subseteq Pruned(k, instant)
    BY <1>1, PrunedKeepsRecent
  <2>3. ASSUME NEW e \in Recent(k, last'[k], history)
        PROVE  e \in Recent(k, instant, window[k])
    <3>1. e \in history /\ e \in Entries /\ e.tool = k /\ Age(last'[k], e) < Window[k]
      BY DEF Recent, CountInv, TypeOK
    <3>2. Age(last[k], e) <= Age(last'[k], e) /\ Age(instant, e) <= Age(last'[k], e)
          /\ Age(last[k], e) \in Nat /\ Age(instant, e) \in Nat /\ Age(last'[k], e) \in Nat
      BY <1>1, <3>1, AgeGrows
    <3>3. Window[k] \in Nat
      BY TurnAssumption DEF TurnAssumption
    <3>4. Age(last[k], e) < Window[k] /\ Age(instant, e) < Window[k]
      BY <3>1, <3>2, <3>3
    <3>5. e \in window[k]
      BY <1>2, <1>4, <3>1, <3>4 DEF Recent
    <3> QED
      BY <3>1, <3>4, <3>5 DEF Recent
  <2> QED
    BY <1>4, <2>1, <2>2, <2>3
<1> QED
  BY <1>3, <1>4

(* A call that is admitted is a new one. *)
LEMMA CallIsNew ==
  ASSUME CountInv, NEW t \in Turns, NEW k \in Tools, NEW instant
  PROVE  Call(t, k, instant) \notin history
<1> SUFFICES ASSUME Call(t, k, instant) \in history PROVE FALSE
  OBVIOUS
<1>1. Call(t, k, instant).n < Cardinality(Since(k, history))
  BY DEF CountInv, CountShape, Call
<1>2. Call(t, k, instant).n = Cardinality(Since(k, history)) /\ Cardinality(Since(k, history)) \in Nat
  BY Sizes DEF Call, Since
<1> QED
  BY <1>1, <1>2

(* A fresh limiter has counted nothing. *)
LEMMA StartsCounted == ASSUME Init PROVE LimitInv
<1>1. /\ history = {} /\ fresh = {} /\ total = 0 /\ ~wronged
      /\ \A k \in Tools : perTool[k] = 0 /\ window[k] = {}
      /\ IsFiniteSet({}) /\ Cardinality({}) = 0
  BY FS_EmptySet DEF Init
<1>2. CountShape
  <2>1. \A k \in Tools : Since(k, fresh) = {} /\ Recent(k, last[k], history) = {}
    BY <1>1 DEF Since, Recent
  <2>2. \A t \in Turns : queued[t] = Nothing
    BY DEF Init
  <2> QED
    BY <1>1, <2>1, <2>2 DEF CountShape
<1>3. CapShape
  <2>1. \A t \in Turns : Mine(t, history) = {} /\ at[t] = "new"
    BY <1>1 DEF Mine, Init
  <2>2. \A k \in Tools : Since(k, fresh) = {}
    BY <1>1 DEF Since
  <2>3. /\ TotalCap # Nothing => Cardinality(fresh) <= TotalCap
        /\ \A k \in Tools : ToolCap[k] # Nothing => Cardinality(Since(k, fresh)) <= ToolCap[k]
    <3>1. Cardinality(fresh) = 0 /\ \A k \in Tools : Cardinality(Since(k, fresh)) = 0
      BY <1>1, <2>2, Zenon
    <3> QED
      BY <3>1, TurnAssumption DEF TurnAssumption, Caps
  <2> QED
    BY <2>1, <2>3 DEF CapShape
<1>4. WindowHolds
  <2> SUFFICES ASSUME NEW k \in Tools, NEW start \in 0 .. MaxTime, WindowCap[k] # Nothing
               PROVE  Cardinality({e \in Since(k, history) :
                                     ~e.overtaken /\ e.time \in start .. start + Window[k] - 1})
                        <= WindowCap[k]
    BY DEF WindowHolds
  <2>1. {e \in Since(k, history) : ~e.overtaken /\ e.time \in start .. start + Window[k] - 1} = {}
    BY <1>1 DEF Since
  <2>2. WindowCap[k] \in Nat
    BY TurnAssumption DEF TurnAssumption, Caps
  <2>3. Cardinality({e \in Since(k, history) :
                       ~e.overtaken /\ e.time \in start .. start + Window[k] - 1}) = 0
    BY <1>1, <2>1, Zenon
  <2> QED
    BY <2>2, <2>3
<1>5. TurnHolds
  <2>1. \A t \in Turns : Mine(t, history) = {} /\ crossed[t] = 0
    BY <1>1 DEF Init, Mine
  <2>2. \A k \in Tools : Since(k, {}) = {}
    BY DEF Since
  <2> SUFFICES ASSUME NEW t \in Turns
               PROVE  /\ TotalCap # Nothing =>
                           Cardinality(Mine(t, history)) <= TotalCap * (1 + crossed[t])
                      /\ \A k \in Tools : ToolCap[k] # Nothing =>
                           Cardinality(Since(k, Mine(t, history))) <= ToolCap[k] * (1 + crossed[t])
    BY DEF TurnHolds, Mine
  <2>3. /\ TotalCap # Nothing => TotalCap * (1 + crossed[t]) \in Nat
        /\ \A k \in Tools : ToolCap[k] # Nothing => ToolCap[k] * (1 + crossed[t]) \in Nat
    BY <2>1, TurnAssumption DEF TurnAssumption, Caps
  <2>4. Cardinality(Mine(t, history)) = 0
        /\ \A k \in Tools : Cardinality(Since(k, Mine(t, history))) = 0
    BY <1>1, <2>1, <2>2, Zenon
  <2> QED
    BY <2>3, <2>4
<1> QED
  BY <1>1, <1>2, <1>3, <1>4, <1>5, StartsTyped DEF LimitInv, CountInv, LimitsExact, RefusalEarned

(* The calls of a turn, as the cap of a turn counts them. *)
TurnWithin(t) ==
  /\ TotalCap # Nothing => Cardinality(Mine(t, history)) <= TotalCap * (1 + crossed[t])
  /\ \A k \in Tools : ToolCap[k] # Nothing =>
       Cardinality(Since(k, Mine(t, history))) <= ToolCap[k] * (1 + crossed[t])

InWindow(k, start, calls) ==
  {e \in Since(k, calls) : ~e.overtaken /\ e.time \in start .. start + Window[k] - 1}

(* The per-turn promise is one of every turn. *)
LEMMA TurnHoldsParts == TurnHolds <=> (setup.action = "deny" => \A t \in Turns : TurnWithin(t))
BY DEF TurnHolds, TurnWithin, Mine

(* The window's promise is one of every tool and moment. *)
LEMMA WindowHoldsParts ==
  WindowHolds <=> (setup.action = "deny" => \A k \in Tools, start \in 0 .. MaxTime :
                     WindowCap[k] # Nothing => Cardinality(InWindow(k, start, history)) <= WindowCap[k])
BY DEF WindowHolds, InWindow

(* The caps that there are, and the starts that a turn saw. *)
LEMMA CapsTyped ==
  ASSUME TypeOK
  PROVE  /\ TotalCap # Nothing => TotalCap \in Nat
         /\ \A k \in Tools : /\ ToolCap[k] # Nothing => ToolCap[k] \in Nat
                             /\ WindowCap[k] # Nothing => WindowCap[k] \in Nat
         /\ \A t \in Turns : crossed[t] \in Nat
BY TurnAssumption DEF TurnAssumption, Caps, TypeOK

(* Steps that admit nothing and start nothing keep the limits. *)
LEMMA LimitKept ==
  ASSUME LimitInv, TypeOK', ~wronged',
         UNCHANGED <<setup, perTool, total, history, crossed, fresh>>,
         \A k \in Tools : last'[k] >= last[k],
         \A k \in Tools : WindowCap[k] # Nothing =>
           window'[k] \subseteq window[k] /\ Recent(k, last'[k], history) \subseteq window'[k],
         \A t \in Turns : queued'[t] # Nothing => at'[t] = "run",
         \A t \in Turns : \/ at'[t] = at[t]
                          \/ at[t] \in {"new", "load"} /\ at'[t] \in {"load", "begin"}
                          \/ at[t] = "run" /\ at'[t] = "over"
  PROVE  LimitInv'
<1>1. CountShape'
  <2>1. \A e \in history : e.time \in Int /\ e.tool \in Tools
    BY DEF LimitInv, CountInv, TypeOK, Entries
  <2>2. \A k \in Tools : last[k] \in Int /\ last'[k] \in Int
    BY DEF LimitInv, CountInv, TypeOK
  <2>3. \A e \in history : e.time <= last'[e.tool]
    <3> SUFFICES ASSUME NEW e \in history PROVE e.time <= last'[e.tool]
      OBVIOUS
    <3>1. e.time <= last[e.tool] /\ last[e.tool] <= last'[e.tool]
      BY <2>1 DEF LimitInv, CountInv, CountShape
    <3> QED
      BY <2>1, <2>2, <3>1
  <2> QED
    BY <2>3 DEF LimitInv, CountInv, CountShape, Since, Recent
<1>2. CapShape'
  BY DEF LimitInv, CapShape, Mine, Since
<1>3. WindowHolds' /\ TurnHolds' /\ RefusalEarned'
  BY DEF LimitInv, LimitsExact, WindowHolds, TurnHolds, RefusalEarned, Since
<1> QED
  BY <1>1, <1>2, <1>3 DEF LimitInv, CountInv, LimitsExact

(* The pool's steps and requests call no tool: the counts stay right. *)
LEMMA TurnStepsLimit ==
  ASSUME LimitInv, PoolInv, NEW t \in Turns,
         Checkout(t) \/ Load(t) \/ LoadFails(t) \/ Request(t) \/ Finish(t)
  PROVE  LimitInv'
<1>1. TypeOK'
  BY PoolStepsTyped DEF PoolInv, PoolShape
<1>2. UNCHANGED <<setup, queued, perTool, total, window, history, last, crossed, fresh, wronged>>
  BY DEF Checkout, Load, LoadFails, Request, Finish, limiter, ghosts
<1>3. \A u \in Turns : \/ at'[u] = at[u]
                       \/ at[u] \in {"new", "load"} /\ at'[u] \in {"load", "begin"}
                       \/ at[u] = "run" /\ at'[u] = "over" /\ queued[u] = Nothing
  BY DEF PoolInv, TypeOK, Checkout, Load, LoadFails, Request, Finish, InTurn
<1>4. \A k \in Tools : WindowCap[k] # Nothing =>
        window'[k] \subseteq window[k] /\ Recent(k, last'[k], history) \subseteq window'[k]
  BY <1>2 DEF LimitInv, CountInv, CountShape
<1>5. ~wronged' /\ \A k \in Tools : last'[k] >= last[k]
  BY <1>2 DEF LimitInv, CountInv, TypeOK, LimitsExact, RefusalEarned
<1>6. \A u \in Turns : queued'[u] # Nothing => at'[u] = "run"
  BY <1>2, <1>3 DEF LimitInv, CountInv, CountShape
<1> QED
  BY <1>1, <1>2, <1>3, <1>4, <1>5, <1>6, LimitKept

(* Time alone prunes and counts nothing; nor does a look at the clock. *)
LEMMA ClockLimit ==
  ASSUME LimitInv, Tick \/ \E t \in Turns, k \in Tools : ReadClock(t, k)
  PROVE  LimitInv'
<1>1. TypeOK'
  BY TickTyped, LimiterStepsTyped DEF LimitInv, CountInv, CountShape
<1>2. UNCHANGED <<setup, perTool, total, window, at, history, last, crossed, fresh, wronged>>
  BY DEF Tick, ReadClock, limiter, ghosts
<1>3. \A k \in Tools : WindowCap[k] # Nothing =>
        window'[k] \subseteq window[k] /\ Recent(k, last'[k], history) \subseteq window'[k]
  BY <1>2 DEF LimitInv, CountInv, CountShape
<1>4. ~wronged' /\ \A k \in Tools : last'[k] >= last[k]
  BY <1>2 DEF LimitInv, CountInv, TypeOK, LimitsExact, RefusalEarned
<1>5. \A u \in Turns : queued'[u] # Nothing => at'[u] = "run"
  BY <1>2 DEF LimitInv, CountInv, TypeOK, CountShape, Tick, ReadClock, InTurn, limiter
<1> QED
  BY <1>1, <1>2, <1>3, <1>4, <1>5, LimitKept

(* The limiter refuses when its counts have reached a limit, and so have the calls. *)
LEMMA RefuseLimit ==
  ASSUME LimitInv, NEW t \in Turns, NEW k \in Tools, Refuse(t, k)
  PROVE  LimitInv'
<1> DEFINE instant == queued[t].time
<1>1. TypeOK'
  BY LimiterStepsTyped DEF LimitInv, CountInv, CountShape
<1>2. /\ Judge(t, k) /\ Keep(k, instant, {})
      /\ UNCHANGED <<setup, perTool, total, at, history, crossed, fresh>>
  BY DEF Refuse, Judge
<1>3. /\ instant \in Nat /\ last'[k] \in Nat /\ last[k] <= last'[k]
      /\ \A j \in Tools \ {k} : last'[j] = last[j]
  BY <1>2, JudgeTyped DEF LimitInv, CountInv
<1>4. Exceeded(k, instant)
  BY DEF Refuse
<1>5. wronged' = (wronged \/ ~ \/ Reached(TotalCap, Cardinality(fresh))
                               \/ Reached(ToolCap[k], Cardinality(Since(k, fresh)))
                               \/ Reached(WindowCap[k], Cardinality(Recent(k, instant, history))))
  BY DEF Refuse
<1> HIDE DEF instant
<1>6. ~wronged'
  <2>1. CASE Reached(TotalCap, total) \/ Reached(ToolCap[k], perTool[k])
    BY <1>5, <2>1 DEF LimitInv, CountInv, CountShape, LimitsExact, RefusalEarned
  <2>2. CASE Reached(WindowCap[k], Cardinality(Recent(k, instant, Pruned(k, instant))))
    <3>1. WindowCap[k] # Nothing /\ WindowCap[k] \in Nat
      BY <2>2, CapsTyped DEF Reached, LimitInv, CountInv
    <3>2. Recent(k, instant, Pruned(k, instant)) = Recent(k, instant, window[k])
      BY <1>3, PrunedKeepsRecent DEF LimitInv
    <3>3. window[k] \subseteq history
      BY <3>1 DEF LimitInv, CountInv, CountShape, Since
    <3>4. Recent(k, instant, window[k]) \in SUBSET Recent(k, instant, history)
          /\ Recent(k, instant, history) \in SUBSET history
      BY <3>3 DEF Recent
    <3>5. Cardinality(Recent(k, instant, window[k])) <= Cardinality(Recent(k, instant, history))
          /\ Cardinality(Recent(k, instant, window[k])) \in Nat
          /\ Cardinality(Recent(k, instant, history)) \in Nat
      BY <3>4, Sizes DEF LimitInv
    <3>6. Cardinality(Recent(k, instant, window[k])) >= WindowCap[k]
      BY <2>2, <3>2 DEF Reached
    <3>7. Reached(WindowCap[k], Cardinality(Recent(k, instant, history)))
      BY <3>1, <3>5, <3>6 DEF Reached
    <3> QED
      BY <1>5, <3>7 DEF LimitInv, LimitsExact, RefusalEarned
  <2> QED
    BY <1>4, <2>1, <2>2 DEF Exceeded
<1>7. \A j \in Tools : WindowCap[j] # Nothing =>
        window'[j] \subseteq window[j] /\ Recent(j, last'[j], history) \subseteq window'[j]
  BY <1>2, KeepsRecent DEF LimitInv, instant
<1>8. \A j \in Tools : last'[j] >= last[j]
  BY <1>3, <1>1 DEF LimitInv, CountInv, TypeOK
<1>9. \A u \in Turns : queued'[u] # Nothing => at'[u] = "run"
  BY <1>2 DEF LimitInv, CountInv, TypeOK, CountShape, Judge
<1> QED
  BY <1>1, <1>2, <1>6, <1>7, <1>8, <1>9, LimitKept

(* A cap taken once more for every start. *)
LEMMA Product ==
  ASSUME NEW c \in Nat, NEW n \in Nat
  PROVE  c * n \in Nat /\ c * (1 + n) = c * n + c /\ c * (1 + n) <= c * (1 + (n + 1))
OBVIOUS

(* What a running turn called is within its cap and one more for each start. *)
LEMMA RunningWithin ==
  ASSUME CountInv, CapShape, setup.action = "deny", NEW t \in Turns, at[t] = "run"
  PROVE  TurnWithin(t)
<1>1. crossed[t] \in Nat
  BY CapsTyped DEF CountInv
<1>2. fresh \subseteq history
  BY DEF CountInv, TypeOK
<1>3. ASSUME TotalCap # Nothing
      PROVE  Cardinality(Mine(t, history)) <= TotalCap * (1 + crossed[t])
  <2>0. TotalCap \in Nat
    BY <1>3, CapsTyped DEF CountInv
  <2>1. Cardinality(Mine(t, fresh)) <= TotalCap
    <3>1. Mine(t, fresh) \in SUBSET fresh
      BY DEF Mine
    <3>2. Cardinality(Mine(t, fresh)) <= Cardinality(fresh)
          /\ Cardinality(Mine(t, fresh)) \in Nat /\ Cardinality(fresh) \in Nat
      BY <1>2, <3>1, Sizes
    <3> QED
      BY <1>3, <2>0, <3>2 DEF CapShape
  <2>2. Cardinality(Mine(t, fresh)) \in Nat /\ Cardinality(Mine(t, history)) \in Nat
    BY <1>2, Sizes DEF Mine
  <2>3. Cardinality(Mine(t, history)) <= TotalCap * crossed[t] + Cardinality(Mine(t, fresh))
    BY <1>3 DEF CapShape
  <2>4. TotalCap * (1 + crossed[t]) = TotalCap * crossed[t] + TotalCap /\ TotalCap * crossed[t] \in Nat
    BY <1>1, <2>0, Product
  <2> QED
    BY <2>0, <2>1, <2>2, <2>3, <2>4
<1>4. ASSUME NEW k \in Tools, ToolCap[k] # Nothing
      PROVE  Cardinality(Since(k, Mine(t, history))) <= ToolCap[k] * (1 + crossed[t])
  <2>0. ToolCap[k] \in Nat
    BY <1>4, CapsTyped DEF CountInv
  <2>1. Cardinality(Since(k, Mine(t, fresh))) <= ToolCap[k]
    <3>1. Since(k, Mine(t, fresh)) \in SUBSET Since(k, fresh) /\ Since(k, fresh) \in SUBSET history
      BY <1>2 DEF Mine, Since
    <3>2. Cardinality(Since(k, Mine(t, fresh))) <= Cardinality(Since(k, fresh))
          /\ Cardinality(Since(k, Mine(t, fresh))) \in Nat /\ Cardinality(Since(k, fresh)) \in Nat
      BY <3>1, Sizes
    <3> QED
      BY <1>4, <2>0, <3>2 DEF CapShape
  <2>2. Cardinality(Since(k, Mine(t, fresh))) \in Nat /\ Cardinality(Since(k, Mine(t, history))) \in Nat
    <3>1. Since(k, Mine(t, fresh)) \in SUBSET history /\ Since(k, Mine(t, history)) \in SUBSET history
      BY <1>2 DEF Mine, Since
    <3> QED
      BY <3>1, Sizes
  <2>3. Cardinality(Since(k, Mine(t, history)))
          <= ToolCap[k] * crossed[t] + Cardinality(Since(k, Mine(t, fresh)))
    BY <1>4 DEF CapShape
  <2>4. ToolCap[k] * (1 + crossed[t]) = ToolCap[k] * crossed[t] + ToolCap[k]
        /\ ToolCap[k] * crossed[t] \in Nat
    BY <1>1, <2>0, Product
  <2> QED
    BY <2>0, <2>1, <2>2, <2>3, <2>4
<1> QED
  BY <1>3, <1>4 DEF TurnWithin

RunningTurnsWithin == \A t \in Turns : at[t] = "run" => TurnWithin(t)

(* What is counted after a step bounds what a turn has called. *)
LEMMA NextWithin ==
  (CountInv /\ CapShape /\ setup.action = "deny")' => RunningTurnsWithin'
<1>1. CountInv /\ CapShape /\ setup.action = "deny" => RunningTurnsWithin
  BY RunningWithin DEF RunningTurnsWithin
<1> QED
  BY <1>1, PTL

(* A start clears the counts of all: each running turn gets its cap again. *)
LEMMA StartLimit ==
  ASSUME LimitInv, NEW t \in Turns, Start(t)
  PROVE  LimitInv'
<1>1. TypeOK'
  BY PoolStepsTyped DEF LimitInv, CountInv, Start, UnderWay
<1>2. /\ UNCHANGED <<setup, queued, window, history, last, wronged>>
      /\ total' = 0 /\ fresh' = {} /\ \A k \in Tools : perTool'[k] = 0
      /\ at[t] = "begin" /\ at'[t] = "run" /\ \A u \in Turns \ {t} : at'[u] = at[u]
      /\ \A u \in Turns : crossed'[u] = IF at[u] = "run" THEN crossed[u] + 1 ELSE crossed[u]
  BY DEF LimitInv, CountInv, TypeOK, Start, Reset
<1>3. \A k \in Tools : Since(k, {}) = {}
  BY DEF Since
<1>4. Cardinality({}) = 0
  BY FS_EmptySet
<1>5. \A k \in Tools : Cardinality(Since(k, fresh')) = 0
  BY <1>2, <1>3, <1>4, Zenon
<1>6. CountShape'
  BY <1>2, <1>4, <1>5 DEF LimitInv, CountInv, CountShape, Since, Recent
<1>7. \A u \in Turns : crossed[u] \in Nat
  BY CapsTyped DEF LimitInv, CountInv
<1>8. \A u \in Turns : Mine(u, fresh') = {} /\ \A k \in Tools : Since(k, Mine(u, fresh')) = {}
  BY <1>2 DEF Mine, Since
<1>c. TotalCap # Nothing => TotalCap \in Nat
  BY CapsTyped DEF LimitInv, CountInv
<1>d. \A k \in Tools : ToolCap[k] # Nothing => ToolCap[k] \in Nat
  BY CapsTyped DEF LimitInv, CountInv
<1>e. \A S \in SUBSET history : Cardinality(S) \in Nat
  BY Sizes DEF LimitInv
<1>f. \A u \in Turns : /\ Mine(u, history) \in SUBSET history
                      /\ \A k \in Tools : Since(k, Mine(u, history)) \in SUBSET history
  BY DEF Mine, Since
<1>9. CapShape'
  <2> SUFFICES ASSUME setup.action = "deny" PROVE CapShape'
    BY <1>2 DEF CapShape
  <2>1. /\ TotalCap # Nothing => Cardinality(fresh') <= TotalCap
        /\ \A k \in Tools : ToolCap[k] # Nothing => Cardinality(Since(k, fresh')) <= ToolCap[k]
    BY <1>2, <1>4, <1>5, <1>c, <1>d
  <2>2. ASSUME NEW u \in Turns, at'[u] = "run"
        PROVE  /\ TotalCap # Nothing =>
                    Cardinality(Mine(u, history)) <= TotalCap * crossed'[u] + Cardinality(Mine(u, fresh'))
               /\ \A k \in Tools : ToolCap[k] # Nothing =>
                    Cardinality(Since(k, Mine(u, history)))
                      <= ToolCap[k] * crossed'[u] + Cardinality(Since(k, Mine(u, fresh')))
    <3>1. Cardinality(Mine(u, fresh')) = 0 /\ \A k \in Tools : Cardinality(Since(k, Mine(u, fresh'))) = 0
      BY <1>4, <1>8, Zenon
    <3>2. CASE u = t
      <4>1. Mine(t, history) = {}
        BY <1>2 DEF LimitInv, CapShape
      <4>2. Cardinality(Mine(t, history)) = 0
            /\ \A k \in Tools : Cardinality(Since(k, Mine(t, history))) = 0
        BY <1>3, <1>4, <4>1, Zenon
      <4>3. TotalCap # Nothing => TotalCap * crossed'[t] \in Nat
        BY <1>2, <1>7, <1>c, Product
      <4>4. \A k \in Tools : ToolCap[k] # Nothing => ToolCap[k] * crossed'[t] \in Nat
        BY <1>2, <1>7, <1>d, Product
      <4> QED
        BY <3>1, <3>2, <4>2, <4>3, <4>4
    <3>3. CASE u # t
      <4>1. at[u] = "run" /\ crossed'[u] = crossed[u] + 1
        BY <1>2, <2>2, <3>3
      <4>2. TurnWithin(u)
        BY <4>1, RunningWithin DEF LimitInv
      <4>3. TotalCap # Nothing => TotalCap * crossed'[u] = TotalCap * (1 + crossed[u])
                                  /\ TotalCap * crossed'[u] \in Nat
        BY <1>7, <1>c, <4>1, Product
      <4>4. \A k \in Tools : ToolCap[k] # Nothing =>
              ToolCap[k] * crossed'[u] = ToolCap[k] * (1 + crossed[u]) /\ ToolCap[k] * crossed'[u] \in Nat
        BY <1>7, <1>d, <4>1, Product
      <4> QED
        BY <1>e, <1>f, <3>1, <4>2, <4>3, <4>4 DEF TurnWithin
    <3> QED
      BY <3>2, <3>3
  <2>3. \A u \in Turns : at'[u] \in {"new", "load", "begin"} => Mine(u, history) = {}
    BY <1>2 DEF LimitInv, CapShape
  <2> QED
    BY <1>2, <2>1, <2>2, <2>3 DEF CapShape
<1>10. WindowHolds' /\ RefusalEarned'
  BY <1>2 DEF LimitInv, LimitsExact, WindowHolds, RefusalEarned, Since
<1>11. TurnHolds'
  <2> SUFFICES ASSUME setup.action = "deny", NEW u \in Turns PROVE TurnWithin(u)'
    BY <1>2, TurnHoldsParts DEF TurnHolds, TurnWithin, Mine
  <2>1. TurnWithin(u)
    BY TurnHoldsParts DEF LimitInv, LimitsExact
  <2>2. ASSUME TotalCap # Nothing
        PROVE  Cardinality(Mine(u, history)) <= TotalCap * (1 + crossed'[u])
    <3>1. TotalCap * (1 + crossed[u]) <= TotalCap * (1 + crossed'[u])
          /\ TotalCap * (1 + crossed[u]) \in Int /\ TotalCap * (1 + crossed'[u]) \in Int
      BY <1>2, <1>7, <1>c, <2>2, Product
    <3> QED
      BY <1>e, <1>f, <2>1, <2>2, <3>1 DEF TurnWithin
  <2>3. ASSUME NEW k \in Tools, ToolCap[k] # Nothing
        PROVE  Cardinality(Since(k, Mine(u, history))) <= ToolCap[k] * (1 + crossed'[u])
    <3>1. ToolCap[k] * (1 + crossed[u]) <= ToolCap[k] * (1 + crossed'[u])
          /\ ToolCap[k] * (1 + crossed[u]) \in Int /\ ToolCap[k] * (1 + crossed'[u]) \in Int
      BY <1>2, <1>7, <1>d, <2>3, Product
    <3> QED
      BY <1>e, <1>f, <2>1, <2>3, <3>1 DEF TurnWithin
  <2> QED
    BY <1>2, <2>2, <2>3 DEF TurnWithin, Mine, Since
<1> QED
  BY <1>1, <1>6, <1>9, <1>10, <1>11 DEF LimitInv, CountInv, LimitsExact

(* What an admitted call adds: one call, counted once wherever it counts. *)
LEMMA AdmitCounts ==
  ASSUME CountInv, NEW t \in Turns, NEW k \in Tools, Admit(t, k)
  PROVE  CountInv'
<1> DEFINE instant == queued[t].time
           e == Call(t, k, instant)
<1>1. TypeOK'
  BY LimiterStepsTyped DEF CountInv, CountShape
<1>2. /\ Judge(t, k) /\ Keep(k, instant, {e}) /\ UNCHANGED <<at, crossed>>
      /\ perTool' = [perTool EXCEPT ![k] = @ + 1] /\ total' = total + 1
      /\ history' = history \cup {e} /\ fresh' = fresh \cup {e}
  BY DEF Admit, Judge
<1>3. e \notin history /\ e \notin fresh
  BY CallIsNew DEF CountInv, TypeOK
<1>4. e.n = Cardinality(Since(k, history)) /\ e.tool = k /\ e.time = instant
  BY DEF Call
<1>5. /\ instant \in Nat /\ last'[k] \in Nat /\ last[k] \in Nat /\ instant <= last'[k] /\ last[k] <= last'[k]
      /\ \A j \in Tools \ {k} : last'[j] = last[j]
  BY <1>2, JudgeTyped DEF CountInv
<1>6. \A j \in Tools : WindowCap[j] # Nothing =>
        /\ Recent(j, last'[j], history) \subseteq window'[j]
        /\ window'[j] \subseteq window[j] \cup (IF j = k THEN {e} ELSE {})
  BY <1>2, KeepsRecent
<1>7. WindowCap[k] # Nothing => e \in window'[k]
  BY <1>2 DEF CountInv, TypeOK, Keep
<1> HIDE DEF e, instant
<1>8. IsFiniteSet(history')
  BY <1>2, <1>3, OneMore DEF CountInv, CountShape
<1>9. \A u \in Turns : queued'[u] # Nothing => at'[u] = "run"
  BY <1>2 DEF CountInv, TypeOK, CountShape, Judge
<1>10. ASSUME NEW f \in history'
       PROVE  f.n < Cardinality(Since(f.tool, history')) /\ f.time <= last'[f.tool]
  <2> DEFINE old == Since(f.tool, history)
             new == Since(f.tool, history')
  <2>1. old \subseteq new /\ old \in SUBSET history /\ IsFiniteSet(new)
    BY <1>2, <1>8, FS_Subset DEF Since
  <2>2. Cardinality(old) \in Nat /\ Cardinality(new) \in Nat /\ Cardinality(old) <= Cardinality(new)
    BY <2>1, FS_Subset, FS_CardinalityType, Sizes
  <2>3. CASE f \in history
    <3>1. f.n < Cardinality(old) /\ f.n \in Nat /\ f.time \in Nat /\ f.tool \in Tools
          /\ f.time <= last[f.tool] /\ last[f.tool] \in Int
      BY <2>3 DEF CountInv, CountShape, TypeOK, Entries
    <3>2. f.time <= last'[f.tool]
      BY <1>5, <3>1
    <3> QED
      BY <2>2, <3>1, <3>2
  <2>4. CASE f = e
    <3>1. new = old \cup {e} /\ e \notin old
      BY <1>2, <1>3, <2>4 DEF Since
    <3>2. Cardinality(new) = Cardinality(old) + 1
      BY <2>1, <3>1, OneMore, Sizes
    <3>3. f.n = Cardinality(old) /\ f.time <= last'[f.tool]
      BY <1>4, <1>5, <2>4
    <3> QED
      BY <2>2, <3>2, <3>3
  <2> QED
    BY <1>2, <2>3, <2>4
<1>11. total' = Cardinality(fresh')
  <2>1. IsFiniteSet(fresh)
    BY Sizes DEF CountInv, TypeOK
  <2> QED
    BY <1>2, <1>3, <2>1, OneMore DEF CountInv, CountShape
<1>12. ASSUME NEW j \in Tools PROVE perTool'[j] = Cardinality(Since(j, fresh'))
  <2>1. IsFiniteSet(Since(j, fresh)) /\ e \notin Since(j, fresh)
    <3>1. Since(j, fresh) \in SUBSET history
      BY DEF Since, CountInv, TypeOK
    <3> QED
      BY <1>3, <3>1, Sizes
  <2>2. CASE j = k
    <3>1. Since(k, fresh') = Since(k, fresh) \cup {e}
      BY <1>2, <1>4 DEF Since
    <3>2. Cardinality(Since(k, fresh) \cup {e}) = Cardinality(Since(k, fresh)) + 1
      BY <2>1, <2>2, OneMore
    <3> QED
      BY <1>2, <2>2, <3>1, <3>2 DEF CountInv, CountShape, TypeOK
  <2>3. CASE j # k
    <3>1. Since(j, fresh') = Since(j, fresh)
      BY <1>2, <1>4, <2>3 DEF Since
    <3> QED
      BY <1>2, <2>3, <3>1 DEF CountInv, CountShape, TypeOK
  <2> QED
    BY <2>2, <2>3
<1>13. ASSUME NEW j \in Tools, WindowCap[j] # Nothing
       PROVE  window'[j] \subseteq Since(j, history') /\ Recent(j, last'[j], history') \subseteq window'[j]
  <2>1. window[j] \subseteq Since(j, history)
    BY <1>13 DEF CountInv, CountShape
  <2>2. window'[j] \subseteq Since(j, history')
    BY <1>2, <1>4, <1>6, <1>13, <2>1 DEF Since
  <2>3. Recent(j, last'[j], history') \subseteq Recent(j, last'[j], history) \cup {f \in {e} : f.tool = j}
    BY <1>2 DEF Recent
  <2> QED
    BY <1>4, <1>6, <1>7, <1>13, <2>2, <2>3
<1>14. CountShape'
  BY <1>8, <1>9, <1>10, <1>11, <1>12, <1>13 DEF CountShape, Since, Recent, Age
<1> QED
  BY <1>1, <1>14 DEF CountInv

(* Under deny, a call is admitted only below each limit. *)
LEMMA AdmitCaps ==
  ASSUME LimitInv, NEW t \in Turns, NEW k \in Tools, Admit(t, k)
  PROVE  CapShape'
<1> SUFFICES ASSUME setup.action = "deny" PROVE CapShape'
  BY DEF CapShape, Admit, Judge
<1> DEFINE instant == queued[t].time
           e == Call(t, k, instant)
<1>1. /\ UNCHANGED <<setup, at, crossed>> /\ at[t] = "run" /\ ~Exceeded(k, instant)
      /\ history' = history \cup {e} /\ fresh' = fresh \cup {e}
  BY DEF Admit, Judge, LimitInv, CountInv, CountShape
<1>2. e \notin history /\ e \notin fresh /\ e.turn = t /\ e.tool = k
  BY CallIsNew DEF LimitInv, CountInv, TypeOK, Call
<1> HIDE DEF e, instant
<1>3. fresh \subseteq history
  BY DEF LimitInv, CountInv, TypeOK
<1>4. /\ TotalCap # Nothing => TotalCap \in Nat
      /\ \A j \in Tools : ToolCap[j] # Nothing => ToolCap[j] \in Nat
      /\ \A u \in Turns : crossed[u] \in Nat
  BY CapsTyped DEF LimitInv, CountInv
<1>g. \A S \in SUBSET history : IsFiniteSet(S) /\ Cardinality(S) \in Nat
                                /\ Cardinality(S \cup {e}) = Cardinality(S) + 1
  BY <1>2, Sizes, OneMore DEF LimitInv
<1>5. /\ TotalCap # Nothing => Cardinality(fresh) < TotalCap
      /\ ToolCap[k] # Nothing => Cardinality(Since(k, fresh)) < ToolCap[k]
  <2>1. fresh \in SUBSET history /\ Since(k, fresh) \in SUBSET history
    BY <1>3 DEF Since
  <2>2. total = Cardinality(fresh) /\ perTool[k] = Cardinality(Since(k, fresh))
    BY DEF LimitInv, CountInv, CountShape
  <2>3. ~Reached(TotalCap, total) /\ ~Reached(ToolCap[k], perTool[k])
    BY <1>1 DEF Exceeded
  <2> QED
    <3>1. Cardinality(fresh) \in Nat /\ Cardinality(Since(k, fresh)) \in Nat
      BY <1>g, <2>1
    <3> QED
      BY <1>4, <2>2, <2>3, <3>1 DEF Reached
<1>6. TotalCap # Nothing => Cardinality(fresh') <= TotalCap
  <2>1. Cardinality(fresh) \in Nat /\ Cardinality(fresh') = Cardinality(fresh) + 1
    BY <1>1, <1>3, <1>g
  <2> QED
    BY <1>4, <1>5, <2>1
<1>7. ASSUME NEW j \in Tools, ToolCap[j] # Nothing PROVE Cardinality(Since(j, fresh')) <= ToolCap[j]
  <2>1. Since(j, fresh) \in SUBSET history
    BY <1>3 DEF Since
  <2>2. CASE j = k
    <3>1. Since(k, fresh') = Since(k, fresh) \cup {e}
      BY <1>1, <1>2 DEF Since
    <3>2. Cardinality(Since(k, fresh)) \in Nat
          /\ Cardinality(Since(k, fresh')) = Cardinality(Since(k, fresh)) + 1
      BY <1>g, <2>1, <2>2, <3>1
    <3> QED
      BY <1>4, <1>5, <1>7, <2>2, <3>2
  <2>3. CASE j # k
    <3>1. Since(j, fresh') = Since(j, fresh)
      BY <1>1, <1>2, <2>3 DEF Since
    <3> QED
      BY <1>7, <3>1 DEF LimitInv, CapShape
  <2> QED
    BY <2>2, <2>3
<1>8. \A u \in Turns : at[u] \in {"new", "load", "begin"} => Mine(u, history') = {}
  BY <1>1, <1>2 DEF LimitInv, CapShape, Mine
<1>9. ASSUME NEW u \in Turns, at[u] = "run"
      PROVE  /\ TotalCap # Nothing =>
                  Cardinality(Mine(u, history')) <= TotalCap * crossed[u] + Cardinality(Mine(u, fresh'))
             /\ \A j \in Tools : ToolCap[j] # Nothing =>
                  Cardinality(Since(j, Mine(u, history')))
                    <= ToolCap[j] * crossed[u] + Cardinality(Since(j, Mine(u, fresh')))
  <2>1. /\ TotalCap # Nothing =>
             Cardinality(Mine(u, history)) <= TotalCap * crossed[u] + Cardinality(Mine(u, fresh))
        /\ \A j \in Tools : ToolCap[j] # Nothing =>
             Cardinality(Since(j, Mine(u, history)))
               <= ToolCap[j] * crossed[u] + Cardinality(Since(j, Mine(u, fresh)))
    BY <1>9 DEF LimitInv, CapShape
  <2>2. /\ TotalCap # Nothing => TotalCap * crossed[u] \in Nat
        /\ \A j \in Tools : ToolCap[j] # Nothing => ToolCap[j] * crossed[u] \in Nat
    BY <1>4, Product
  <2>3. /\ Mine(u, history) \in SUBSET history /\ Mine(u, fresh) \in SUBSET history
        /\ \A j \in Tools : /\ Since(j, Mine(u, history)) \in SUBSET history
                            /\ Since(j, Mine(u, fresh)) \in SUBSET history
    BY <1>3 DEF Mine, Since
  <2>5. CASE u = t
    <3>1. Mine(u, history') = Mine(u, history) \cup {e} /\ Mine(u, fresh') = Mine(u, fresh) \cup {e}
      BY <1>1, <1>2, <2>5 DEF Mine
    <3>2. TotalCap # Nothing =>
            Cardinality(Mine(u, history')) <= TotalCap * crossed[u] + Cardinality(Mine(u, fresh'))
      <4>1. /\ Cardinality(Mine(u, history')) = Cardinality(Mine(u, history)) + 1
            /\ Cardinality(Mine(u, fresh')) = Cardinality(Mine(u, fresh)) + 1
            /\ Cardinality(Mine(u, history)) \in Nat /\ Cardinality(Mine(u, fresh)) \in Nat
        BY <1>g, <2>3, <3>1
      <4> QED
        BY <2>1, <2>2, <4>1
    <3>3. ASSUME NEW j \in Tools, ToolCap[j] # Nothing
          PROVE  Cardinality(Since(j, Mine(u, history')))
                   <= ToolCap[j] * crossed[u] + Cardinality(Since(j, Mine(u, fresh')))
      <4>1. CASE j = k
        <5>1. /\ Since(j, Mine(u, history')) = Since(j, Mine(u, history)) \cup {e}
              /\ Since(j, Mine(u, fresh')) = Since(j, Mine(u, fresh)) \cup {e}
          BY <1>2, <3>1, <4>1 DEF Since
        <5>2. /\ Cardinality(Since(j, Mine(u, history'))) = Cardinality(Since(j, Mine(u, history))) + 1
              /\ Cardinality(Since(j, Mine(u, fresh'))) = Cardinality(Since(j, Mine(u, fresh))) + 1
              /\ Cardinality(Since(j, Mine(u, history))) \in Nat /\ Cardinality(Since(j, Mine(u, fresh))) \in Nat
          BY <1>g, <2>3, <5>1
        <5> QED
          BY <2>1, <2>2, <3>3, <5>2
      <4>2. CASE j # k
        <5>1. /\ Since(j, Mine(u, history')) = Since(j, Mine(u, history))
              /\ Since(j, Mine(u, fresh')) = Since(j, Mine(u, fresh))
          BY <1>2, <3>1, <4>2 DEF Since
        <5> QED
          BY <2>1, <3>3, <5>1
      <4> QED
        BY <4>1, <4>2
    <3> QED
      BY <3>2, <3>3
  <2>6. CASE u # t
    <3>1. Mine(u, history') = Mine(u, history) /\ Mine(u, fresh') = Mine(u, fresh)
      BY <1>1, <1>2, <2>6 DEF Mine
    <3> QED
      BY <2>1, <3>1
  <2> QED
    BY <2>5, <2>6
<1> QED
  BY <1>1, <1>6, <1>7, <1>8, <1>9 DEF CapShape, Mine, Since

(* A call that is judged in order sees in the queue all that its window holds,
   and that is less than the cap. *)
LEMMA AdmitWindows ==
  ASSUME LimitInv, NEW t \in Turns, NEW k \in Tools, Admit(t, k)
  PROVE  WindowHolds'
<1> SUFFICES ASSUME setup.action = "deny", NEW j \in Tools, NEW start \in 0 .. MaxTime,
                    WindowCap[j] # Nothing
             PROVE  Cardinality(InWindow(j, start, history')) <= WindowCap[j]
  BY DEF WindowHolds, InWindow, Admit, Judge
<1> DEFINE instant == queued[t].time
           e == Call(t, k, instant)
<1>1. history' = history \cup {e} /\ ~Exceeded(k, instant)
  BY DEF Admit
<1>2. e \notin history /\ e.tool = k /\ e.time = instant /\ e.overtaken = (instant < last[k])
  BY CallIsNew DEF LimitInv, Call
<1>3. instant \in Nat /\ last[k] \in Nat
  BY JudgeTyped DEF LimitInv, CountInv, Admit
<1> HIDE DEF e, instant
<1>4. Cardinality(InWindow(j, start, history)) <= WindowCap[j]
  BY WindowHoldsParts DEF LimitInv, LimitsExact
<1>5. CASE e \notin InWindow(j, start, history')
  <2>1. InWindow(j, start, history') = InWindow(j, start, history)
    BY <1>1, <1>5 DEF InWindow, Since
  <2> QED
    BY <1>4, <2>1
<1>6. CASE e \in InWindow(j, start, history')
  <2> DEFINE kept == Recent(k, instant, Pruned(k, instant))
  <2>1. j = k /\ instant >= last[k] /\ instant \in start .. start + Window[k] - 1
    <3>1. j = k /\ ~e.overtaken /\ instant \in start .. start + Window[k] - 1
      BY <1>2, <1>6 DEF InWindow, Since
    <3>2. ~(instant < last[k])
      BY <1>2, <3>1, Zenon
    <3> QED
      BY <1>3, <3>1, <3>2
  <2>2. window[k] \subseteq history /\ kept = Recent(k, instant, window[k])
    BY <1>3, <2>1, PrunedKeepsRecent DEF LimitInv, CountInv, CountShape, Since
  <2>3. InWindow(k, start, history) \subseteq kept
    <3> SUFFICES ASSUME NEW f \in InWindow(k, start, history) PROVE f \in kept
      OBVIOUS
    <3>1. f \in history /\ f.tool = k /\ f.time \in start .. start + Window[k] - 1
      BY DEF InWindow, Since
    <3>2. f.time \in Nat /\ f.time <= last[k]
      BY <3>1 DEF LimitInv, CountInv, CountShape, TypeOK, Entries
    <3>3. start \in Int /\ Window[k] \in Nat
      BY TurnAssumption DEF TurnAssumption
    <3>4. Age(instant, f) < Window[k] /\ Age(last[k], f) < Window[k]
      BY <1>3, <2>1, <3>1, <3>2, <3>3 DEF Age
    <3>5. f \in window[k]
      BY <2>1, <3>1, <3>4 DEF LimitInv, CountInv, CountShape, Recent
    <3> QED
      BY <2>2, <3>1, <3>4, <3>5 DEF Recent
  <2>4. IsFiniteSet(kept) /\ Cardinality(kept) \in Nat /\ e \notin kept
    <3>1. kept \in SUBSET history
      BY <2>2 DEF Recent
    <3> QED
      BY <1>2, <3>1, Sizes DEF LimitInv
  <2>5. WindowCap[k] \in Nat
    BY <2>1, CapsTyped DEF LimitInv, CountInv
  <2>6. Cardinality(kept) < WindowCap[k]
    BY <1>1, <2>1, <2>4, <2>5 DEF Exceeded, Reached
  <2> HIDE DEF kept
  <2>7. IsFiniteSet(kept \cup {e}) /\ Cardinality(kept \cup {e}) = Cardinality(kept) + 1
    BY <2>4, OneMore
  <2>8. InWindow(k, start, history') \subseteq kept \cup {e}
    BY <1>1, <2>3 DEF InWindow, Since
  <2>9. Cardinality(InWindow(k, start, history')) <= Cardinality(kept \cup {e})
        /\ Cardinality(InWindow(k, start, history')) \in Nat
    BY <2>7, <2>8, FS_Subset, FS_CardinalityType
  <2> QED
    BY <2>1, <2>4, <2>5, <2>6, <2>7, <2>9
<1> QED
  BY <1>5, <1>6

(* An admitted call is counted once, for its tool and its turn. *)
LEMMA AdmitLimit ==
  ASSUME LimitInv, NEW t \in Turns, NEW k \in Tools, Admit(t, k)
  PROVE  LimitInv'
<1>1. CountInv' /\ CapShape' /\ WindowHolds'
  BY AdmitCounts, AdmitCaps, AdmitWindows DEF LimitInv
<1>2. RefusalEarned'
  BY DEF LimitInv, LimitsExact, RefusalEarned, Admit
<1>3. TurnHolds'
  <2> SUFFICES ASSUME setup'.action = "deny", NEW u \in Turns PROVE TurnWithin(u)'
    BY TurnHoldsParts DEF TurnHolds, TurnWithin, Mine
  <2>1. CASE u = t
    <3>1. at'[t] = "run"
      BY DEF Admit, Judge, LimitInv, CountInv, CountShape
    <3> QED
      BY <1>1, <2>1, <3>1, NextWithin DEF RunningTurnsWithin
  <2>2. CASE u # t
    <3>1. TurnWithin(u) /\ crossed' = crossed
      BY TurnHoldsParts DEF LimitInv, LimitsExact, Admit, Judge
    <3>2. Mine(u, history') = Mine(u, history)
      BY <2>2 DEF Admit, Call, Mine
    <3> QED
      BY <3>1, <3>2 DEF TurnWithin, Mine, Since
  <2> QED
    BY <2>1, <2>2
<1> QED
  BY <1>1, <1>2, <1>3 DEF LimitInv, LimitsExact

-----------------------------------------------------------------------------
(* Every step keeps both *)

(* Every step keeps both invariants. *)
LEMMA Keeps == ASSUME PoolInv, LimitInv, [Next]_vars PROVE PoolInv' /\ LimitInv'
<1>1. CASE Tick \/ \E t \in Turns, k \in Tools : ReadClock(t, k)
  <2>1. LimitInv' /\ TypeOK'
    BY <1>1, ClockLimit DEF LimitInv, CountInv
  <2>2. UNCHANGED <<at, pool, astray, wiped>>
    BY <1>1 DEF Tick, ReadClock, ghosts
  <2> QED
    BY <2>1, <2>2, PoolKept
<1>2. ASSUME NEW t \in Turns,
             Checkout(t) \/ Load(t) \/ LoadFails(t) \/ Start(t) \/ Request(t) \/ Finish(t)
      PROVE  PoolInv' /\ LimitInv'
  BY <1>2, CheckoutStep, LoadSteps, StartStep, RequestStep, FinishStep, TurnStepsLimit, StartLimit
<1>3. ASSUME NEW t \in Turns, NEW k \in Tools, Admit(t, k) \/ Refuse(t, k)
      PROVE  PoolInv' /\ LimitInv'
  <2>1. LimitInv' /\ TypeOK'
    BY <1>3, AdmitLimit, RefuseLimit DEF LimitInv, CountInv
  <2>2. UNCHANGED <<at, pool, astray, wiped>>
    BY <1>3 DEF Admit, Refuse, Judge
  <2> QED
    BY <2>1, <2>2, PoolKept
<1>4. CASE UNCHANGED vars
  <2>1. TypeOK' /\ UNCHANGED <<at, pool, astray, wiped>>
    BY <1>4 DEF PoolInv, TypeOK, vars, limiter, pool, ghosts
  <2>2. PoolInv'
    BY <2>1, PoolKept
  <2>3. UNCHANGED <<setup, queued, perTool, total, window, at, history, last, crossed, fresh, wronged>>
    BY <1>4 DEF vars, limiter, ghosts
  <2>4. CountShape'
    BY <2>3 DEF LimitInv, CountInv, CountShape, Since, Recent
  <2>5. CapShape'
    BY <2>3 DEF LimitInv, CapShape, Since, Mine
  <2>6. WindowHolds' /\ RefusalEarned'
    BY <2>3 DEF LimitInv, LimitsExact, WindowHolds, RefusalEarned, Since
  <2>7. TurnHolds'
    BY <2>3 DEF LimitInv, LimitsExact, TurnHolds, Since
  <2> QED
    BY <2>1, <2>2, <2>4, <2>5, <2>6, <2>7 DEF LimitInv, CountInv, LimitsExact
<1> QED
  BY <1>1, <1>2, <1>3, <1>4 DEF Next

(* Both invariants hold in every reachable state. *)
LEMMA Inductive == Spec => [](PoolInv /\ LimitInv)
<1>1. Init => PoolInv /\ LimitInv
  BY StartsPool, StartsCounted
<1>2. PoolInv /\ LimitInv /\ [Next]_vars => (PoolInv /\ LimitInv)'
  BY Keeps
<1> QED
  BY <1>1, <1>2, PTL DEF Spec

(* Every variable keeps its type. *)
THEOREM TypeCorrect == Spec => []TypeOK
<1>1. PoolInv => TypeOK
  BY DEF PoolInv
<1> QED
  BY <1>1, Inductive, PTL

(* The limiter lets no more through than its limits, and refuses nothing that
   they allow, whatever turns start and end beside, and whichever dimensions
   are capped (check, evaluate, reset_turn); but for a call that another to
   the same tool overtakes between its look at the clock and the lock. *)
THEOREM LimitsAreExact == Spec => []LimitsExact
<1>1. LimitInv => LimitsExact
  BY DEF LimitInv
<1> QED
  BY <1>1, Inductive, PTL

(* Two running turns never share a slot, and the record of a slot is what the
   server holds there (checkout, load and the drop of a turn's slot). *)
THEOREM PoolStaysTrue == Spec => []PoolIsTrue
<1>1. PoolInv => PoolIsTrue
  BY DEF PoolInv, PoolShape, PoolIsTrue, RecordTrue
<1> QED
  BY <1>1, Inductive, PTL

-----------------------------------------------------------------------------
(* Part II: the day budget *)

BudgetInv == BudgetTypeOK /\ ReservedIsHeld /\ OverspendExplained

(* Running turns and turns that hold a guard are finitely many, and the    *)
(* former are among the latter.                                            *)
LEMMA GuardsCounted ==
  /\ IsFiniteSet(Running) /\ IsFiniteSet(Holding)
  /\ Cardinality(Running) \in Nat /\ Cardinality(Holding) \in Nat
  /\ Cardinality(Running) <= Cardinality(Holding)
<1>1. Running \subseteq Tasks /\ Holding \subseteq Tasks /\ Running \subseteq Holding
  BY DEF Running, Holding
<1>2. IsFiniteSet(Running) /\ IsFiniteSet(Holding)
  BY <1>1, FS_Subset, BudgetAssumption DEF BudgetAssumption
<1> QED
  BY <1>1, <1>2, FS_CardinalityType, FS_Subset

(* One estimate more or less. *)
LEMMA EstimateMore ==
  ASSUME NEW e \in Nat, NEW n \in Nat
  PROVE  /\ e * n \in Nat
         /\ e * (n + 1) = e * n + e
         /\ n > 0 => e * (n - 1) = e * n - e /\ e * n >= e
<1>1. e * n \in Nat /\ e * (n + 1) = e * n + e /\ e * (n - 1) = e * n - e
  OBVIOUS
<1>2. CASE n > 0
  <2>1. n - 1 \in Nat
    BY <1>2
  <2>2. e * (n - 1) \in Nat
    BY <2>1
  <2> QED
    BY <1>1, <2>2
<1> QED
  BY <1>1, <1>2

(* More turns cost more estimates. *)
LEMMA Monotone ==
  ASSUME NEW e \in Nat, NEW m \in Nat, NEW n \in Nat, m <= n
  PROVE  e * m <= e * n
<1>1. n - m \in Nat
  OBVIOUS
<1>2. e * (n - m) \in Nat
  BY <1>1
<1>3. e * (n - m) = e * n - e * m
  OBVIOUS
<1> QED
  BY <1>2, <1>3

(* The turns that hold a guard change one at a time. *)
LEMMA GuardsUnchanged ==
  ASSUME BudgetTypeOK, NEW t \in Tasks, NEW s \in {"idle", "read"}, stage[t] \in {"idle",
         "read"},
         stage' = [stage EXCEPT ![t] = s]
  PROVE  Running' = Running /\ Holding' = Holding
BY DEF BudgetTypeOK, Running, Holding

(* An admitted turn is one more running turn and one more guard. *)
LEMMA OneAdmitted ==
  ASSUME BudgetTypeOK, NEW t \in Tasks, stage[t] = "read",
         stage' = [stage EXCEPT ![t] = "running"]
  PROVE  /\ Cardinality(Running') = Cardinality(Running) + 1
         /\ Cardinality(Holding') = Cardinality(Holding) + 1
<1>1. /\ Running' = Running \cup {t} /\ t \notin Running
      /\ Holding' = Holding \cup {t} /\ t \notin Holding
  BY DEF BudgetTypeOK, Running, Holding
<1> QED
  BY <1>1, GuardsCounted, FS_AddElement

(* A turn that has charged its cost no longer runs and still holds its guard. *)
LEMMA OneCharged ==
  ASSUME BudgetTypeOK, NEW t \in Tasks, stage[t] = "running",
         stage' = [stage EXCEPT ![t] = "charged"]
  PROVE  /\ Cardinality(Running') = Cardinality(Running) - 1
         /\ Cardinality(Running) > 0
         /\ Holding' = Holding
<1>1. /\ Running' = Running \ {t} /\ t \in Running
      /\ Holding' = Holding
  BY DEF BudgetTypeOK, Running, Holding
<1>2. Cardinality(Running') = Cardinality(Running) - 1
  BY <1>1, GuardsCounted, FS_RemoveElement
<1>3. Cardinality(Running') \in Nat
  BY <1>1, GuardsCounted, FS_Subset, FS_CardinalityType
<1> QED
  BY <1>1, <1>2, <1>3, GuardsCounted

(* A dropped guard is one guard less. *)
LEMMA OneReleased ==
  ASSUME BudgetTypeOK, NEW t \in Tasks, stage[t] = "charged",
         stage' = [stage EXCEPT ![t] = "idle"]
  PROVE  /\ Running' = Running
         /\ Cardinality(Holding') = Cardinality(Holding) - 1
         /\ Cardinality(Holding) > 0
<1>1. /\ Holding' = Holding \ {t} /\ t \in Holding
      /\ Running' = Running
  BY DEF BudgetTypeOK, Running, Holding
<1>2. Cardinality(Holding') = Cardinality(Holding) - 1
  BY <1>1, GuardsCounted, FS_RemoveElement
<1>3. Cardinality(Holding') \in Nat
  BY <1>1, GuardsCounted, FS_Subset, FS_CardinalityType
<1> QED
  BY <1>1, <1>2, <1>3, GuardsCounted

(* The gate starts with nothing reserved and nothing spent. *)
LEMMA BudgetStarts == BudgetInit => BudgetInv
<1> SUFFICES ASSUME BudgetInit PROVE BudgetInv
  OBVIOUS
<1>1. Running = {} /\ Holding = {}
  BY DEF BudgetInit, Running, Holding
<1>2. Cardinality(Running) = 0 /\ Cardinality(Holding) = 0
  BY <1>1, FS_EmptySet
<1> QED
  BY <1>2, BudgetAssumption
  DEF BudgetInit, BudgetInv, BudgetTypeOK, ReservedIsHeld, OverspendExplained, BudgetAssumption

(* Every step of a turn or of a specialist keeps the three invariants. *)
LEMMA BudgetKept == BudgetInv /\ [BudgetNext]_budgetVars => BudgetInv'
<1> SUFFICES ASSUME BudgetInv, [BudgetNext]_budgetVars PROVE BudgetInv'
  OBVIOUS
<1> USE BudgetAssumption DEF BudgetAssumption
<1> DEFINE r == Cardinality(Running)
           h == Cardinality(Holding)
<1>t. BudgetTypeOK /\ r \in Nat /\ h \in Nat /\ r <= h
  BY GuardsCounted DEF BudgetInv
<1>e. Estimate * r \in Nat /\ Estimate * h \in Nat /\ Estimate * r <= Estimate * h
  BY <1>t, EstimateMore, Monotone
<1>i. /\ reserved = Estimate * h
      /\ committed + Estimate * r <= Cap + Estimate * stale + overrun + ungated
  BY DEF BudgetInv, ReservedIsHeld, OverspendExplained
<1>s. Estimate * stale \in Nat /\ Estimate * (stale + 1) = Estimate * stale + Estimate
  BY <1>t, EstimateMore DEF BudgetTypeOK
<1>1. ASSUME NEW t \in Tasks, NEW failed \in BOOLEAN, ReadCommitted(t, failed)
      PROVE  BudgetInv'
  <2>1. BudgetTypeOK'
    BY <1>t, <1>1 DEF BudgetTypeOK, ReadCommitted
  <2>2. Running' = Running /\ Holding' = Holding
    BY <1>t, <1>1, GuardsUnchanged DEF ReadCommitted
  <2> QED
    BY <1>i, <1>1, <2>1, <2>2
    DEF BudgetInv, ReservedIsHeld, OverspendExplained, ReadCommitted
<1>2. ASSUME NEW t \in Tasks, Reserve(t)
      PROVE  BudgetInv'
  <2>1. BudgetTypeOK'
    BY <1>t, <1>2 DEF BudgetTypeOK, Reserve
  <2>2. Cardinality(Running') = r + 1 /\ Cardinality(Holding') = h + 1
    BY <1>t, <1>2, OneAdmitted DEF Reserve
  <2>3. /\ Estimate * (r + 1) = Estimate * r + Estimate
        /\ Estimate * (h + 1) = Estimate * h + Estimate
    BY <1>t, EstimateMore
  <2>4. ReservedIsHeld'
    BY <1>i, <1>2, <2>2, <2>3 DEF ReservedIsHeld, Reserve
  <2>5. OverspendExplained'
    <3> HIDE DEF r, h
    <3>1. CASE figure[t] < committed
      BY <1>t, <1>e, <1>i, <1>s, <1>2, <2>2, <2>3, <3>1 DEF OverspendExplained, Reserve,
         BudgetTypeOK
    <3>2. CASE figure[t] >= committed
      BY <1>t, <1>e, <1>i, <1>s, <1>2, <2>2, <2>3, <3>2
      DEF OverspendExplained, Reserve, Admissible, BudgetTypeOK
    <3> QED
      BY <1>t, <3>1, <3>2 DEF BudgetTypeOK
  <2> QED
    BY <2>1, <2>4, <2>5 DEF BudgetInv
<1>3. ASSUME NEW t \in Tasks, RefuseTurn(t)
      PROVE  BudgetInv'
  <2>1. BudgetTypeOK'
    BY <1>t, <1>3 DEF BudgetTypeOK, RefuseTurn
  <2>2. Running' = Running /\ Holding' = Holding
    BY <1>t, <1>3, GuardsUnchanged DEF RefuseTurn
  <2> QED
    BY <1>i, <1>3, <2>1, <2>2 DEF BudgetInv, ReservedIsHeld, OverspendExplained, RefuseTurn
<1>4. ASSUME NEW t \in Tasks, NEW cost \in 0 .. MaxCost, Charge(t, cost)
      PROVE  BudgetInv'
  <2>1. BudgetTypeOK'
    BY <1>t, <1>4 DEF BudgetTypeOK, Charge
  <2>2. Cardinality(Running') = r - 1 /\ r > 0 /\ Holding' = Holding
    BY <1>t, <1>4, OneCharged DEF Charge
  <2>3. Estimate * (r - 1) = Estimate * r - Estimate
    BY <1>t, <2>2, EstimateMore
  <2>4. ReservedIsHeld'
    BY <1>i, <1>4, <2>2 DEF ReservedIsHeld, Charge
  <2>5. OverspendExplained'
    <3> HIDE DEF r, h
    <3> QED
      BY <1>t, <1>e, <1>i, <1>s, <1>4, <2>2, <2>3 DEF OverspendExplained, Charge, BudgetTypeOK
  <2> QED
    BY <2>1, <2>4, <2>5 DEF BudgetInv
<1>5. ASSUME NEW t \in Tasks, Release(t)
      PROVE  BudgetInv'
  <2>1. BudgetTypeOK'
    BY <1>t, <1>5 DEF BudgetTypeOK, Release
  <2>2. Running' = Running /\ Cardinality(Holding') = h - 1 /\ h > 0
    BY <1>t, <1>5, OneReleased DEF Release
  <2>3. Estimate * (h - 1) = Estimate * h - Estimate /\ Estimate * h >= Estimate
    BY <1>t, <2>2, EstimateMore
  <2>4. ReservedIsHeld'
    BY <1>i, <1>5, <2>2, <2>3 DEF ReservedIsHeld, Release
  <2>5. OverspendExplained'
    BY <1>i, <1>5, <2>2 DEF OverspendExplained, Release
  <2> QED
    BY <2>1, <2>4, <2>5 DEF BudgetInv
<1>6. ASSUME NEW cost \in 0 .. MaxCost, SpecialistTurn(cost)
      PROVE  BudgetInv'
  <2>1. BudgetTypeOK'
    BY <1>t, <1>6 DEF BudgetTypeOK, SpecialistTurn
  <2>2. Running' = Running /\ Holding' = Holding
    BY <1>6 DEF SpecialistTurn, Running, Holding
  <2>3. ReservedIsHeld'
    BY <1>i, <1>6, <2>2 DEF ReservedIsHeld, SpecialistTurn
  <2>4. OverspendExplained'
    <3> HIDE DEF r, h
    <3> QED
      BY <1>t, <1>e, <1>i, <1>s, <1>6, <2>2 DEF OverspendExplained, SpecialistTurn,
         BudgetTypeOK, r
  <2> QED
    BY <2>1, <2>3, <2>4 DEF BudgetInv
<1>7. CASE UNCHANGED budgetVars
  BY <1>7 DEF BudgetInv, BudgetTypeOK, ReservedIsHeld, OverspendExplained, Running, Holding,
     budgetVars
<1> QED
  BY <1>1, <1>2, <1>3, <1>4, <1>5, <1>6, <1>7 DEF BudgetNext

(* The inductive invariant holds in every state. *)
THEOREM BudgetInductive == BudgetSpec => []BudgetInv
BY BudgetStarts, BudgetKept, PTL DEF BudgetSpec

(* Every variable of the gate has its type: the reserved sum never goes    *)
(* below zero.                                                             *)
THEOREM BudgetTypeCorrect == BudgetSpec => []BudgetTypeOK
<1>1. BudgetInv => BudgetTypeOK
  BY DEF BudgetInv
<1> QED
  BY BudgetInductive, <1>1, PTL

(* No reservation leaks and none is given back twice.                      *)
THEOREM Held == BudgetSpec => []ReservedIsHeld
<1>1. BudgetInv => ReservedIsHeld
  BY DEF BudgetInv
<1> QED
  BY BudgetInductive, <1>1, PTL

(* What passes the day cap was admitted on a stale figure, cost more than  *)
(* its estimate, or was spent by a specialist, unit for unit.              *)
THEOREM Overspend == BudgetSpec => []OverspendExplained
<1>1. BudgetInv => OverspendExplained
  BY DEF BudgetInv
<1> QED
  BY BudgetInductive, <1>1, PTL

-----------------------------------------------------------------------------
(* Part III: the routing guard *)

Marking == {"enter", "read", "put", "marked"}
Asking == {"ask", "decide", "stopped", "done"}

(* The two kinds of types: each of the provers takes one of them. *)
DataOK ==
  /\ mode \in {"ask", "auto"}
  /\ row \in Reasons \cup {None} /\ cache \in Reasons \cup {None}
  /\ markLock \in Procs \cup {None}
  /\ markLock # None => job[markLock].at \in {"read", "put"}
  /\ phase \in {"idle", "start", "think", "next", "batch", "stuck", "end"}
  /\ job \in [Procs -> Jobs]
  /\ turns \in 0 .. MaxTurns /\ faults \in 0 .. MaxFaults
  /\ failures \in Nat /\ taken \in Nat /\ asked \in Nat /\ rescued \in Nat
  /\ did \subseteq {"asked", "rescued"}

FlagsOK ==
  /\ consented \in BOOLEAN /\ granting \in BOOLEAN
  /\ armed \in BOOLEAN /\ active \in BOOLEAN /\ offer \in BOOLEAN
  /\ private \in BOOLEAN /\ lost \in BOOLEAN /\ leaked \in BOOLEAN /\ promoted \in BOOLEAN

(* What each phase's jobs may be at. *)
PhaseShape ==
  /\ phase = "idle" => ~active
  /\ phase # "batch" => \A c \in Calls : job[c].at = "idle"
  /\ phase \in {"idle", "next", "batch", "stuck", "end"} => job["turn"].at = "idle"
  /\ phase = "start" => job["turn"].at \in {"idle"} \cup Marking
  /\ phase = "think" => job["turn"].at \in Asking
  /\ \A p \in Procs :
       /\ job[p].at \in Marking => job[p].why \in Reasons
       /\ job[p].at = "ask" => job[p].why \in {"plain", "tier"}
       /\ job[p].at = "decide" => job[p].why \in {"tier", "on_failure"}

(* A mark under way or made is in memory; the lock's holder alone writes. *)
MarkShape ==
  \A p \in Procs :
    /\ job[p].at \in {"read", "put"} => markLock = p
    /\ job[p].at \in {"put", "marked"} => cache # None
    /\ job[p].at = "put" => row = None

(* Private content is tainted, and a request found no taint. *)
TaintKept ==
  /\ private => cache # None \/ row # None \/ lost
  /\ \A p \in Procs : job[p].at = "decide" /\ private => lost

Bit(b) == IF b THEN 1 ELSE 0

(* The marks that are left are paid for by failures and offers taken. *)
MarksPaid ==
  /\ active => promoted
  /\ promoted => turns > 0
  /\ granting => consented
  /\ \A p \in Procs : job[p].at = "decide" /\ job[p].why = "on_failure" => active
  /\ rescued + Bit(armed) + Bit(active /\ "rescued" \notin did) <= failures + taken
  /\ ~consented => asked + Bit(armed) + Bit(active /\ "asked" \notin did) <= failures

CloudInv ==
  /\ CloudTypeOK /\ PhaseShape /\ MarkShape /\ TaintKept /\ MarksPaid
  /\ PrivateStaysLocal /\ OfferIsFresh /\ AskedOnce

(* The first state has no private content, offer or mark. *)
LEMMA CloudStarts == ASSUME CloudInit PROVE CloudInv
<1>1. CloudTypeOK
  <2>1. turns \in 0 .. MaxTurns /\ faults \in 0 .. MaxFaults
    BY CloudAssumption DEF CloudAssumption, CloudInit
  <2>2. job \in [Procs -> Jobs]
    BY DEF CloudInit, Idle, Jobs
  <2> QED
    BY <2>1, <2>2 DEF CloudInit, CloudTypeOK
<1>2. PhaseShape
  BY DEF CloudInit, PhaseShape, Idle, Procs, Marking
<1>3. MarkShape /\ TaintKept
  BY DEF CloudInit, MarkShape, TaintKept, Idle
<1>4. MarksPaid /\ PrivateStaysLocal /\ OfferIsFresh /\ AskedOnce
  BY DEF CloudInit, MarksPaid, PrivateStaysLocal, OfferIsFresh, AskedOnce, Bit, Idle
<1> QED
  BY <1>1, <1>2, <1>3, <1>4 DEF CloudInv

(* At moves one job and no other. *)
LEMMA AtMoves ==
  ASSUME CloudTypeOK, NEW p \in Procs, NEW why \in Reasons \cup {None, "plain", "tier",
         "on_failure"},
         NEW place \in {"enter", "read", "put", "marked", "ask", "decide", "stopped", "done"},
         At(p, place, why)
  PROVE  /\ job' \in [Procs -> Jobs]
         /\ job'[p].at = place /\ job'[p].why = why
         /\ \A q \in Procs \ {p} : job'[q] = job[q]
<1>1. [at |-> place, why |-> why] \in Jobs
  BY DEF Jobs
<1>2. job \in [Procs -> Jobs] /\ job' = [job EXCEPT ![p] = [at |-> place, why |-> why]]
  BY DEF CloudTypeOK, At
<1> QED
  BY <1>1, <1>2

(* Only the holder of the lock writes a row, and only where there is none. *)
LEMMA RowFinal ==
  ASSUME CloudInv, [CloudNext]_cloudVars
  PROVE  row # None => row' = row
BY DEF CloudInv, MarkShape, CloudNext, cloudVars, guard, turn, Begin, Answered, Batch, Cut,
   ArmNext, End,
   Allow, AllowOffer, Restart, StartSensitive, Think, MarkEnter, MarkRead, MarkPut, Ask, Send,
   Stop, NoCloudModel

(* The turn's own steps keep the invariant. *)
LEMMA TurnSteps ==
  ASSUME CloudInv, Begin \/ Answered \/ Batch \/ Cut \/ ArmNext
  PROVE  CloudInv'
<1>1. CASE Begin
  <2>1. CloudTypeOK'
    <3>1. turns' \in 0 .. MaxTurns
      BY <1>1, CloudAssumption DEF CloudAssumption, CloudInv, CloudTypeOK, Begin
    <3> QED
      BY <1>1, <3>1 DEF CloudInv, CloudTypeOK, Begin, Promote
  <2>2. PhaseShape'
    BY <1>1 DEF CloudInv, CloudTypeOK, PhaseShape, Begin, Promote, Procs, Marking
  <2>3. MarkShape' /\ TaintKept' /\ PrivateStaysLocal'
    BY <1>1 DEF CloudInv, MarkShape, TaintKept, PrivateStaysLocal, Begin, Promote, Procs,
       Marking
  <2>4. MarksPaid' /\ OfferIsFresh' /\ AskedOnce'
    BY <1>1 DEF CloudInv, CloudTypeOK, PhaseShape, MarksPaid, OfferIsFresh, AskedOnce, Bit,
       Begin, Promote, Procs, Marking
  <2> QED
    BY <2>1, <2>2, <2>3, <2>4 DEF CloudInv
<1>2. CASE Answered
  BY <1>2 DEF CloudInv, CloudTypeOK, PhaseShape, MarkShape, TaintKept, MarksPaid,
     PrivateStaysLocal,
     OfferIsFresh, AskedOnce, Bit, Answered, guard, cloudGhosts, Procs, Idle, Jobs, Marking
<1>3. CASE Batch
  BY <1>3 DEF CloudInv, CloudTypeOK, PhaseShape, MarkShape, TaintKept, MarksPaid,
     PrivateStaysLocal,
     OfferIsFresh, AskedOnce, Bit, Batch, guard, cloudGhosts, Procs, Idle, Jobs, Marking
<1>4. CASE Cut
  BY <1>4 DEF CloudInv, CloudTypeOK, PhaseShape, MarkShape, TaintKept, MarksPaid,
     PrivateStaysLocal,
     OfferIsFresh, AskedOnce, Bit, Cut, guard, cloudGhosts, Procs, Idle, Jobs, Marking
<1>5. CASE ArmNext
  BY <1>5 DEF CloudInv, CloudTypeOK, PhaseShape, MarkShape, TaintKept, MarksPaid,
     PrivateStaysLocal,
     OfferIsFresh, AskedOnce, Bit, ArmNext, Procs
<1> QED
  BY <1>1, <1>2, <1>3, <1>4, <1>5

(* end_armed_turn. *)
LEMMA EndStep == ASSUME CloudInv, End PROVE CloudInv'
<1>1. CloudTypeOK'
  <2>1. DataOK'
    BY DEF CloudInv, CloudTypeOK, DataOK, End, cloudGhosts
  <2>2. FlagsOK'
    BY DEF CloudInv, CloudTypeOK, FlagsOK, End, cloudGhosts
  <2> QED
    BY <2>1, <2>2 DEF CloudTypeOK, DataOK, FlagsOK
<1>2. PhaseShape'
  BY DEF CloudInv, CloudTypeOK, PhaseShape, End, cloudGhosts, Procs, Marking
<1>3. MarkShape' /\ TaintKept' /\ PrivateStaysLocal'
  BY DEF CloudInv, MarkShape, TaintKept, PrivateStaysLocal, End, cloudGhosts
<1>4. MarksPaid'
  <2>1. \A p \in Procs : job[p].at # "decide"
    BY DEF CloudInv, PhaseShape, End, Procs
  <2> QED
    BY <2>1 DEF CloudInv, CloudTypeOK, MarksPaid, Bit, End, cloudGhosts
<1>5. OfferIsFresh' /\ AskedOnce'
  BY DEF CloudInv, OfferIsFresh, AskedOnce, End, cloudGhosts
<1> QED
  BY <1>1, <1>2, <1>3, <1>4, <1>5 DEF CloudInv

(* What is marked in the calls that have settled is tainted. *)
LEMMA StartSteps ==
  ASSUME CloudInv, NEW r \in Reasons, StartSensitive(r)
  PROVE  CloudInv'
<1>1. CloudTypeOK'
  <2>1. DataOK'
    BY DEF CloudInv, CloudTypeOK, DataOK, StartSensitive, At, guard, cloudGhosts, Procs,
       Idle, Jobs
  <2>2. FlagsOK'
    BY DEF CloudInv, CloudTypeOK, FlagsOK, StartSensitive, At, guard, cloudGhosts, Procs,
       Idle, Jobs
  <2> QED
    BY <2>1, <2>2 DEF CloudTypeOK, DataOK, FlagsOK
<1>2. PhaseShape'
  <2>1. job'["turn"].at = "enter" /\ job'["turn"].why = r
    BY AtMoves DEF CloudInv, CloudTypeOK, StartSensitive, Procs
  <2>2. \A q \in Procs \ {"turn"} : job'[q] = job[q]
    BY AtMoves DEF CloudInv, StartSensitive, Procs
  <2> QED
    BY <2>1, <2>2, CloudAssumption DEF CloudAssumption, CloudInv, PhaseShape, StartSensitive,
       guard,
       Procs, Marking, Asking
<1>3. MarkShape' /\ TaintKept' /\ PrivateStaysLocal'
  BY DEF CloudInv, CloudTypeOK, MarkShape, TaintKept, PrivateStaysLocal, StartSensitive, At,
     guard, cloudGhosts,
     Procs, Idle
<1>4. MarksPaid' /\ OfferIsFresh' /\ AskedOnce'
  BY DEF CloudInv, CloudTypeOK, MarksPaid, OfferIsFresh, AskedOnce, Bit, StartSensitive, At,
     guard, cloudGhosts,
     Procs, Idle
<1> QED
  BY <1>1, <1>2, <1>3, <1>4 DEF CloudInv

(* The turn thinks again when its batch has ended: what it marked is known. *)
LEMMA ThinkSteps ==
  ASSUME CloudInv, NEW kind \in {"plain", "tier"}, Think(kind)
  PROVE  CloudInv'
<1> DEFINE Next1(p) == IF p = "turn" THEN [at |-> "ask", why |-> kind] ELSE Idle
<1>1. job' = [p \in Procs |-> Next1(p)] /\ "turn" \in Procs
  BY DEF Think, Procs
<1>2. markLock = None
  BY DEF CloudInv, CloudTypeOK, Think, Settled, Procs
<1>3. \A p \in Procs : job'[p].at \in {"ask", "idle"} /\ (job'[p].at = "ask" => job'[p].why = kind)
  BY <1>1 DEF Idle
<1>4. job' \in [Procs -> Jobs]
  BY <1>1 DEF Idle, Jobs
<1>5. CloudTypeOK'
  <2>1. DataOK'
    BY <1>2, <1>4 DEF CloudInv, CloudTypeOK, DataOK, Think, guard
  <2>2. FlagsOK'
    BY <1>2, <1>4 DEF CloudInv, CloudTypeOK, FlagsOK, Think, guard
  <2> QED
    BY <2>1, <2>2 DEF CloudTypeOK, DataOK, FlagsOK
<1>6. PhaseShape'
  BY <1>1, <1>3, CloudAssumption DEF CloudAssumption, CloudInv, PhaseShape, Think, Procs, Idle,
     Marking, Asking
<1>7. TaintKept'
  BY <1>3 DEF CloudInv, MarkShape, TaintKept, Think, guard
<1>8. MarkShape' /\ PrivateStaysLocal'
  BY <1>3 DEF CloudInv, MarkShape, PrivateStaysLocal, Think, guard
<1>9. MarksPaid' /\ OfferIsFresh' /\ AskedOnce'
  BY <1>3 DEF CloudInv, MarksPaid, OfferIsFresh, AskedOnce, Bit, Think, guard
<1> QED
  BY <1>5, <1>6, <1>7, <1>8, <1>9 DEF CloudInv

(* Memory before disk, under the lock. *)
LEMMA MarkSteps ==
  ASSUME CloudInv, NEW p \in Procs, MarkEnter(p) \/ MarkRead(p) \/ MarkPut(p)
  PROVE  CloudInv'
<1>1. CloudTypeOK'
  <2>1. DataOK'
    <3>1. UNCHANGED <<mode, phase, turns, failures, taken, asked, rescued, did>>
      BY DEF MarkEnter, MarkRead, MarkPut, cloudGhosts
    <3>2. job[p].why \in Reasons
      BY DEF CloudInv, PhaseShape, MarkEnter, MarkRead, MarkPut, Marking
    <3>3. row' \in Reasons \cup {None} /\ cache' \in Reasons \cup {None}
      BY <3>2 DEF CloudInv, CloudTypeOK, MarkEnter, MarkRead, MarkPut, Remember, Unreadable
    <3>4. faults' \in 0 .. MaxFaults
      BY CloudAssumption DEF CloudAssumption, CloudInv, CloudTypeOK, MarkEnter, MarkRead,
         MarkPut, Fault
    <3>5. /\ job' \in [Procs -> Jobs] /\ markLock' \in Procs \cup {None}
          /\ markLock' # None => job'[markLock'].at \in {"read", "put"}
      <4>1. CASE At(p, "marked", job[p].why)
        BY <4>1, <3>2, AtMoves DEF CloudInv, CloudTypeOK, MarkShape, MarkEnter, MarkRead,
           MarkPut, Unlock
      <4>2. CASE At(p, "read", job[p].why) /\ TakeLock(p)
        BY <4>2, <3>2, AtMoves DEF CloudInv, CloudTypeOK, TakeLock
      <4>3. CASE At(p, "put", job[p].why) /\ UNCHANGED markLock
        BY <4>3, <3>2, AtMoves DEF CloudInv, CloudTypeOK, MarkShape, MarkRead
      <4> QED
        BY <4>1, <4>2, <4>3 DEF MarkEnter, MarkRead, MarkPut
    <3> QED
      BY <3>1, <3>3, <3>4, <3>5 DEF DataOK, CloudInv, CloudTypeOK
  <2>2. FlagsOK'
    BY CloudAssumption DEF CloudAssumption, CloudInv, CloudTypeOK, FlagsOK, PhaseShape,
       MarkShape, MarkEnter, MarkRead,
       MarkPut, At, TakeLock, Unlock, Remember, Unreadable, Fault, cloudGhosts, Procs, Jobs,
       Marking
  <2> QED
    BY <2>1, <2>2 DEF CloudTypeOK, DataOK, FlagsOK
<1>2. PhaseShape'
  BY DEF CloudInv, CloudTypeOK, PhaseShape, MarkEnter, MarkRead, MarkPut, At, cloudGhosts,
     Procs, Marking, Asking
<1>3. MarkShape'
  <2>1. job[p].why \in Reasons /\ \A q \in Procs \ {p} : job'[q] = job[q]
    BY AtMoves DEF CloudInv, CloudTypeOK, PhaseShape, MarkEnter, MarkRead, MarkPut, Marking
  <2>2. CASE MarkEnter(p)
    <3>1. CASE At(p, "marked", job[p].why) /\ UNCHANGED markLock
      BY <3>1, <2>1, <2>2, AtMoves DEF CloudInv, CloudTypeOK, MarkShape, MarkEnter
    <3>2. CASE At(p, "read", job[p].why) /\ TakeLock(p)
      BY <3>2, <2>1, <2>2, AtMoves, CloudAssumption DEF CloudAssumption, Procs, CloudInv,
         MarkShape,
         MarkEnter, TakeLock
    <3> QED
      BY <2>2, <3>1, <3>2 DEF MarkEnter
  <2>3. CASE MarkRead(p)
    BY <2>1, <2>3, AtMoves, CloudAssumption DEF CloudAssumption, CloudInv, CloudTypeOK,
       MarkShape, MarkRead,
       Unlock, Remember, Unreadable
  <2>4. CASE MarkPut(p)
    BY <2>1, <2>4, AtMoves DEF CloudInv, CloudTypeOK, MarkShape, MarkPut, Unlock
  <2> QED
    BY <2>2, <2>3, <2>4
<1>4. TaintKept' /\ PrivateStaysLocal'
  BY CloudAssumption DEF CloudAssumption, CloudInv, CloudTypeOK, PhaseShape, TaintKept,
     PrivateStaysLocal,
     MarkEnter, MarkRead, MarkPut, At, Remember, Unreadable, cloudGhosts, Marking
<1>5. MarksPaid' /\ OfferIsFresh' /\ AskedOnce'
  BY DEF CloudInv, CloudTypeOK, MarksPaid, OfferIsFresh, AskedOnce, Bit, MarkEnter, MarkRead,
     MarkPut, At,
     cloudGhosts
<1> QED
  BY <1>1, <1>2, <1>3, <1>4, <1>5 DEF CloudInv

(* A request that goes on found no taint, so nothing private came before it. *)
LEMMA RequestSteps ==
  ASSUME CloudInv, NEW p \in Procs, Ask(p) \/ NoCloudModel(p)
  PROVE  CloudInv'
<1>1. CloudTypeOK'
  <2>1. DataOK'
    <3>1. UNCHANGED <<mode, row, markLock, phase, turns, failures, taken, asked, rescued, did>>
      BY DEF Ask, NoCloudModel, guard, cloudGhosts
    <3>2. cache' \in Reasons \cup {None} /\ faults' \in 0 .. MaxFaults
      BY CloudAssumption DEF CloudAssumption, CloudInv, CloudTypeOK, Ask, NoCloudModel,
         Fault, guard
    <3>3. Trigger(p) \in Reasons \cup {None, "plain", "tier", "on_failure"}
      BY DEF CloudInv, CloudTypeOK, Trigger, Jobs
    <3>4. /\ job' \in [Procs -> Jobs]
          /\ markLock # None => job'[markLock].at \in {"read", "put"}
      <4>1. CASE Ask(p) /\ At(p, "done", None)
        BY <4>1, AtMoves DEF CloudInv, CloudTypeOK, Ask
      <4>2. CASE Ask(p) /\ At(p, "decide", Trigger(p))
        BY <4>2, <3>3, AtMoves DEF CloudInv, CloudTypeOK, Ask
      <4>3. CASE NoCloudModel(p)
        BY <4>3, AtMoves DEF CloudInv, CloudTypeOK, NoCloudModel
      <4> QED
        BY <4>1, <4>2, <4>3 DEF Ask
    <3> QED
      BY <3>1, <3>2, <3>4 DEF CloudInv, CloudTypeOK, DataOK
  <2>2. FlagsOK'
    BY DEF CloudInv, CloudTypeOK, FlagsOK, PhaseShape, Ask, NoCloudModel, Trigger, At, Fault,
       guard, cloudGhosts, Procs, Jobs
  <2> QED
    BY <2>1, <2>2 DEF CloudTypeOK, DataOK, FlagsOK
<1>2. PhaseShape'
  BY DEF CloudInv, CloudTypeOK, PhaseShape, Ask, NoCloudModel, Trigger, At, guard,
     cloudGhosts, Procs, Marking,
     Asking
<1>3. MarkShape'
  BY DEF CloudInv, CloudTypeOK, MarkShape, Ask, NoCloudModel, At, guard, cloudGhosts
<1>4. TaintKept' /\ PrivateStaysLocal'
  BY DEF CloudInv, CloudTypeOK, TaintKept, PrivateStaysLocal, Ask, NoCloudModel, At, guard,
     cloudGhosts
<1>5. MarksPaid' /\ OfferIsFresh' /\ AskedOnce'
  BY DEF CloudInv, CloudTypeOK, PhaseShape, MarksPaid, OfferIsFresh, AskedOnce, Bit, Ask,
     NoCloudModel,
     Trigger, At, guard, cloudGhosts
<1> QED
  BY <1>1, <1>2, <1>3, <1>4, <1>5 DEF CloudInv

(* A request is sent only if it may be, and a stop may leave an offer. *)
LEMMA DecideSteps ==
  ASSUME CloudInv, NEW p \in Procs, Send(p) \/ Stop(p)
  PROVE  CloudInv'
<1>1. CloudTypeOK'
  <2>1. DataOK'
    <3>1. UNCHANGED <<mode, row, cache, markLock, phase, turns, faults, failures, taken>>
      BY DEF Send, Stop, guard
    <3>2. /\ job' \in [Procs -> Jobs]
          /\ markLock # None => job'[markLock].at \in {"read", "put"}
      BY AtMoves, SMTT(20) DEF CloudInv, CloudTypeOK, Send, Stop
    <3>3. asked' \in Nat /\ rescued' \in Nat /\ did' \subseteq {"asked", "rescued"}
      <4>1. asked \in Nat /\ rescued \in Nat /\ did \subseteq {"asked", "rescued"}
        BY DEF CloudInv, CloudTypeOK
      <4>2. asked' \in {asked, asked + 1} /\ rescued' \in {rescued, rescued + 1}
        BY DEF Send, Stop, Counted
      <4>3. did' \subseteq did \cup {"asked", "rescued"}
        BY DEF Send, Stop
      <4> QED
        BY <4>1, <4>2, <4>3
    <3> QED
      BY <3>1, <3>2, <3>3 DEF CloudInv, CloudTypeOK, DataOK
  <2>2. FlagsOK'
    BY DEF CloudInv, CloudTypeOK, FlagsOK, Send, Stop, Note, Counted, At, guard, Procs, Jobs
  <2> QED
    BY <2>1, <2>2 DEF CloudTypeOK, DataOK, FlagsOK
<1>2. PhaseShape'
  BY DEF CloudInv, CloudTypeOK, PhaseShape, Send, Stop, At, guard, Procs, Marking, Asking
<1>3. MarkShape'
  BY DEF CloudInv, CloudTypeOK, MarkShape, Send, Stop, At, guard
<1>4. TaintKept' /\ PrivateStaysLocal'
  BY DEF CloudInv, CloudTypeOK, TaintKept, PrivateStaysLocal, Send, Stop, At, guard
<1>5. MarksPaid'
  BY DEF CloudInv, CloudTypeOK, MarksPaid, Bit, Send, Stop, May, Counted, At, guard
<1>6. OfferIsFresh'
  BY DEF CloudInv, CloudTypeOK, MarksPaid, OfferIsFresh, Send, Stop, Note, guard
<1>7. AskedOnce'
  BY DEF CloudInv, CloudTypeOK, MarksPaid, AskedOnce, Bit, Send, Stop, May, Counted
<1> QED
  BY <1>1, <1>2, <1>3, <1>4, <1>5, <1>6, <1>7 DEF CloudInv

(* A consent takes the offer that stands and arms the next turn. *)
LEMMA AllowSteps ==
  ASSUME CloudInv, Allow \/ AllowOffer
  PROVE  CloudInv'
<1>1. CloudTypeOK'
  <2>1. DataOK'
    <3>1. UNCHANGED <<mode, row, cache, markLock, phase, job, turns, faults, failures, asked,
                      rescued, did>>
      BY DEF Allow, AllowOffer, turn, cloudGhosts
    <3>2. taken' \in Nat
      BY DEF CloudInv, CloudTypeOK, Allow, AllowOffer, TakeOffer, cloudGhosts
    <3> QED
      BY <3>1, <3>2 DEF CloudInv, CloudTypeOK, DataOK
  <2>2. FlagsOK'
    BY DEF CloudInv, CloudTypeOK, FlagsOK, Allow, AllowOffer, TakeOffer, turn, cloudGhosts
  <2> QED
    BY <2>1, <2>2 DEF CloudTypeOK, DataOK, FlagsOK
<1>2. PhaseShape' /\ MarkShape' /\ TaintKept' /\ PrivateStaysLocal'
  BY DEF CloudInv, PhaseShape, MarkShape, TaintKept, PrivateStaysLocal, Allow, AllowOffer,
     turn, cloudGhosts
<1>3. MarksPaid' /\ OfferIsFresh' /\ AskedOnce'
  BY DEF CloudInv, CloudTypeOK, MarksPaid, OfferIsFresh, AskedOnce, Bit, Allow, AllowOffer,
     TakeOffer, turn,
     cloudGhosts
<1> QED
  BY <1>1, <1>2, <1>3 DEF CloudInv

(* Consent and the marks are gone; what is not on disk is lost. *)
LEMMA RestartStep == ASSUME CloudInv, Restart PROVE CloudInv'
<1>1. job' \in [Procs -> Jobs] /\ \A p \in Procs : job'[p] = Idle
  BY DEF Restart, Idle, Jobs
<1>2. CloudTypeOK'
  <2>1. DataOK'
    BY <1>1, CloudAssumption DEF CloudAssumption, CloudInv, CloudTypeOK, DataOK, Restart, Fault
  <2>2. FlagsOK'
    BY <1>1 DEF CloudInv, CloudTypeOK, FlagsOK, Restart, Fault
  <2> QED
    BY <2>1, <2>2 DEF CloudTypeOK, DataOK, FlagsOK
<1>3. PhaseShape' /\ MarkShape' /\ TaintKept' /\ PrivateStaysLocal'
  BY <1>1 DEF CloudInv, PhaseShape, MarkShape, TaintKept, PrivateStaysLocal, Restart, Idle,
     Procs, Marking
<1>4. MarksPaid' /\ OfferIsFresh' /\ AskedOnce'
  BY <1>1 DEF CloudInv, CloudTypeOK, MarksPaid, OfferIsFresh, AskedOnce, Bit, Restart, Idle
<1> QED
  BY <1>2, <1>3, <1>4 DEF CloudInv

(* Every step keeps the invariant. *)
LEMMA CloudKept == ASSUME CloudInv, [CloudNext]_cloudVars PROVE CloudInv'
<1>1. CASE UNCHANGED cloudVars
  BY <1>1 DEF CloudInv, CloudTypeOK, PhaseShape, MarkShape, TaintKept, MarksPaid,
     PrivateStaysLocal,
     OfferIsFresh, AskedOnce, cloudVars, guard, turn, cloudGhosts
<1>2. CASE CloudNext
  BY <1>2, TurnSteps, EndStep, StartSteps, ThinkSteps, MarkSteps, RequestSteps, DecideSteps,
     AllowSteps, RestartStep DEF CloudNext
<1> QED
  BY <1>1, <1>2

(* The invariant holds in every reachable state. *)
LEMMA CloudInductive == CloudSpec => []CloudInv
  BY CloudStarts, CloudKept, PTL DEF CloudSpec

(* The guard's types: the lock is held only by a call that reads or writes. *)
THEOREM CloudTypeCorrect == CloudSpec => []CloudTypeOK
<1>1. CloudInv => CloudTypeOK
  BY DEF CloudInv
<1> QED
  BY <1>1, CloudInductive, PTL

(* No request leaves the machine once private content is in the
   conversation, whatever calls mark side by side, rows cannot be read or
   written, and consent or failures arm the turns. *)
THEOREM PrivateIsLocal == CloudSpec => []PrivateStaysLocal
<1>1. CloudInv => PrivateStaysLocal
  BY DEF CloudInv
<1> QED
  BY <1>1, CloudInductive, PTL

(* What mark wrote is never replaced, by no interleaving and over restarts. *)
THEOREM ReasonIsFinal == CloudSpec => FirstReasonKept
<1>1. ASSUME CloudInv, [CloudNext]_cloudVars
      PROVE  [row # None => row' = row]_cloudVars
  BY <1>1, RowFinal
<1> QED
  BY <1>1, CloudInductive, PTL DEF CloudSpec, FirstReasonKept

(* An offer never outlives the turn after the one that made it. *)
THEOREM OffersAreFresh == CloudSpec => []OfferIsFresh
<1>1. CloudInv => OfferIsFresh
  BY DEF CloudInv
<1> QED
  BY <1>1, CloudInductive, PTL

(* Turns that escalated are paid for, one by one, by a failure or an offer. *)
THEOREM EscalationsArePaid == CloudSpec => []OneTurnEach
<1>1. CloudInv => OneTurnEach
  BY DEF CloudInv, CloudTypeOK, MarksPaid, Bit, OneTurnEach
<1> QED
  BY <1>1, CloudInductive, PTL

(* Each failure makes at most one turn stop for consent. *)
THEOREM AsksArePaid == CloudSpec => []AskedOnce
<1>1. CloudInv => AskedOnce
  BY DEF CloudInv
<1> QED
  BY <1>1, CloudInductive, PTL

(* A failure, an offer and a consent each serve one turn, the next one. *)
THEOREM MarksServe == CloudSpec => []MarksServeOnce
<1>1. OfferIsFresh /\ OneTurnEach /\ AskedOnce => MarksServeOnce
  BY DEF MarksServeOnce
<1> QED
  BY <1>1, OffersAreFresh, EscalationsArePaid, AsksArePaid, PTL

=============================================================================
