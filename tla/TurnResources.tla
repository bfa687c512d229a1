--------------------------- MODULE TurnResources ----------------------------
(***************************************************************************)
(* What the turns of one daemon share: the limiter of tool calls, whose    *)
(* counts every turn clears as it starts, and the pool of the model        *)
(* server's cache slots with its record of what each slot was loaded with. *)
(* A call reads the clock before it takes the limiter's lock, so that one  *)
(* that read it later can be judged first.                                 *)
(***************************************************************************)
EXTENDS Integers, FiniteSets

CONSTANTS Turns, Tools, Prefixes, Nothing,
          Setups,
          SlotCount,
          TotalCap,    \* per_turn_total; Nothing: no such limit
          ToolCap,     \* tool -> per_turn, or default_per_turn_per_tool
          WindowCap,   \* tool -> per_window
          Window,      \* tool -> window_secs
          MaxTime,     \* bound: the clock
          MaxCalls     \* bound: calls admitted

Slots == 0 .. SlotCount - 1
Caps == Nat \cup {Nothing}

ASSUME TurnAssumption ==
  /\ Setups \subseteq [action : {"deny", "alert", "none"}, kv : BOOLEAN, turns : SUBSET Turns]
  /\ SlotCount \in Nat /\ MaxTime \in Nat /\ MaxCalls \in Nat
  /\ TotalCap \in Caps /\ ToolCap \in [Tools -> Caps]
  /\ WindowCap \in [Tools -> Caps] /\ Window \in [Tools -> Nat]
  /\ Nothing \notin Prefixes /\ Nothing \notin Slots
  /\ Nothing \notin Nat \cup [tool : Tools, time : Nat]

VARIABLES
  setup,     \* on_exceeded, or none without limits; whether there is a pool;
             \* the turns that come
  now,
  queued,     \* turn -> its call that has read the clock, and waits for the lock
  perTool, total,
  window,    \* tool -> the queue of admitted calls, in the order of their n
  at,        \* turn -> new, load, begin, run, over
  slot,      \* turn -> its slot
  prefix,    \* turn -> the prompt and tools it starts with
  out,       \* slots checked out
  loaded,    \* slot -> the prefix on record
  holds,     \* the server: slot -> the prefix it holds
  live,      \* the server: slot -> turns whose conversation it holds
  astray,    \* slots a failed warm-up or an unpinned request has touched
  wiped,     \* a load destroyed a conversation of its own prefix
  history,   \* calls admitted: [n, turn, tool, time, overtaken]
  last,      \* tool -> the latest instant that a call to it was judged by
  crossed,   \* turn -> turns that started while it ran
  fresh,     \* the calls admitted since a turn last started
  wronged    \* a call was refused that no limit of the doc forbids

limiter == <<queued, perTool, total, window>>
pool == <<slot, prefix, out, loaded, holds, live>>
ghosts == <<astray, wiped, history, last, crossed, fresh, wronged>>
vars == <<setup, now, limiter, at, pool, ghosts>>

Entries == [n : Nat, turn : Turns, tool : Tools, time : Nat, overtaken : BOOLEAN]

TypeOK ==
  /\ setup \in Setups /\ now \in 0 .. MaxTime
  /\ queued \in [Turns -> [tool : Tools, time : 0 .. now] \cup {Nothing}]
  /\ perTool \in [Tools -> Nat] /\ total \in Nat
  /\ window \in [Tools -> SUBSET Entries]
  /\ at \in [Turns -> {"new", "load", "begin", "run", "over"}]
  /\ slot \in [Turns -> Slots \cup {Nothing}]
  /\ prefix \in [Turns -> Prefixes \cup {Nothing}]
  /\ out \subseteq Slots
  /\ loaded \in [Slots -> Prefixes \cup {Nothing}]
  /\ holds \in [Slots -> Prefixes \cup {Nothing}]
  /\ live \in [Slots -> SUBSET Turns]
  /\ astray \subseteq Slots /\ wiped \in BOOLEAN
  /\ history \subseteq Entries /\ last \in [Tools -> 0 .. now]
  /\ crossed \in [Turns -> Nat]
  /\ fresh \subseteq history /\ wronged \in BOOLEAN

Init ==
  /\ setup \in Setups /\ now = 0
  /\ queued = [t \in Turns |-> Nothing]
  /\ perTool = [k \in Tools |-> 0] /\ total = 0
  /\ window = [k \in Tools |-> {}]
  /\ at = [t \in Turns |-> "new"]
  /\ slot = [t \in Turns |-> Nothing]
  /\ prefix = [t \in Turns |-> Nothing]
  /\ out = {} /\ loaded = [s \in Slots |-> Nothing]
  /\ holds = [s \in Slots |-> Nothing] /\ live = [s \in Slots |-> {}]
  /\ astray = {} /\ wiped = FALSE
  /\ history = {} /\ last = [k \in Tools |-> 0]
  /\ crossed = [t \in Turns |-> 0] /\ fresh = {} /\ wronged = FALSE

-----------------------------------------------------------------------------
(* begin_turn of the planner: a slot, and the turn's prefix in it *)

Free == Slots \ out

Take(s) == out' = out \cup {s}

(* The lowest free slot; its record may tell that nothing is to be loaded. *)
Checkout(t) ==
  /\ t \in setup.turns /\ at[t] = "new"
  /\ \/ /\ ~setup.kv
        /\ at' = [at EXCEPT ![t] = "begin"]
        /\ UNCHANGED <<slot, prefix, out>>
     \/ /\ setup.kv
        /\ \E p \in Prefixes :
             /\ prefix' = [prefix EXCEPT ![t] = p]
             /\ \/ \E s \in Free :
                     /\ \A r \in Free : s <= r
                     /\ Take(s)
                     /\ slot' = [slot EXCEPT ![t] = s]
                     /\ at' = [at EXCEPT ![t] = IF loaded[s] = p THEN "begin" ELSE "load"]
                \/ /\ Free = {}
                   /\ at' = [at EXCEPT ![t] = "begin"]
                   /\ UNCHANGED <<slot, out>>
  /\ UNCHANGED <<setup, now, limiter, loaded, holds, live, ghosts>>

Mut_IfSaved(s, p) == loaded' \in {loaded, [loaded EXCEPT ![s] = p]}

(* Recorded on the warm-up alone, whether or not it is then saved. *)
Record(s, p) == loaded' = [loaded EXCEPT ![s] = p]

(* The prefix alone is in the slot now. *)
Overwrite(t) ==
  LET s == slot[t]
  IN /\ wiped' = (wiped \/ (s \notin astray /\ holds[s] = prefix[t] /\ live[s] # {}))
     /\ holds' = [holds EXCEPT ![s] = prefix[t]]
     /\ live' = [live EXCEPT ![s] = {}]

(* Restored from disk, or warmed. *)
Load(t) ==
  /\ at[t] = "load"
  /\ at' = [at EXCEPT ![t] = "begin"]
  /\ Record(slot[t], prefix[t])
  /\ Overwrite(t)
  /\ astray' = astray \ {slot[t]}
  /\ UNCHANGED <<setup, now, limiter, slot, prefix, out, history, last, crossed, fresh,
                 wronged>>

(* Neither: an error or a timeout, before or after the server did it. *)
LoadFails(t) ==
  /\ at[t] = "load"
  /\ at' = [at EXCEPT ![t] = "begin"]
  /\ Overwrite(t) \/ UNCHANGED <<holds, live, wiped>>
  /\ astray' = astray \cup {slot[t]}
  /\ UNCHANGED <<setup, now, limiter, slot, prefix, out, loaded, history, last, crossed,
                 fresh, wronged>>

Mut_NoReset == UNCHANGED <<perTool, total>>

(* reset_turn *)
Reset ==
  /\ perTool' = [k \in Tools |-> 0]
  /\ total' = 0

(* begin_turn of the gate, once the planner is ready *)
Start(t) ==
  /\ at[t] = "begin"
  /\ at' = [at EXCEPT ![t] = "run"]
  /\ Reset
  /\ crossed' = [u \in Turns |-> IF at[u] = "run" THEN crossed[u] + 1 ELSE crossed[u]]
  /\ fresh' = {}
  /\ UNCHANGED <<setup, now, queued, window, pool, astray, wiped, history, last, wronged>>

-----------------------------------------------------------------------------
(* A running turn *)

InTurn(t) == at[t] = "run" /\ queued[t] = Nothing

(* A request goes to the turn's slot; without one the server chooses. *)
Request(t) ==
  /\ InTurn(t) /\ setup.kv
  /\ \E s \in Slots :
       /\ slot[t] \in {s, Nothing}
       /\ holds' = [holds EXCEPT ![s] = prefix[t]]
       /\ live' = [live EXCEPT ![s] = IF holds[s] = prefix[t] THEN @ \cup {t} ELSE {t}]
       /\ astray' = IF slot[t] = Nothing THEN astray \cup {s} ELSE astray
  /\ UNCHANGED <<setup, now, limiter, at, slot, prefix, out, loaded, wiped, history,
                 last, crossed, fresh, wronged>>

(* admit_tool_call: the instant the call will be judged by. *)
ReadClock(t, k) ==
  /\ InTurn(t) /\ setup.action # "none"
  /\ queued' = [queued EXCEPT ![t] = [tool |-> k, time |-> now]]
  /\ UNCHANGED <<setup, now, perTool, total, window, at, pool, ghosts>>

(* duration_since: none to an instant that is later. *)
Age(instant, e) == IF e.time > instant THEN 0 ELSE instant - e.time

Recent(k, instant, calls) == {e \in calls : e.tool = k /\ Age(instant, e) < Window[k]}

(* Only the front of the queue is dropped: up to its first recent call. *)
Pruned(k, instant) ==
  {e \in window[k] : \E f \in Recent(k, instant, window[k]) : f.n <= e.n}

Reached(cap, used) == cap # Nothing /\ used >= cap

(* evaluate *)
Exceeded(k, instant) ==
  \/ Reached(TotalCap, total)
  \/ Reached(ToolCap[k], perTool[k])
  \/ Reached(WindowCap[k], Cardinality(Recent(k, instant, Pruned(k, instant))))

Since(k, calls) == {e \in calls : e.tool = k}

(* n tells the order in which the calls to a tool were admitted. *)
Call(t, k, instant) ==
  [n |-> Cardinality(Since(k, history)), turn |-> t, tool |-> k, time |-> instant,
   overtaken |-> instant < last[k]]

Keep(k, instant, calls) ==
  window' = IF WindowCap[k] = Nothing THEN window
            ELSE [window EXCEPT ![k] = Pruned(k, instant) \cup calls]

(* check, under the limiter's lock *)
Judge(t, k) ==
  /\ queued[t] # Nothing /\ queued[t].tool = k
  /\ queued' = [queued EXCEPT ![t] = Nothing]
  /\ last' = [last EXCEPT ![k] = IF queued[t].time > @ THEN queued[t].time ELSE @]
  /\ UNCHANGED <<setup, now, at, pool, astray, wiped, crossed>>

Admit(t, k) ==
  /\ Judge(t, k) /\ Cardinality(history) < MaxCalls
  /\ ~Exceeded(k, queued[t].time) \/ setup.action = "alert"
  /\ LET e == Call(t, k, queued[t].time)
     IN /\ perTool' = [perTool EXCEPT ![k] = @ + 1]
        /\ total' = total + 1
        /\ Keep(k, queued[t].time, {e})
        /\ history' = history \cup {e}
        /\ fresh' = fresh \cup {e}
  /\ UNCHANGED wronged

Refuse(t, k) ==
  /\ Judge(t, k)
  /\ Exceeded(k, queued[t].time) /\ setup.action = "deny"
  /\ Keep(k, queued[t].time, {})
  /\ wronged' = (wronged \/ ~ \/ Reached(TotalCap, Cardinality(fresh))
                              \/ Reached(ToolCap[k], Cardinality(Since(k, fresh)))
                              \/ Reached(WindowCap[k],
                                         Cardinality(Recent(k, queued[t].time, history))))
  /\ UNCHANGED <<perTool, total, history, fresh>>

(* Drop: the slot is free; what it holds is kept, and its record. *)
Finish(t) ==
  /\ InTurn(t)
  /\ at' = [at EXCEPT ![t] = "over"]
  /\ IF slot[t] = Nothing THEN UNCHANGED out ELSE out' = out \ {slot[t]}
  /\ UNCHANGED <<setup, now, limiter, slot, prefix, loaded, holds, live, ghosts>>

Tick ==
  /\ now < MaxTime
  /\ now' = now + 1
  /\ UNCHANGED <<setup, limiter, at, pool, ghosts>>

Next ==
  \/ Tick
  \/ \E t \in Turns : Checkout(t) \/ Load(t) \/ LoadFails(t) \/ Start(t) \/ Request(t) \/ Finish(t)
  \/ \E t \in Turns, k \in Tools : ReadClock(t, k) \/ Admit(t, k) \/ Refuse(t, k)

Spec == Init /\ [][Next]_vars

-----------------------------------------------------------------------------
(* Properties *)

(* "At most per_window calls to a tool within window_secs, measured across
   turns", whatever starts and ends meanwhile, of the calls that are judged in
   the order in which they read the clock.  A call that is overtaken between
   its look at the clock and the lock can be one more: the later one may have
   dropped from the queue what still counts for it. *)
WindowHolds ==
  setup.action = "deny" =>
    \A k \in Tools, start \in 0 .. MaxTime :
      WindowCap[k] # Nothing =>
        Cardinality({e \in Since(k, history) :
                       ~e.overtaken /\ e.time \in start .. start + Window[k] - 1})
          <= WindowCap[k]

(* "At most per_turn_total tool calls in one turn", and per_turn to one tool,
   of a turn that runs alone; each turn that starts meanwhile, which clears
   the counts of all, allows as many again. *)
TurnHolds ==
  setup.action = "deny" =>
    \A t \in Turns :
      LET mine == {e \in history : e.turn = t}
      IN /\ TotalCap # Nothing => Cardinality(mine) <= TotalCap * (1 + crossed[t])
         /\ \A k \in Tools : ToolCap[k] # Nothing =>
              Cardinality(Since(k, mine)) <= ToolCap[k] * (1 + crossed[t])

(* A call is refused only when the calls of the running turns since the last
   start, or those of the window that ends with it (and, of a call that was
   overtaken, the later ones too), have reached a limit: what earlier turns
   used, and what had left the window, refuses nothing. *)
RefusalEarned == ~wronged

(* The limits are exact, but for calls that are overtaken: they let nothing
   more through, and refuse nothing less, whatever turns start and end beside. *)
LimitsExact == WindowHolds /\ TurnHolds /\ RefusalEarned

(* Two running turns never send to one slot, and a slot that is out has a
   turn that will give it back. *)
SlotsExclusive ==
  /\ \A t, u \in Turns : slot[t] = slot[u] /\ slot[t] # Nothing
                         /\ at[t] # "over" /\ at[u] # "over" => t = u
  /\ \A s \in out : \E t \in Turns : slot[t] = s /\ at[t] # "over"

(* The record tells what the server's slot holds, so that a skipped load
   skips nothing, and a load never destroys a conversation that could have
   been continued; unless a warm-up failed in the slot or the server chose
   it for an unpinned request. *)
RecordTrue ==
  /\ \A s \in Slots \ (astray \cup out) : loaded[s] = holds[s]
  /\ ~wiped

(* The pool's view of the server's slots: whose each is, and what it holds. *)
PoolIsTrue == SlotsExclusive /\ RecordTrue

=============================================================================
