------------------------------ MODULE AuditLog ------------------------------
(***************************************************************************)
(* The persistent audit log: an in-memory hash chain, a bounded channel    *)
(* and a drain task that copies the chain to the encrypted store, together *)
(* with crashes and the verification of the store at the next start.       *)
(*                                                                         *)
(* An event is identified by the number it was minted with; that number    *)
(* stands for the MAC of its entry.  MACs are collision free, so an entry  *)
(* is linked to the one before it exactly when its prev is that number.    *)
(***************************************************************************)
EXTENDS Naturals, Sequences, FiniteSets

CONSTANTS Writers,       \* tasks that call append concurrently
          Capacity,      \* CHANNEL_CAPACITY
          Handlers,      \* does on_error panic? TRUE: open (the daemon);
                         \* FALSE: a handler of with_error_handler
          MaxEvents,     \* bound: events ever appended
          MaxCrashes     \* bound: process crashes

ASSUME AuditAssumption ==
  /\ Capacity \in Nat \ {0}
  /\ Handlers \subseteq BOOLEAN
  /\ MaxEvents \in Nat
  /\ MaxCrashes \in Nat

VARIABLES
  panics,    \* the handler this log was opened with
  chain,     \* HmacChainLog.entries
  channel,   \* entries sent and not yet received by the drain task
  health,    \* the health flag
  pc,        \* where each writer is inside append
  at,        \* the seq each writer got from chain.append
  drain,     \* the drain task's state and the entry it holds
  disk,      \* the rows of KeyDomain::Audit: seq -> entry
  anchor,    \* the chain anchor row
  process,   \* "up", "down", or "refused" when open returned an error
  acked,     \* seqs append returned without calling on_error (this process)
  minted,    \* events appended so far
  overtaken, \* seqs that were inside append when a later one was sent
  unwound,   \* seqs whose failed send ended in a panic of the handler
  crashes

passed == <<overtaken, unwound>>
vars == <<panics, chain, channel, health, pc, at, drain, disk, anchor, process,
          acked, minted, passed, crashes>>

-----------------------------------------------------------------------------

GenesisMac == 0
NoEntry    == [seq |-> 0, prev |-> 0, mac |-> 0]
NoAnchor   == [seq |-> 0, mac |-> 0]
Entry      == [seq : Nat, prev : Nat, mac : Nat]

TailMac(c) == IF c = <<>> THEN GenesisMac ELSE c[Len(c)].mac

Rows(n, e) == [s \in DOMAIN disk \cup {n} |-> IF s = n THEN e ELSE disk[s]]

(* The receiver lives and dies with the drain task. *)
ReceiverOpen == drain.state # "dead"

(* decode_and_validate_rows: no seq gap, every row linked to the one before. *)
Gapless == DOMAIN disk = 0 .. Cardinality(DOMAIN disk) - 1
Linked  == \A s \in DOMAIN disk :
             disk[s].seq = s /\ disk[s].prev = IF s = 0 THEN GenesisMac
                                               ELSE disk[s - 1].mac

(* Mutant: an anchor behind the tail is taken for a truncation as well. *)
Mut_AnchorMustBeTail ==
  anchor # NoAnchor =>
    \E last \in DOMAIN disk :
      /\ \A s \in DOMAIN disk : s <= last
      /\ anchor.seq = last /\ anchor.mac = disk[last].mac

(* check_tail_anchor: an anchor behind the tail is accepted, one ahead of  *)
(* it or with another MAC at the tail is not.                              *)
AnchorAccepted ==
  anchor # NoAnchor =>
    \E last \in DOMAIN disk :
      /\ \A s \in DOMAIN disk : s <= last
      /\ anchor.seq <= last
      /\ anchor.seq = last => anchor.mac = disk[last].mac

-----------------------------------------------------------------------------

Init ==
  /\ panics \in Handlers
  /\ chain = <<>> /\ channel = <<>> /\ health = TRUE
  /\ pc = [w \in Writers |-> "idle"]
  /\ at = [w \in Writers |-> 0]
  /\ drain = [state |-> "recv", entry |-> NoEntry]
  /\ disk = [s \in {} |-> NoEntry]
  /\ anchor = NoAnchor
  /\ process = "up"
  /\ acked = {} /\ minted = 0 /\ crashes = 0
  /\ overtaken = {} /\ unwound = {}

(* append, first statement: chain.append under the chain's own lock. *)
ChainAppend(w) ==
  /\ process = "up"
  /\ pc[w] = "idle"
  /\ minted < MaxEvents
  /\ chain' = Append(chain, [seq  |-> Len(chain),
                             prev |-> TailMac(chain),
                             mac  |-> minted + 1])
  /\ minted' = minted + 1
  /\ at' = [at EXCEPT ![w] = Len(chain)]
  /\ pc' = [pc EXCEPT ![w] = "chained"]
  /\ UNCHANGED <<panics, channel, health, drain, disk, anchor, process,
                 acked, passed, crashes>>

(* append: the health check.  An unhealthy log calls on_error and returns; *)
(* the event stays in the chain and is not sent.                           *)
CheckHealth(w) ==
  /\ process = "up"
  /\ pc[w] = "chained"
  /\ pc' = [pc EXCEPT ![w] = IF health THEN "checked" ELSE "idle"]
  /\ UNCHANGED <<panics, chain, channel, health, at, drain, disk, anchor,
                 process, acked, minted, passed, crashes>>

(* append: chain.get(seq) and a successful try_send. *)
Send(w) ==
  /\ process = "up"
  /\ pc[w] = "checked"
  /\ ReceiverOpen
  /\ Len(channel) < Capacity
  /\ channel' = Append(channel, chain[at[w] + 1])
  /\ acked' = acked \cup {at[w]}
  /\ pc' = [pc EXCEPT ![w] = "idle"]
  /\ overtaken' = overtaken \cup
       {at[v] : v \in {u \in Writers : pc[u] # "idle" /\ at[u] < at[w]}}
  /\ UNCHANGED <<panics, chain, health, at, drain, disk, anchor, process,
                 minted, unwound, crashes>>

(* Mutant: a failed send is taken for an accepted one. *)
Mut_SendFailureIgnored(w) ==
  /\ process = "up"
  /\ pc[w] = "checked"
  /\ \/ ~ReceiverOpen
     \/ Len(channel) >= Capacity
  /\ pc' = [pc EXCEPT ![w] = "idle"]
  /\ acked' = acked \cup {at[w]}
  /\ UNCHANGED <<panics, chain, channel, health, at, drain, disk, anchor,
                 process, minted, passed, crashes>>

(* append: try_send on a full or closed channel.  on_error runs before the *)
(* flag is flipped: a handler that panics unwinds past the flip.           *)
SendFails(w) ==
  /\ process = "up"
  /\ pc[w] = "checked"
  /\ \/ ~ReceiverOpen
     \/ Len(channel) >= Capacity
  /\ pc' = [pc EXCEPT ![w] = IF panics THEN "idle" ELSE "sendFailed"]
  /\ unwound' = IF panics THEN unwound \cup {at[w]} ELSE unwound
  /\ UNCHANGED <<panics, chain, channel, health, at, drain, disk, anchor,
                 process, acked, minted, overtaken, crashes>>

(* Mutant: the health flag survives a failed send. *)
Mut_NoFlip(w) ==
  /\ process = "up"
  /\ pc[w] = "sendFailed"
  /\ pc' = [pc EXCEPT ![w] = "idle"]
  /\ UNCHANGED <<panics, chain, channel, health, at, drain, disk, anchor,
                 process, acked, minted, passed, crashes>>

FlipHealth(w) ==
  /\ process = "up"
  /\ pc[w] = "sendFailed"
  /\ health' = FALSE
  /\ pc' = [pc EXCEPT ![w] = "idle"]
  /\ UNCHANGED <<panics, chain, channel, at, drain, disk, anchor, process,
                 acked, minted, passed, crashes>>

-----------------------------------------------------------------------------

(* Mutant: the anchor is written before the entry it names. *)
Mut_AnchorFirst ==
  /\ process = "up"
  /\ drain.state = "recv"
  /\ channel # <<>>
  /\ channel' = Tail(channel)
  /\ drain' = [state |-> "put", entry |-> Head(channel)]
  /\ anchor' = [seq |-> Head(channel).seq, mac |-> Head(channel).mac]
  /\ UNCHANGED <<panics, chain, health, pc, at, disk, process, acked, minted,
                 passed, crashes>>

(* The drain task receives the next entry; an unhealthy log drops it. *)
DrainRecv ==
  /\ process = "up"
  /\ drain.state = "recv"
  /\ channel # <<>>
  /\ channel' = Tail(channel)
  /\ drain' = IF health THEN [state |-> "put", entry |-> Head(channel)]
                        ELSE drain
  /\ UNCHANGED <<panics, chain, health, pc, at, disk, anchor, process, acked,
                 minted, passed, crashes>>

PutOk ==
  /\ process = "up"
  /\ drain.state = "put"
  /\ disk' = Rows(drain.entry.seq, drain.entry)
  /\ drain' = [drain EXCEPT !.state = "anchor"]
  /\ UNCHANGED <<panics, chain, channel, health, pc, at, anchor, process,
                 acked, minted, passed, crashes>>

(* The end of the drain task drops the receiver and what is queued in it. *)
DrainDies == /\ drain' = [state |-> "dead", entry |-> NoEntry]
             /\ channel' = <<>>

(* on_error in the drain task: a handler that panics ends the task. *)
DrainReports == IF panics
                THEN DrainDies
                ELSE /\ drain' = [state |-> "recv", entry |-> NoEntry]
                     /\ UNCHANGED channel

(* Mutant: a failed put is logged and the drain task takes the next entry. *)
Mut_PutFailureSkips ==
  /\ process = "up"
  /\ drain.state = "put"
  /\ drain' = [state |-> "recv", entry |-> NoEntry]
  /\ UNCHANGED <<panics, chain, channel, health, pc, at, disk, anchor,
                 process, acked, minted, passed, crashes>>

(* A failed put: mark_unhealthy, then on_error, then the next entry. *)
PutFails ==
  /\ process = "up"
  /\ drain.state = "put"
  /\ health' = FALSE
  /\ DrainReports
  /\ UNCHANGED <<panics, chain, pc, at, disk, anchor, process, acked, minted,
                 passed, crashes>>

AnchorOk ==
  /\ process = "up"
  /\ drain.state = "anchor"
  /\ anchor' = [seq |-> drain.entry.seq, mac |-> drain.entry.mac]
  /\ drain' = [state |-> "recv", entry |-> NoEntry]
  /\ UNCHANGED <<panics, chain, channel, health, pc, at, disk, process,
                 acked, minted, passed, crashes>>

(* A failed anchor write leaves the log healthy and calls on_error. *)
AnchorFails ==
  /\ process = "up"
  /\ drain.state = "anchor"
  /\ DrainReports
  /\ UNCHANGED <<panics, chain, health, pc, at, disk, anchor, process, acked,
                 minted, passed, crashes>>

(* Either put is cancelled by a runtime that shuts down: the loop breaks   *)
(* without marking the log unhealthy.                                      *)
DrainCancelled ==
  /\ process = "up"
  /\ drain.state \in {"put", "anchor"}
  /\ DrainDies
  /\ UNCHANGED <<panics, chain, health, pc, at, disk, anchor, process, acked,
                 minted, passed, crashes>>

-----------------------------------------------------------------------------

(* A crash, or the Drop that aborts the drain task: everything in memory   *)
(* is gone, the rows and the anchor stay as the last commit left them.     *)
Crash ==
  /\ process = "up"
  /\ crashes < MaxCrashes
  /\ crashes' = crashes + 1
  /\ process' = "down"
  /\ chain' = <<>> /\ channel' = <<>> /\ acked' = {}
  /\ pc' = [w \in Writers |-> "idle"]
  /\ at' = [w \in Writers |-> 0]
  /\ drain' = [state |-> "dead", entry |-> NoEntry]
  /\ UNCHANGED <<panics, health, disk, anchor, minted, passed>>

(* Mutant: the rows are verified and the chain starts empty. *)
Mut_OpenForgetsRows ==
  /\ process = "down"
  /\ Gapless /\ Linked /\ AnchorAccepted
  /\ process' = "up"
  /\ health' = TRUE
  /\ drain' = [state |-> "recv", entry |-> NoEntry]
  /\ overtaken' = {} /\ unwound' = {}
  /\ UNCHANGED <<panics, chain, channel, pc, at, disk, anchor, acked, minted,
                 crashes>>

(* open: scan, decode, verify; the verified rows become the chain. *)
Open ==
  /\ process = "down"
  /\ Gapless /\ Linked /\ AnchorAccepted
  /\ process' = "up"
  /\ chain' = [i \in 1 .. Cardinality(DOMAIN disk) |-> disk[i - 1]]
  /\ health' = TRUE
  /\ drain' = [state |-> "recv", entry |-> NoEntry]
  /\ overtaken' = {} /\ unwound' = {}
  /\ UNCHANGED <<panics, channel, pc, at, disk, anchor, acked, minted,
                 crashes>>

(* open returns an error: the daemon does not start on this store. *)
OpenRefused ==
  /\ process = "down"
  /\ ~(Gapless /\ Linked /\ AnchorAccepted)
  /\ process' = "refused"
  /\ UNCHANGED <<panics, chain, channel, health, pc, at, drain, disk, anchor,
                 acked, minted, passed, crashes>>

-----------------------------------------------------------------------------

Writer(w) == \/ ChainAppend(w) \/ CheckHealth(w) \/ Send(w)
             \/ SendFails(w)   \/ FlipHealth(w)

DrainTask == \/ DrainRecv \/ PutOk \/ PutFails \/ AnchorOk \/ AnchorFails
             \/ DrainCancelled

Next == \/ \E w \in Writers : Writer(w)
        \/ DrainTask
        \/ Crash \/ Open \/ OpenRefused

Spec == Init /\ [][Next]_vars

(* The runtime keeps polling the drain task, and a started put returns.    *)
(* Callers, crashes and restarts are under no obligation.                  *)
FairSpec == Spec /\ WF_vars(DrainTask)

-----------------------------------------------------------------------------
(* Properties *)

TypeOK ==
  /\ panics \in BOOLEAN
  /\ chain \in Seq(Entry) /\ channel \in Seq(Entry)
  /\ health \in BOOLEAN
  /\ pc \in [Writers -> {"idle", "chained", "checked", "sendFailed"}]
  /\ at \in [Writers -> Nat]
  /\ drain \in [state : {"recv", "put", "anchor", "dead"}, entry : Entry]
  /\ DOMAIN disk \subseteq Nat /\ \A s \in DOMAIN disk : disk[s] \in Entry
  /\ anchor \in [seq : Nat, mac : Nat]
  /\ process \in {"up", "down", "refused"}
  /\ acked \subseteq Nat
  /\ minted \in Nat /\ crashes \in Nat
  /\ overtaken \subseteq Nat /\ unwound \subseteq Nat

(* Disk is a replica of the chain (module doc, invariant 1): whatever the  *)
(* interleaving of appends, failed puts and restarts, a row never holds an *)
(* entry that differs from the live chain's entry at the same seq.         *)
RowsComeFromChain ==
  process = "up" =>
    \A s \in DOMAIN disk : s < Len(chain) /\ disk[s] = chain[s + 1]

(* Invariant 6 of the module doc: the anchor names a row that the store    *)
(* really has, with that row's MAC, in every state a crash can expose.     *)
AnchorNeverAhead ==
  anchor # NoAnchor =>
    anchor.seq \in DOMAIN disk /\ disk[anchor.seq].mac = anchor.mac

(* What is on disk is the chain's: its rows, and the row the anchor names. *)
StoreIsChain == RowsComeFromChain /\ AnchorNeverAhead

(* While is_healthy and the drain task live, an event that append accepted *)
(* without calling on_error is on disk or still on its way there.          *)
AckedNotLostWhileHealthy ==
  (process = "up" /\ health /\ ReceiverOpen) =>
    \A s \in acked :
      \/ s \in DOMAIN disk
      \/ drain.state = "put" /\ drain.entry.seq = s
      \/ \E i \in 1 .. Len(channel) : channel[i].seq = s

(* The durable log is append-only: no step, restart included, changes or   *)
(* removes a row, although a seq is minted again after a lost tail.        *)
RowsAreFinal == [][\A s \in DOMAIN disk : s \in DOMAIN disk' /\ disk'[s] = disk[s]]_vars

(* A row that is there while the one before it is not makes the next start *)
(* refuse the store.  This has two causes and no other, whatever appends   *)
(* interleave, writes fail and crashes fall between: a later event was     *)
(* sent before an earlier one that was still inside append, or the handler *)
(* panicked over a failed send and kept the log from turning unhealthy.    *)
HolesAreExplained ==
  \A r \in DOMAIN disk : \A s \in 0 .. r - 1 :
    s \in DOMAIN disk \cup overtaken \cup unwound

(* "A crash loses the tail of the log but never produces a log with a      *)
(* broken chain", but for those two: a start is refused for nothing else,  *)
(* not for the anchor, which may be behind, nor for a link.                *)
RestartOpens ==
  process = "refused" =>
    \E r \in DOMAIN disk : \E s \in 0 .. r - 1 :
      s \notin DOMAIN disk /\ s \in overtaken \cup unwound

(* "Append order equals disk order": no row without those before it.  It   *)
(* fails as soon as two tasks append.                                      *)
DiskOrderIsAppendOrder == Gapless

(* "Never produces a log with a broken chain": fails with one task as well, *)
(* after a full channel, when the handler panics.                          *)
NeverRefused == process # "refused"

(* An accepted event reaches the disk, unless the log is shut down or has  *)
(* turned unhealthy or its drain task has ended.                           *)
AckedReachesDisk ==
  \A s \in 0 .. MaxEvents :
    (s \in acked) ~> \/ s \in DOMAIN disk
                     \/ process # "up" \/ ~health \/ ~ReceiverOpen

(* What is in the chain and not a row yet. *)
VolatileEntries ==
  IF process = "up"
  THEN [s \in {n \in 0 .. Len(chain) - 1 : n \notin DOMAIN disk} |-> chain[s + 1]]
  ELSE [s \in {} |-> NoEntry]

Journal == INSTANCE AuditJournal WITH
  Place <- 0 .. MaxEvents,
  JournalEntry <- [seq : 0 .. MaxEvents, prev : 0 .. MaxEvents,
                   mac : 0 .. MaxEvents],
  durable  <- disk,
  volatile <- VolatileEntries,
  skipped  <- overtaken \cup unwound

(* The log implements the journal for any number of writers and either     *)
(* handler: rows become durable in order but for what was passed over,     *)
(* keep what was recorded at their place, and a crash loses only the rest. *)
ImplementsJournal == Journal!Spec

=============================================================================
