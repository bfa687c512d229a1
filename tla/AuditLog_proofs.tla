--------------------------- MODULE AuditLog_proofs ---------------------------
(***************************************************************************)
(* Proofs about AuditLog for every set of writers, every channel capacity  *)
(* and both error handlers.                                                *)
(***************************************************************************)
EXTENDS AuditLog, FiniteSetTheorems, SequenceTheorems, TLAPS

(* The entry is the one the live chain has at the entry's own seq. *)
OfChain(e) == e.seq < Len(chain) /\ e = chain[e.seq + 1]

(* The chain numbers its entries by position. *)
ChainNumbered == \A i \in 1 .. Len(chain) : chain[i].seq = i - 1

(* What is on its way to the store comes from the chain. *)
QueuedOfChain == \A i \in 1 .. Len(channel) : OfChain(channel[i])
DrainOfChain  == drain.state \in {"put", "anchor"} => OfChain(drain.entry)
HeldOfChain   == \A w \in Writers : pc[w] # "idle" => at[w] < Len(chain)

(* The entry the drain task is about to anchor is a row. *)
AnchoringARow == drain.state = "anchor" =>
                   /\ drain.entry.seq \in DOMAIN disk
                   /\ disk[drain.entry.seq] = drain.entry

IInv ==
  /\ TypeOK
  /\ IsFiniteSet(DOMAIN disk)
  /\ process = "up" => /\ ChainNumbered /\ QueuedOfChain /\ DrainOfChain
                       /\ HeldOfChain /\ AnchoringARow
  /\ RowsComeFromChain
  /\ AnchorNeverAhead

-----------------------------------------------------------------------------

(* The MAC the next entry links to is a number. *)
LEMMA TailMacType ==
  ASSUME chain \in Seq(Entry)
  PROVE  TailMac(chain) \in Nat
<1>1. CASE chain = <<>>
  BY <1>1 DEF TailMac, GenesisMac
<1>2. CASE chain # <<>>
  <2>1. Len(chain) \in 1 .. Len(chain)
    BY <1>2
  <2>2. chain[Len(chain)] \in Entry
    BY <2>1
  <2> QED BY <1>2, <2>2 DEF TailMac, Entry
<1> QED BY <1>1, <1>2

(* An empty chain over an empty store satisfies the invariant. *)
THEOREM InitIInv == Init => IInv
<1> SUFFICES ASSUME Init PROVE IInv
  OBVIOUS
<1>1. NoEntry \in Entry
  BY DEF NoEntry, Entry
<1>2. /\ chain = <<>> /\ channel = <<>> /\ chain \in Seq(Entry)
      /\ channel \in Seq(Entry) /\ Len(chain) = 0 /\ Len(channel) = 0
  BY DEF Init
<1>3. TypeOK
  BY <1>1, <1>2, AuditAssumption DEF Init, TypeOK, NoAnchor
<1>4. IsFiniteSet(DOMAIN disk)
  BY FS_EmptySet DEF Init
<1>5. ChainNumbered /\ QueuedOfChain
  BY <1>2 DEF ChainNumbered, QueuedOfChain
<1>6. DrainOfChain /\ HeldOfChain /\ AnchoringARow
  BY DEF Init, DrainOfChain, HeldOfChain, AnchoringARow
<1>7. RowsComeFromChain /\ AnchorNeverAhead
  BY DEF Init, RowsComeFromChain, AnchorNeverAhead
<1> QED BY <1>3, <1>4, <1>5, <1>6, <1>7 DEF IInv

(* Appending an entry numbered by the length of the chain keeps every      *)
(* entry the chain had, and with it whatever is on its way to the store.   *)
LEMMA ChainAppendIInv ==
  ASSUME IInv, NEW w \in Writers, ChainAppend(w)
  PROVE  IInv'
<1> DEFINE new == [seq |-> Len(chain), prev |-> TailMac(chain),
                   mac |-> minted + 1]
<1>1. TypeOK
  BY DEF IInv
<1>2. process = "up"
  BY DEF ChainAppend
<1>3. new \in Entry
  BY <1>1, TailMacType DEF Entry, TypeOK
<1>4. /\ chain' \in Seq(Entry)
      /\ Len(chain') = Len(chain) + 1
      /\ \A i \in 1 .. Len(chain) : chain'[i] = chain[i]
      /\ chain'[Len(chain) + 1] = new
  BY <1>1, <1>3, AppendProperties DEF ChainAppend, TypeOK
<1>5. TypeOK'
  BY <1>1, <1>4 DEF ChainAppend, TypeOK, passed
<1>6. ChainNumbered'
  <2>1. Len(chain) \in Nat /\ ChainNumbered
    BY <1>1, <1>2 DEF IInv, TypeOK
  <2>2. ASSUME NEW i \in 1 .. Len(chain') PROVE chain'[i].seq = i - 1
    <3>1. CASE i \in 1 .. Len(chain)
      BY <1>4, <2>1, <3>1 DEF ChainNumbered
    <3>2. CASE i = Len(chain) + 1
      BY <1>4, <2>1, <3>2
    <3> QED BY <1>4, <2>1, <3>1, <3>2
  <2> QED BY <2>2 DEF ChainNumbered
<1>7. ASSUME NEW e \in Entry, OfChain(e) PROVE OfChain(e)'
  <2>1. e.seq \in Nat /\ e.seq + 1 \in 1 .. Len(chain)
    <3>1. e.seq \in Nat
      BY DEF Entry
    <3>2. Len(chain) \in Nat
      BY <1>1 DEF TypeOK
    <3>3. e.seq < Len(chain)
      BY <1>7 DEF OfChain
    <3> QED BY <3>1, <3>2, <3>3
  <2>2. e.seq < Len(chain')
    BY <1>1, <1>4, <1>7, <2>1 DEF OfChain, TypeOK
  <2>3. chain'[e.seq + 1] = chain[e.seq + 1]
    BY <1>4, <2>1
  <2> QED BY <1>7, <2>2, <2>3 DEF OfChain
<1>8. QueuedOfChain'
  BY <1>1, <1>2, <1>7 DEF IInv, QueuedOfChain, ChainAppend, TypeOK
<1>9. DrainOfChain'
  BY <1>1, <1>2, <1>7 DEF IInv, DrainOfChain, ChainAppend, TypeOK
<1>10. HeldOfChain'
  BY <1>1, <1>2, <1>4 DEF IInv, HeldOfChain, ChainAppend, TypeOK
<1>11. RowsComeFromChain'
  BY <1>1, <1>2, <1>4 DEF IInv, RowsComeFromChain, ChainAppend, TypeOK
<1>12. /\ AnchoringARow' /\ AnchorNeverAhead' /\ IsFiniteSet(DOMAIN disk)'
  BY <1>2 DEF IInv, AnchoringARow, AnchorNeverAhead, ChainAppend
<1> QED
  BY <1>5, <1>6, <1>8, <1>9, <1>10, <1>11, <1>12 DEF IInv

(* Reading the health flag, and the two ends of a failed send, move one    *)
(* writer's program counter and perhaps the flag.                          *)
LEMMA WriterFlagIInv ==
  ASSUME IInv, NEW w \in Writers,
         CheckHealth(w) \/ SendFails(w) \/ FlipHealth(w)
  PROVE  IInv'
<1>1. /\ UNCHANGED <<chain, channel, at, drain, disk, anchor, process, acked,
                     minted, crashes>>
      /\ process = "up"
      /\ pc[w] # "idle"
      /\ health' \in {health, FALSE}
      /\ panics' = panics /\ overtaken' = overtaken
      /\ unwound' \in {unwound, unwound \cup {at[w]}}
      /\ \E l \in {"idle", "checked", "sendFailed"} :
           pc' = [pc EXCEPT ![w] = l]
  BY DEF CheckHealth, SendFails, FlipHealth, passed
<1>2. TypeOK'
  <2>1. pc' \in [Writers -> {"idle", "chained", "checked", "sendFailed"}]
    BY <1>1 DEF IInv, TypeOK
  <2>2. unwound' \subseteq Nat /\ health' \in BOOLEAN
    BY <1>1 DEF IInv, TypeOK
  <2> QED BY <1>1, <2>1, <2>2 DEF IInv, TypeOK
<1>3. HeldOfChain'
  BY <1>1 DEF IInv, TypeOK, HeldOfChain
<1>4. ChainNumbered' /\ QueuedOfChain' /\ DrainOfChain' /\ AnchoringARow'
  BY <1>1 DEF IInv, ChainNumbered, QueuedOfChain, DrainOfChain, OfChain,
              AnchoringARow
<1>5. RowsComeFromChain' /\ AnchorNeverAhead' /\ IsFiniteSet(DOMAIN disk)'
  BY <1>1 DEF IInv, RowsComeFromChain, AnchorNeverAhead
<1> QED BY <1>2, <1>3, <1>4, <1>5 DEF IInv

(* A send queues the chain's entry at the seq the writer was given. *)
LEMMA SendIInv ==
  ASSUME IInv, NEW w \in Writers, Send(w)
  PROVE  IInv'
<1> DEFINE e == chain[at[w] + 1]
<1>1. TypeOK /\ process = "up" /\ at[w] \in Nat /\ at[w] < Len(chain)
      /\ ChainNumbered /\ QueuedOfChain
  BY DEF IInv, TypeOK, HeldOfChain, Send
<1>2. at[w] + 1 \in 1 .. Len(chain)
  BY <1>1 DEF TypeOK
<1>3. e \in Entry
  BY <1>1, <1>2 DEF TypeOK
<1>4. e.seq = at[w]
  BY <1>1, <1>2 DEF ChainNumbered
<1>5. OfChain(e)
  BY <1>1, <1>4 DEF OfChain
<1>6. /\ channel' \in Seq(Entry)
      /\ Len(channel') = Len(channel) + 1
      /\ \A i \in 1 .. Len(channel) : channel'[i] = channel[i]
      /\ channel'[Len(channel) + 1] = e
  BY <1>1, <1>3, AppendProperties DEF Send, TypeOK
<1>7. TypeOK'
  <2>1. overtaken' \subseteq Nat /\ acked' \subseteq Nat
    BY <1>1 DEF Send, TypeOK
  <2> QED BY <1>1, <1>6, <2>1 DEF Send, TypeOK
<1>8. QueuedOfChain'
  <2>1. UNCHANGED chain
    BY DEF Send
  <2>2. ASSUME NEW i \in 1 .. Len(channel') PROVE OfChain(channel'[i])
    <3>1. Len(channel) \in Nat
      BY <1>1 DEF TypeOK
    <3>2. CASE i = Len(channel) + 1
      BY <1>5, <1>6, <3>2
    <3>3. CASE i \in 1 .. Len(channel)
      BY <1>1, <1>6, <3>3 DEF QueuedOfChain
    <3> QED BY <1>6, <3>1, <3>2, <3>3
  <2> QED BY <2>1, <2>2 DEF QueuedOfChain, OfChain
<1>9. HeldOfChain'
  BY <1>1 DEF IInv, TypeOK, HeldOfChain, Send
<1>10. ChainNumbered' /\ DrainOfChain' /\ AnchoringARow'
  BY <1>1 DEF IInv, ChainNumbered, DrainOfChain, OfChain, AnchoringARow, Send
<1>11. RowsComeFromChain' /\ AnchorNeverAhead' /\ IsFiniteSet(DOMAIN disk)'
  BY DEF IInv, RowsComeFromChain, AnchorNeverAhead, Send
<1> QED BY <1>7, <1>8, <1>9, <1>10, <1>11 DEF IInv

-----------------------------------------------------------------------------

(* Receiving hands the head of the channel to the drain task. *)
LEMMA DrainRecvIInv ==
  ASSUME IInv, DrainRecv
  PROVE  IInv'
<1>1. TypeOK /\ process = "up" /\ QueuedOfChain /\ ChainNumbered
      /\ HeldOfChain /\ channel # <<>> /\ drain.state = "recv"
  BY DEF IInv, DrainRecv
<1>2. /\ Head(channel) = channel[1]
      /\ 1 \in 1 .. Len(channel)
      /\ Head(channel) \in Entry
      /\ OfChain(Head(channel))
  BY <1>1 DEF TypeOK, QueuedOfChain
<1>3. /\ Tail(channel) \in Seq(Entry)
      /\ Len(Tail(channel)) = Len(channel) - 1
      /\ \A i \in 1 .. Len(Tail(channel)) : Tail(channel)[i] = channel[i + 1]
  BY <1>1, HeadTailProperties DEF TypeOK
<1>4. TypeOK'
  BY <1>1, <1>2, <1>3 DEF DrainRecv, TypeOK, passed
<1>5. QueuedOfChain'
  <2>1. UNCHANGED chain /\ channel' = Tail(channel)
    BY DEF DrainRecv
  <2>2. ASSUME NEW i \in 1 .. Len(channel') PROVE OfChain(channel'[i])
    <3>1. i + 1 \in 1 .. Len(channel)
      BY <1>1, <1>3, <2>1 DEF TypeOK
    <3>2. channel'[i] = channel[i + 1]
      BY <1>3, <2>1
    <3> QED BY <1>1, <3>1, <3>2 DEF QueuedOfChain
  <2> QED BY <2>1, <2>2 DEF QueuedOfChain, OfChain
<1>6. DrainOfChain' /\ AnchoringARow'
  BY <1>1, <1>2 DEF DrainRecv, DrainOfChain, AnchoringARow, OfChain
<1>7. ChainNumbered' /\ HeldOfChain'
  BY <1>1 DEF DrainRecv, ChainNumbered, HeldOfChain
<1>8. RowsComeFromChain' /\ AnchorNeverAhead' /\ IsFiniteSet(DOMAIN disk)'
  BY DEF IInv, RowsComeFromChain, AnchorNeverAhead, DrainRecv
<1> QED BY <1>4, <1>5, <1>6, <1>7, <1>8 DEF IInv

(* A row is written with the chain's entry at that seq, so a row that is   *)
(* already there keeps its content, and the anchor its row.                *)
LEMMA PutOkRows ==
  ASSUME IInv, PutOk
  PROVE  /\ drain.entry.seq \in Nat
         /\ drain.entry.seq < Len(chain)
         /\ drain.entry = chain[drain.entry.seq + 1]
         /\ DOMAIN disk' = DOMAIN disk \cup {drain.entry.seq}
         /\ disk'[drain.entry.seq] = drain.entry
         /\ \A s \in DOMAIN disk : disk'[s] = disk[s]
<1>1. TypeOK /\ process = "up" /\ DrainOfChain /\ RowsComeFromChain
      /\ drain.state = "put"
  BY DEF IInv, PutOk
<1>2. drain.entry.seq \in Nat /\ OfChain(drain.entry)
  BY <1>1 DEF TypeOK, DrainOfChain, Entry
<1>3. /\ DOMAIN disk' = DOMAIN disk \cup {drain.entry.seq}
      /\ disk'[drain.entry.seq] = drain.entry
      /\ \A s \in DOMAIN disk : s # drain.entry.seq => disk'[s] = disk[s]
  BY DEF PutOk, Rows
<1>4. drain.entry.seq \in DOMAIN disk => disk[drain.entry.seq] = drain.entry
  BY <1>1, <1>2 DEF RowsComeFromChain, OfChain
<1> QED BY <1>2, <1>3, <1>4 DEF OfChain

(* Writing the received entry adds a row that agrees with the chain. *)
LEMMA PutOkIInv ==
  ASSUME IInv, PutOk
  PROVE  IInv'
<1>1. TypeOK /\ process = "up" /\ RowsComeFromChain /\ AnchorNeverAhead
      /\ drain.state = "put" /\ ChainNumbered /\ QueuedOfChain /\ HeldOfChain
      /\ DrainOfChain /\ IsFiniteSet(DOMAIN disk)
  BY DEF IInv, PutOk
<1>2. /\ UNCHANGED <<chain, channel, health, pc, at, anchor, process, acked,
                     minted, crashes, panics, overtaken, unwound>>
      /\ drain' = [drain EXCEPT !.state = "anchor"]
  BY DEF PutOk, passed
<1>3. drain'.entry = drain.entry /\ drain'.state = "anchor"
      /\ drain.entry \in Entry
  BY <1>1, <1>2 DEF TypeOK
<1>4. TypeOK'
  BY <1>1, <1>2, <1>3, PutOkRows DEF TypeOK
<1>5. IsFiniteSet(DOMAIN disk')
  BY <1>1, PutOkRows, FS_AddElement
<1>6. RowsComeFromChain'
  BY <1>1, <1>2, PutOkRows DEF RowsComeFromChain
<1>7. AnchorNeverAhead'
  BY <1>1, <1>2, PutOkRows DEF AnchorNeverAhead
<1>8. DrainOfChain' /\ AnchoringARow'
  BY <1>1, <1>2, <1>3, PutOkRows DEF DrainOfChain, OfChain, AnchoringARow
<1>9. ChainNumbered' /\ QueuedOfChain' /\ HeldOfChain'
  BY <1>1, <1>2 DEF ChainNumbered, QueuedOfChain, HeldOfChain, OfChain
<1> QED BY <1>4, <1>5, <1>6, <1>7, <1>8, <1>9 DEF IInv

(* The anchor moves to a row the drain task has just written. *)
LEMMA AnchorOkIInv ==
  ASSUME IInv, AnchorOk
  PROVE  IInv'
<1>1. TypeOK /\ process = "up" /\ AnchoringARow /\ drain.state = "anchor"
      /\ ChainNumbered /\ QueuedOfChain /\ HeldOfChain
  BY DEF IInv, AnchorOk
<1>2. NoEntry \in Entry
  BY DEF NoEntry, Entry
<1>3. drain.entry.seq \in Nat /\ drain.entry.mac \in Nat
  BY <1>1 DEF TypeOK, Entry
<1>4. TypeOK'
  BY <1>1, <1>2, <1>3 DEF AnchorOk, TypeOK, passed
<1>5. AnchorNeverAhead'
  BY <1>1, <1>3 DEF AnchorOk, AnchorNeverAhead, AnchoringARow
<1>6. DrainOfChain' /\ AnchoringARow'
  BY DEF AnchorOk, DrainOfChain, AnchoringARow
<1>7. ChainNumbered' /\ QueuedOfChain' /\ HeldOfChain'
  BY <1>1 DEF AnchorOk, ChainNumbered, QueuedOfChain, HeldOfChain, OfChain
<1>8. RowsComeFromChain' /\ IsFiniteSet(DOMAIN disk)'
  BY DEF IInv, RowsComeFromChain, AnchorOk
<1> QED BY <1>4, <1>5, <1>6, <1>7, <1>8 DEF IInv

(* The drain task that fails or stops leaves the store as it was. *)
LEMMA DrainStopsIInv ==
  ASSUME IInv, PutFails \/ AnchorFails \/ DrainCancelled
  PROVE  IInv'
<1>1. /\ UNCHANGED <<chain, pc, at, disk, anchor, process, acked, minted,
                     crashes, panics, overtaken, unwound>>
      /\ process = "up"
      /\ health' \in {health, FALSE}
      /\ drain' \in {[state |-> "dead", entry |-> NoEntry],
                     [state |-> "recv", entry |-> NoEntry]}
      /\ channel' = <<>> \/ UNCHANGED channel
  BY DEF PutFails, AnchorFails, DrainCancelled, DrainReports, DrainDies, passed
<1>2. NoEntry \in Entry
  BY DEF NoEntry, Entry
<1>3. <<>> \in Seq(Entry) /\ Len(<<>>) = 0
  OBVIOUS
<1>4. TypeOK'
  <2>1. drain' \in [state : {"recv", "put", "anchor", "dead"}, entry : Entry]
    BY <1>1, <1>2
  <2>2. channel' \in Seq(Entry) /\ health' \in BOOLEAN
    BY <1>1, <1>3 DEF IInv, TypeOK
  <2> QED BY <1>1, <2>1, <2>2 DEF IInv, TypeOK
<1>5. QueuedOfChain'
  BY <1>1, <1>3 DEF IInv, QueuedOfChain, OfChain
<1>6. DrainOfChain' /\ AnchoringARow'
  BY <1>1 DEF DrainOfChain, AnchoringARow
<1>7. ChainNumbered' /\ HeldOfChain'
  BY <1>1 DEF IInv, ChainNumbered, HeldOfChain
<1>8. RowsComeFromChain' /\ AnchorNeverAhead' /\ IsFiniteSet(DOMAIN disk)'
  BY <1>1 DEF IInv, RowsComeFromChain, AnchorNeverAhead
<1> QED BY <1>4, <1>5, <1>6, <1>7, <1>8 DEF IInv

-----------------------------------------------------------------------------

(* A crash forgets the chain and the channel and leaves the store. *)
LEMMA CrashIInv ==
  ASSUME IInv, Crash \/ OpenRefused
  PROVE  IInv'
<1>1. NoEntry \in Entry
  BY DEF NoEntry, Entry
<1>2. <<>> \in Seq(Entry)
  OBVIOUS
<1>3. TypeOK'
  <2>1. CASE Crash
    <3>1. drain' \in [state : {"recv", "put", "anchor", "dead"}, entry : Entry]
      BY <1>1, <2>1 DEF Crash
    <3>2. chain' \in Seq(Entry) /\ channel' \in Seq(Entry) /\ acked' \subseteq Nat
      BY <1>2, <2>1 DEF Crash
    <3>3. /\ pc' \in [Writers -> {"idle", "chained", "checked", "sendFailed"}]
          /\ at' \in [Writers -> Nat]
      BY <2>1 DEF Crash
    <3>4. /\ UNCHANGED <<health, disk, anchor, minted, panics, overtaken, unwound>>
          /\ process' = "down" /\ crashes' = crashes + 1
      BY <2>1 DEF Crash, passed
    <3> QED BY <3>1, <3>2, <3>3, <3>4 DEF IInv, TypeOK
  <2>2. CASE OpenRefused
    BY <2>2 DEF IInv, TypeOK, OpenRefused, passed
  <2> QED BY <2>1, <2>2
<1>4. process' # "up"
  BY DEF Crash, OpenRefused
<1>5. RowsComeFromChain' /\ AnchorNeverAhead' /\ IsFiniteSet(DOMAIN disk)'
  BY <1>4 DEF IInv, RowsComeFromChain, AnchorNeverAhead, Crash, OpenRefused
<1> QED BY <1>3, <1>4, <1>5 DEF IInv

(* A store that passes the verification is rebuilt into a chain that has   *)
(* exactly its rows.  While the process is down no writer is inside append *)
(* and nothing is queued.                                                  *)
DownIsEmpty == process # "up" => channel = <<>> /\ \A w \in Writers : pc[w] = "idle"

(* A start that accepts the store takes its rows as the new chain. *)
LEMMA OpenIInv ==
  ASSUME IInv, DownIsEmpty, Open
  PROVE  IInv'
<1> DEFINE n == Cardinality(DOMAIN disk)
<1>1. TypeOK /\ IsFiniteSet(DOMAIN disk) /\ AnchorNeverAhead
      /\ DOMAIN disk = 0 .. n - 1 /\ Linked
      /\ channel = <<>> /\ \A w \in Writers : pc[w] = "idle"
  BY DEF IInv, Open, Gapless, DownIsEmpty
<1>2. n \in Nat
  BY <1>1, FS_CardinalityType
<1>3. /\ process' = "up"
      /\ chain' = [i \in 1 .. n |-> disk[i - 1]]
      /\ drain' = [state |-> "recv", entry |-> NoEntry]
      /\ health' = TRUE
      /\ UNCHANGED <<panics, channel, pc, at, disk, anchor, acked, minted, crashes>>
      /\ overtaken' = {} /\ unwound' = {}
  BY DEF Open
<1> HIDE DEF n
<1>4. \A i \in 1 .. n : i - 1 \in DOMAIN disk /\ disk[i - 1] \in Entry
  <2>1. \A i \in 1 .. n : i - 1 \in 0 .. n - 1
    BY <1>2
  <2>2. DOMAIN disk = 0 .. n - 1
    BY <1>1 DEF n
  <2>3. \A s \in DOMAIN disk : disk[s] \in Entry
    BY <1>1 DEF TypeOK
  <2> QED BY <2>1, <2>2, <2>3
<1>5. chain' \in Seq(Entry) /\ Len(chain') = n
  BY <1>2, <1>3, <1>4
<1>6. NoEntry \in Entry
  BY DEF NoEntry, Entry
<1>7. TypeOK'
  BY <1>1, <1>3, <1>5, <1>6 DEF TypeOK
<1>8. ChainNumbered'
  BY <1>1, <1>2, <1>3, <1>4, <1>5 DEF ChainNumbered, Linked
<1>9. RowsComeFromChain'
  <2>1. ASSUME NEW s \in DOMAIN disk
        PROVE  s < Len(chain') /\ chain'[s + 1] = disk[s]
    <3>1. s \in Int /\ s + 1 \in 1 .. n
      BY <1>1, <1>2 DEF TypeOK
    <3> QED BY <1>2, <1>3, <1>5, <3>1
  <2> QED BY <1>3, <2>1 DEF RowsComeFromChain
<1>10. QueuedOfChain' /\ DrainOfChain' /\ HeldOfChain' /\ AnchoringARow'
  BY <1>1, <1>3 DEF QueuedOfChain, DrainOfChain, HeldOfChain, AnchoringARow
<1>11. AnchorNeverAhead' /\ IsFiniteSet(DOMAIN disk)'
  BY <1>1, <1>3 DEF AnchorNeverAhead
<1> QED BY <1>7, <1>8, <1>9, <1>10, <1>11 DEF IInv

(* The log starts up, so nothing is claimed of a process that is down. *)
LEMMA InitDown == Init => DownIsEmpty
  BY DEF Init, DownIsEmpty

(* A process that is down has no channel and no append under way. *)
LEMMA NextDown ==
  ASSUME DownIsEmpty, [Next]_vars
  PROVE  DownIsEmpty'
  BY DEF DownIsEmpty, Next, vars, Writer, DrainTask, ChainAppend, CheckHealth,
         Send, SendFails, FlipHealth, DrainRecv, PutOk, PutFails, AnchorOk,
         AnchorFails, DrainCancelled, Crash, Open, OpenRefused

(* The invariant reads nothing but the variables. *)
LEMMA StutterIInv ==
  ASSUME IInv, UNCHANGED vars
  PROVE  IInv'
  BY DEF IInv, TypeOK, ChainNumbered, QueuedOfChain, DrainOfChain, OfChain,
         HeldOfChain, AnchoringARow, RowsComeFromChain, AnchorNeverAhead, vars,
         passed

(* Every step of a writer, the drain task, a crash or a start keeps the invariant. *)
LEMMA NextIInv ==
  ASSUME IInv, DownIsEmpty, [Next]_vars
  PROVE  IInv'
<1>1. ASSUME NEW w \in Writers, Writer(w) PROVE IInv'
  BY <1>1, ChainAppendIInv, WriterFlagIInv, SendIInv DEF Writer
<1>2. ASSUME DrainTask PROVE IInv'
  BY <1>2, DrainRecvIInv, PutOkIInv, AnchorOkIInv, DrainStopsIInv
     DEF DrainTask
<1>3. ASSUME Crash \/ OpenRefused PROVE IInv'
  BY <1>3, CrashIInv
<1>4. ASSUME Open PROVE IInv'
  BY <1>4, OpenIInv
<1>5. ASSUME UNCHANGED vars PROVE IInv'
  BY <1>5, StutterIInv
<1> QED BY <1>1, <1>2, <1>3, <1>4, <1>5 DEF Next

(* The inductive invariant holds in every reachable state. *)
THEOREM Invariance == Spec => [](IInv /\ DownIsEmpty)
<1>1. Init => IInv /\ DownIsEmpty
  BY InitIInv, InitDown
<1>2. IInv /\ DownIsEmpty /\ [Next]_vars => (IInv /\ DownIsEmpty)'
  BY NextIInv, NextDown
<1> QED BY <1>1, <1>2, PTL DEF Spec

(* Every variable of the log stays in its type, in particular the drain    *)
(* task never holds anything but an entry of the chain.                    *)
THEOREM TypeCorrect == Spec => []TypeOK
<1>1. IInv => TypeOK
  BY DEF IInv
<1> QED BY <1>1, Invariance, PTL

(* The store never holds a row that differs from the live chain's entry.   *)
THEOREM RowsAgreeWithChain == Spec => []RowsComeFromChain
<1>1. IInv => RowsComeFromChain
  BY DEF IInv
<1> QED BY <1>1, Invariance, PTL

(* The anchor never claims a seq that the store does not have. *)
THEOREM AnchorIsARow == Spec => []AnchorNeverAhead
<1>1. IInv => AnchorNeverAhead
  BY DEF IInv
<1> QED BY <1>1, Invariance, PTL

(* No step, a restart included, changes or removes a durable row. *)
THEOREM DurableRowsStay == Spec => RowsAreFinal
<1>1. ASSUME IInv, [Next]_vars
      PROVE  \A s \in DOMAIN disk : s \in DOMAIN disk' /\ disk'[s] = disk[s]
  <2>1. CASE PutOk
    BY <1>1, <2>1, PutOkRows
  <2>2. CASE ~PutOk
    <3>1. UNCHANGED disk
      BY <1>1, <2>2 DEF Next, vars, Writer, DrainTask, ChainAppend,
         CheckHealth, Send, SendFails, FlipHealth, DrainRecv, PutFails,
         AnchorOk, AnchorFails, DrainCancelled, Crash, Open, OpenRefused
    <3> QED BY <3>1
  <2> QED BY <2>1, <2>2
<1> QED BY <1>1, Invariance, PTL DEF Spec, RowsAreFinal

(* The store is sound in every state a crash can expose: rows and anchor.  *)
THEOREM StoreSound == Spec => []StoreIsChain
<1>1. RowsComeFromChain /\ AnchorNeverAhead => StoreIsChain
  BY DEF StoreIsChain
<1> QED BY <1>1, RowsAgreeWithChain, AnchorIsARow, PTL
-----------------------------------------------------------------------------
(* What was accepted is on its way: it moves from the channel to the drain *)
(* task and from there to the store, and only a mark of ill health or the  *)
(* end of the drain task drops it.                                         *)

AckedInv == AckedNotLostWhileHealthy /\ (process # "up" => acked = {})

OnItsWay(s) == \/ s \in DOMAIN disk
               \/ drain.state = "put" /\ drain.entry.seq = s
               \/ \E i \in 1 .. Len(channel) : channel[i].seq = s

(* An accepted event leaves the channel for the drain task and the drain   *)
(* task for the store; whatever else drops it clears the health flag or    *)
(* ends the task or the process.                                           *)
LEMMA NextAcked ==
  ASSUME IInv, DownIsEmpty, AckedInv, [Next]_vars
  PROVE  AckedInv'
<1> SUFFICES ASSUME TypeOK,
                    process = "up" => ChainNumbered /\ HeldOfChain
             PROVE  AckedInv'
  BY DEF IInv
<1>1. ASSUME process' = "up", health', drain'.state # "dead",
             process = "up", health, drain.state # "dead",
             NEW s \in acked',
             s \notin acked \/ ~(UNCHANGED <<channel, disk, drain>>)
      PROVE  OnItsWay(s)'
  <2>1. s \in acked => OnItsWay(s)
    BY <1>1 DEF AckedInv, AckedNotLostWhileHealthy, OnItsWay, ReceiverOpen
  <2>2. ASSUME NEW w \in Writers, Send(w) PROVE OnItsWay(s)'
    <3>1. /\ at[w] \in Nat /\ at[w] < Len(chain) /\ ChainNumbered
          /\ channel \in Seq(Entry) /\ Len(chain) \in Nat
      BY <1>1, <2>2 DEF Send, HeldOfChain, TypeOK
    <3>2. at[w] + 1 \in 1 .. Len(chain)
      BY <3>1
    <3>3. chain[at[w] + 1] \in Entry
      BY <3>2 DEF TypeOK
    <3>4. chain[at[w] + 1].seq = at[w]
      BY <3>1, <3>2 DEF ChainNumbered
    <3>5. /\ Len(channel') = Len(channel) + 1
          /\ \A i \in 1 .. Len(channel) : channel'[i] = channel[i]
          /\ channel'[Len(channel) + 1] = chain[at[w] + 1]
          /\ Len(channel) \in Nat
      BY <2>2, <3>1, <3>3, AppendProperties DEF Send
    <3>6. CASE s = at[w]
      BY <3>5, <3>6, <3>4 DEF OnItsWay
    <3>7. CASE s \in acked
      BY <2>1, <2>2, <3>5, <3>7 DEF OnItsWay, Send
    <3> QED
      BY <1>1, <2>2, <3>6, <3>7 DEF Send
  <2>3. CASE DrainRecv
    <3>1. s \in acked /\ channel # <<>> /\ channel \in Seq(Entry)
      BY <1>1, <2>3 DEF DrainRecv, TypeOK
    <3>2. /\ drain'.state = "put" /\ drain'.entry = channel[1]
          /\ drain.state = "recv" /\ disk' = disk
          /\ Len(channel') = Len(channel) - 1 /\ Len(channel) \in Nat
          /\ \A i \in 1 .. Len(channel') : channel'[i] = channel[i + 1]
      BY <1>1, <2>3, <3>1, HeadTailProperties DEF DrainRecv
    <3>3. CASE \E i \in 1 .. Len(channel) : channel[i].seq = s
      <4>1. PICK i \in 1 .. Len(channel) : channel[i].seq = s
        BY <3>3
      <4>2. CASE i = 1
        BY <3>2, <4>1, <4>2 DEF OnItsWay
      <4>3. CASE i # 1
        <5>1. i - 1 \in 1 .. Len(channel') /\ channel'[i - 1] = channel[i]
          BY <3>2, <4>3
        <5> QED
          BY <4>1, <5>1 DEF OnItsWay
      <4> QED
        BY <4>2, <4>3
    <3> QED
      BY <2>1, <3>1, <3>2, <3>3 DEF OnItsWay
  <2>4. CASE PutOk
    <3>1. s \in acked /\ channel' = channel /\ drain.state = "put"
      BY <2>4 DEF PutOk
    <3>2. DOMAIN disk' = DOMAIN disk \cup {drain.entry.seq}
      BY <2>4 DEF PutOk, Rows
    <3> QED
      BY <2>1, <3>1, <3>2 DEF OnItsWay
  <2>5. CASE PutFails
    BY <1>1, <2>5 DEF PutFails
  <2>6. CASE AnchorOk \/ AnchorFails \/ DrainCancelled
    <3>1. s \in acked /\ drain.state # "put" /\ UNCHANGED <<channel, disk>>
      BY <1>1, <2>1, <2>6 DEF AnchorOk, AnchorFails, DrainCancelled, DrainReports, DrainDies
    <3> QED
      BY <2>1, <3>1 DEF OnItsWay
  <2> QED
    BY <1>1, <2>2, <2>3, <2>4, <2>5, <2>6
       DEF Next, vars, Writer, DrainTask, ChainAppend, CheckHealth, SendFails,
           FlipHealth, Crash, Open, OpenRefused
<1>2. process = "up" /\ process' = "up" /\ health' => health
  BY DEF Next, vars, Writer, DrainTask, ChainAppend, CheckHealth, Send,
         SendFails, FlipHealth, DrainRecv, PutOk, PutFails, AnchorOk,
         AnchorFails, DrainCancelled, Crash, Open, OpenRefused
<1>3. process = "up" /\ process' = "up" /\ drain'.state # "dead" => drain.state # "dead"
  BY DEF Next, vars, Writer, DrainTask, ChainAppend, CheckHealth, Send,
         SendFails, FlipHealth, DrainRecv, PutOk, PutFails, AnchorOk,
         AnchorFails, DrainCancelled, Crash, Open, OpenRefused
<1>4. (process # "up" => acked = {}) => (process' # "up" => acked' = {})
  BY DEF Next, vars, Writer, DrainTask, ChainAppend, CheckHealth, Send,
         SendFails, FlipHealth, DrainRecv, PutOk, PutFails, AnchorOk,
         AnchorFails, DrainCancelled, Crash, Open, OpenRefused
<1>5. process # "up" /\ process' = "up" => acked' = acked
  BY DEF Next, vars, Writer, DrainTask, ChainAppend, CheckHealth, Send,
         SendFails, FlipHealth, DrainRecv, PutOk, PutFails, AnchorOk,
         AnchorFails, DrainCancelled, Crash, Open, OpenRefused
<1>6. ASSUME process' = "up", health', drain'.state # "dead", NEW s \in acked'
      PROVE  OnItsWay(s)'
  <2>1. process = "up" /\ health /\ drain.state # "dead"
    BY <1>2, <1>3, <1>5, <1>6 DEF AckedInv
  <2>2. CASE s \in acked /\ UNCHANGED <<channel, disk, drain>>
    BY <2>1, <2>2 DEF AckedInv, AckedNotLostWhileHealthy, OnItsWay, ReceiverOpen
  <2> QED
    BY <1>1, <1>6, <2>1, <2>2
<1> QED
  BY <1>4, <1>6 DEF AckedInv, AckedNotLostWhileHealthy, OnItsWay, ReceiverOpen

(* While is_healthy holds and the drain task lives, an event that append   *)
(* accepted is on disk, held by the drain task or queued for it.           *)
THEOREM AcceptedIsKept == Spec => []AckedNotLostWhileHealthy
<1>1. Init => AckedInv
  BY DEF Init, AckedInv, AckedNotLostWhileHealthy
<1>2. IInv /\ DownIsEmpty /\ AckedInv /\ [Next]_vars => AckedInv'
  BY NextAcked
<1>3. AckedInv => AckedNotLostWhileHealthy
  BY DEF AckedInv
<1> QED
  BY <1>1, <1>2, <1>3, Invariance, PTL DEF Spec

-----------------------------------------------------------------------------
(* Why a place can be empty while a later one is not.  While the log is    *)
(* healthy every entry of the chain is accounted for: it is settled (a     *)
(* row, or passed over), with the drain task, queued, or still inside      *)
(* append; and an entry is queued behind all earlier ones but the settled. *)

Settled(s)  == s \in DOMAIN disk \cup overtaken \cup unwound
InDrain(s)  == drain.state = "put" /\ drain.entry.seq = s
Queued(s)   == \E i \in 1 .. Len(channel) : channel[i].seq = s
InAppend(s) == \E w \in Writers : pc[w] # "idle" /\ at[w] = s

RowsExplained == \A r \in DOMAIN disk : \A s \in 0 .. r - 1 : Settled(s)
PutIsNext     == drain.state = "put" =>
                   \A s \in 0 .. drain.entry.seq - 1 : Settled(s)
QueueInOrder  == \A i \in 1 .. Len(channel) : \A s \in 0 .. channel[i].seq - 1 :
                   \/ Settled(s) \/ InDrain(s)
                   \/ \E j \in 1 .. i - 1 : channel[j].seq = s
ChainAccounted == \A s \in 0 .. Len(chain) - 1 :
                    Settled(s) \/ InDrain(s) \/ Queued(s) \/ InAppend(s)

Accounted ==
  /\ RowsExplained
  /\ process = "up" =>
       /\ PutIsNext
       /\ health /\ ReceiverOpen => QueueInOrder /\ ChainAccounted

(* What the steps of this part need of the invariant of the first part. *)
LEMMA Shapes ==
  ASSUME IInv
  PROVE  /\ chain \in Seq(Entry) /\ channel \in Seq(Entry)
         /\ Len(chain) \in Nat /\ Len(channel) \in Nat
         /\ at \in [Writers -> Nat]
         /\ pc \in [Writers -> {"idle", "chained", "checked", "sendFailed"}]
         /\ drain.entry.seq \in Nat /\ DOMAIN disk \subseteq Nat
         /\ \A i \in 1 .. Len(channel) : channel[i].seq \in Nat
<1>1. TypeOK
  BY DEF IInv
<1>2. \A i \in 1 .. Len(channel) : channel[i] \in Entry
  <2>1. channel \in Seq(Entry)
    BY <1>1 DEF TypeOK
  <2> QED
    BY <2>1
<1>3. \A e \in Entry : e.seq \in Nat
  BY DEF Entry
<1>4. drain.entry \in Entry
  BY <1>1 DEF TypeOK
<1>5. /\ chain \in Seq(Entry) /\ channel \in Seq(Entry)
      /\ at \in [Writers -> Nat]
      /\ pc \in [Writers -> {"idle", "chained", "checked", "sendFailed"}]
      /\ DOMAIN disk \subseteq Nat
  BY <1>1 DEF TypeOK
<1>6. Len(chain) \in Nat /\ Len(channel) \in Nat
  BY <1>5
<1> QED
  BY <1>2, <1>3, <1>4, <1>5, <1>6

(* A new entry of the chain is inside append. *)
LEMMA ChainAppendAccounted ==
  ASSUME IInv, Accounted, NEW w \in Writers, ChainAppend(w)
  PROVE  Accounted'
<1>1. /\ UNCHANGED <<channel, health, drain, disk, process, overtaken, unwound>>
      /\ process = "up" /\ pc[w] = "idle"
      /\ pc' = [pc EXCEPT ![w] = "chained"]
      /\ at' = [at EXCEPT ![w] = Len(chain)]
  BY DEF ChainAppend, passed
<1>2. Len(chain') = Len(chain) + 1 /\ Len(chain) \in Nat
  <2>1. [seq |-> Len(chain), prev |-> TailMac(chain), mac |-> minted + 1] \in Entry
    BY Shapes, TailMacType DEF Entry, IInv, TypeOK
  <2> QED BY <2>1, Shapes, AppendProperties DEF ChainAppend
<1>3. ASSUME health, ReceiverOpen PROVE ChainAccounted'
  <2>1. ChainAccounted
    BY <1>1, <1>3 DEF Accounted
  <2>2. \A s : s = Len(chain) => InAppend(s)'
    BY <1>1, Shapes DEF InAppend
  <2>3. ASSUME NEW s \in 0 .. Len(chain) - 1
        PROVE  (Settled(s) \/ InDrain(s) \/ Queued(s) \/ InAppend(s))'
    <3>1. InAppend(s) => InAppend(s)'
      BY <1>1, Shapes DEF InAppend
    <3> QED BY <1>1, <2>1, <3>1 DEF ChainAccounted, Settled, InDrain, Queued
  <2>4. \A s \in 0 .. Len(chain') - 1 : s \in 0 .. Len(chain) - 1 \/ s = Len(chain)
    BY <1>2
  <2> QED BY <2>2, <2>3, <2>4 DEF ChainAccounted
<1> QED
  BY <1>1, <1>3 DEF Accounted, RowsExplained, PutIsNext, QueueInOrder, Settled,
                    InDrain, ReceiverOpen

(* A send marks what it overtakes, and all before it is then in its place. *)
LEMMA SendAccounted ==
  ASSUME IInv, Accounted, NEW w \in Writers, Send(w)
  PROVE  Accounted'
<1>1. /\ UNCHANGED <<chain, health, drain, disk, process, unwound, at>>
      /\ process = "up" /\ pc[w] = "checked" /\ ReceiverOpen
      /\ pc' = [pc EXCEPT ![w] = "idle"]
      /\ overtaken' = overtaken \cup
           {at[v] : v \in {u \in Writers : pc[u] # "idle" /\ at[u] < at[w]}}
  BY DEF Send
<1>2. at[w] \in Nat /\ at[w] < Len(chain) /\ ChainNumbered
  BY <1>1, Shapes DEF IInv, HeldOfChain
<1>3. at[w] + 1 \in 1 .. Len(chain)
  BY <1>2, Shapes
<1>4. chain[at[w] + 1].seq = at[w] /\ chain[at[w] + 1] \in Entry
  BY <1>2, <1>3, Shapes DEF ChainNumbered
<1>5. /\ Len(channel') = Len(channel) + 1
      /\ \A i \in 1 .. Len(channel) : channel'[i] = channel[i]
      /\ channel'[Len(channel) + 1].seq = at[w]
  BY <1>4, Shapes, AppendProperties DEF Send
<1>6. \A s : Settled(s) => Settled(s)'
  BY <1>1 DEF Settled
<1>7. \A s : (InDrain(s) <=> InDrain(s)') /\ (Queued(s) => Queued(s)')
  BY <1>1, <1>5, Shapes DEF InDrain, Queued
<1>8. ASSUME health PROVE QueueInOrder' /\ ChainAccounted'
  <2>1. QueueInOrder /\ ChainAccounted
    BY <1>1, <1>8 DEF Accounted
  <2>2. ASSUME NEW s \in 0 .. at[w] - 1
        PROVE  Settled(s)' \/ InDrain(s)' \/ Queued(s)
    <3>1. s \in 0 .. Len(chain) - 1
      BY <1>2, Shapes
    <3>2. CASE InAppend(s)
      <4>1. s < at[w]
        BY <1>2
      <4> QED BY <1>1, <3>2, <4>1 DEF InAppend, Settled
    <3> QED BY <1>6, <1>7, <2>1, <3>1, <3>2 DEF ChainAccounted
  <2>3. ASSUME NEW i \in 1 .. Len(channel'), NEW s \in 0 .. channel'[i].seq - 1
        PROVE  \/ Settled(s)' \/ InDrain(s)'
               \/ \E j \in 1 .. i - 1 : channel'[j].seq = s
    <3>1. CASE i \in 1 .. Len(channel)
      <4>1. channel'[i] = channel[i]
        BY <1>5, <3>1
      <4>2. \A j \in 1 .. i - 1 : channel'[j] = channel[j]
        BY <1>5, <3>1, Shapes
      <4> QED BY <1>6, <1>7, <2>1, <3>1, <4>1, <4>2 DEF QueueInOrder
    <3>2. CASE i = Len(channel) + 1
      <4>1. s \in 0 .. at[w] - 1
        BY <1>5, <3>2
      <4>2. i - 1 = Len(channel)
        BY <3>2, Shapes
      <4> QED BY <1>5, <2>2, <4>1, <4>2 DEF Queued
    <3> QED BY <1>5, <3>1, <3>2, Shapes
  <2>4. \A s : s = at[w] => Queued(s)'
    <3>1. Len(channel) + 1 \in 1 .. Len(channel')
      BY <1>5, Shapes
    <3> QED BY <1>5, <3>1 DEF Queued
  <2>5. ASSUME NEW s \in 0 .. Len(chain) - 1, InAppend(s), s # at[w]
        PROVE  InAppend(s)'
    BY <1>1, <2>5, Shapes DEF InAppend
  <2> QED
    BY <1>1, <1>6, <1>7, <2>1, <2>3, <2>4, <2>5
       DEF QueueInOrder, ChainAccounted
<1>9. RowsExplained' /\ PutIsNext'
  BY <1>1, <1>6 DEF Accounted, RowsExplained, PutIsNext
<1> QED BY <1>1, <1>8, <1>9 DEF Accounted

(* A failed send keeps its place inside append, unless the panic of the    *)
(* handler unwinds it; a writer otherwise leaves with the log unhealthy.   *)
LEMMA WriterFlagAccounted ==
  ASSUME IInv, Accounted, NEW w \in Writers,
         CheckHealth(w) \/ SendFails(w) \/ FlipHealth(w)
  PROVE  Accounted'
<1>1. /\ UNCHANGED <<chain, channel, at, drain, disk, process, overtaken>>
      /\ process = "up" /\ (health' => health)
      /\ unwound \subseteq unwound'
  BY DEF CheckHealth, SendFails, FlipHealth, passed
<1>2. \A s : /\ Settled(s) => Settled(s)'
             /\ InDrain(s) <=> InDrain(s)'
             /\ Queued(s) <=> Queued(s)'
  BY <1>1 DEF Settled, InDrain, Queued
<1>3. ASSUME health', ReceiverOpen, NEW s \in 0 .. Len(chain) - 1, InAppend(s)
      PROVE  InAppend(s)' \/ Settled(s)'
  <2>1. PICK v \in Writers : pc[v] # "idle" /\ at[v] = s
    BY <1>3 DEF InAppend
  <2>2. CASE v # w
    <3>1. pc'[v] = pc[v]
      BY <2>2, Shapes DEF CheckHealth, SendFails, FlipHealth
    <3> QED BY <1>1, <2>1, <3>1 DEF InAppend
  <2>3. CASE v = w
    <3>1. CASE CheckHealth(w)
      BY <1>1, <1>3, <2>1, <2>3, <3>1, Shapes DEF CheckHealth, InAppend
    <3>2. CASE SendFails(w)
      <4>1. CASE panics
        BY <2>1, <2>3, <3>2, <4>1 DEF SendFails, Settled
      <4>2. CASE ~panics
        BY <1>1, <2>1, <2>3, <3>2, <4>2, Shapes DEF SendFails, InAppend
      <4> QED BY <4>1, <4>2
    <3>3. CASE FlipHealth(w)
      BY <1>3, <3>3 DEF FlipHealth
    <3> QED BY <3>1, <3>2, <3>3
  <2> QED BY <2>2, <2>3
<1>4. ASSUME health', ReceiverOpen PROVE QueueInOrder' /\ ChainAccounted'
  <2>1. QueueInOrder /\ ChainAccounted
    BY <1>1, <1>4 DEF Accounted
  <2>2. QueueInOrder'
    BY <1>1, <1>2, <2>1 DEF QueueInOrder
  <2>3. ChainAccounted'
    BY <1>1, <1>2, <1>3, <1>4, <2>1 DEF ChainAccounted
  <2> QED BY <2>2, <2>3
<1>5. RowsExplained' /\ PutIsNext'
  BY <1>1, <1>2 DEF Accounted, RowsExplained, PutIsNext
<1> QED BY <1>1, <1>4, <1>5 DEF Accounted, ReceiverOpen

(* What the drain task receives comes after settled entries only. *)
LEMMA DrainRecvAccounted ==
  ASSUME IInv, Accounted, DrainRecv
  PROVE  Accounted'
<1>1. /\ process = "up" /\ channel # <<>> /\ drain.state = "recv" /\ ReceiverOpen
      /\ UNCHANGED <<chain, health, pc, at, disk, process, overtaken, unwound>>
  BY DEF DrainRecv, ReceiverOpen, passed
<1>2. /\ Head(channel) = channel[1] /\ 1 \in 1 .. Len(channel)
      /\ Len(channel') = Len(channel) - 1
      /\ \A i \in 1 .. Len(channel') : channel'[i] = channel[i + 1]
  BY <1>1, Shapes, HeadTailProperties DEF DrainRecv
<1>3. \A s : Settled(s) <=> Settled(s)'
  BY <1>1 DEF Settled
<1>4. RowsExplained'
  BY <1>1, <1>3 DEF Accounted, RowsExplained
<1>5. CASE ~health
  <2>1. drain' = drain
    BY <1>5 DEF DrainRecv
  <2> QED BY <1>1, <1>4, <1>5, <2>1 DEF Accounted, PutIsNext
<1>6. CASE health
  <2>1. drain'.state = "put" /\ drain'.entry = channel[1]
    BY <1>2, <1>6 DEF DrainRecv
  <2>2. QueueInOrder /\ ChainAccounted
    BY <1>1, <1>6 DEF Accounted
  <2>3. \A s : ~InDrain(s)
    BY <1>1 DEF InDrain
  <2>4. PutIsNext'
    BY <1>2, <1>3, <2>1, <2>2, <2>3 DEF PutIsNext, QueueInOrder
  <2>5. ASSUME NEW i \in 1 .. Len(channel)
        PROVE  \/ drain'.state = "put" /\ drain'.entry.seq = channel[i].seq
               \/ /\ i - 1 \in 1 .. Len(channel')
                  /\ channel'[i - 1].seq = channel[i].seq
    <3>1. CASE i = 1
      BY <2>1, <3>1
    <3>2. CASE i # 1
      <4>1. i - 1 \in 1 .. Len(channel') /\ (i - 1) + 1 = i
        BY <1>2, <3>2, Shapes
      <4> QED BY <1>2, <4>1
    <3> QED BY <3>1, <3>2
  <2>6. QueueInOrder'
    <3>1. ASSUME NEW i \in 1 .. Len(channel'), NEW s \in 0 .. channel'[i].seq - 1
          PROVE  \/ Settled(s)' \/ InDrain(s)'
                 \/ \E j \in 1 .. i - 1 : channel'[j].seq = s
      <4>1. i + 1 \in 1 .. Len(channel) /\ channel'[i] = channel[i + 1]
            /\ (i + 1) - 1 = i
        BY <1>2, Shapes
      <4>2. Settled(s) \/ \E j \in 1 .. i : channel[j].seq = s
        BY <2>2, <2>3, <4>1 DEF QueueInOrder
      <4>3. ASSUME NEW j \in 1 .. i, channel[j].seq = s
            PROVE  InDrain(s)' \/ \E k \in 1 .. i - 1 : channel'[k].seq = s
        <5>1. j \in 1 .. Len(channel)
          BY <4>1, Shapes
        <5>2. \/ InDrain(s)'
              \/ (j - 1 \in 1 .. Len(channel') /\ channel'[j - 1].seq = s)
          BY <2>5, <4>3, <5>1 DEF InDrain
        <5>3. j - 1 \in 1 .. Len(channel') => j - 1 \in 1 .. i - 1
          BY <4>1
        <5> QED BY <5>2, <5>3
      <4> QED BY <1>3, <4>2, <4>3
    <3> QED BY <3>1 DEF QueueInOrder
  <2>7. ChainAccounted'
    <3>1. ASSUME NEW s, Queued(s) PROVE InDrain(s)' \/ Queued(s)'
      BY <2>5, <3>1 DEF Queued, InDrain
    <3>2. \A s : InAppend(s) <=> InAppend(s)'
      BY <1>1 DEF InAppend
    <3> QED BY <1>1, <1>3, <2>2, <2>3, <3>1, <3>2 DEF ChainAccounted
  <2> QED BY <1>4, <2>4, <2>6, <2>7 DEF Accounted
<1> QED BY <1>5, <1>6

(* A put settles the entry it writes. *)
LEMMA PutOkAccounted ==
  ASSUME IInv, Accounted, PutOk
  PROVE  Accounted'
<1>1. /\ UNCHANGED <<chain, channel, health, pc, at, process, overtaken, unwound>>
      /\ process = "up" /\ drain.state = "put" /\ drain'.state = "anchor"
  BY DEF PutOk, IInv, TypeOK, passed
<1>2. DOMAIN disk' = DOMAIN disk \cup {drain.entry.seq}
  BY PutOkRows
<1>3. \A s : (Settled(s) => Settled(s)') /\ (InDrain(s) => Settled(s)')
  BY <1>1, <1>2 DEF Settled, InDrain
<1>4. RowsExplained'
  BY <1>1, <1>2, <1>3 DEF Accounted, RowsExplained, PutIsNext
<1>5. PutIsNext'
  BY <1>1 DEF PutIsNext
<1>6. health /\ ReceiverOpen => QueueInOrder' /\ ChainAccounted'
  BY <1>1, <1>3 DEF Accounted, QueueInOrder, ChainAccounted, Queued, InAppend
<1> QED BY <1>1, <1>4, <1>5, <1>6 DEF Accounted, ReceiverOpen

(* The drain task's other steps touch no row; what it drops, it drops with *)
(* the health of the log or with its own end.                              *)
LEMMA DrainStopsAccounted ==
  ASSUME IInv, Accounted, PutFails \/ AnchorOk \/ AnchorFails \/ DrainCancelled
  PROVE  Accounted'
<1>1. /\ UNCHANGED <<chain, pc, at, disk, process, overtaken, unwound>>
      /\ process = "up"
  BY DEF PutFails, AnchorOk, AnchorFails, DrainCancelled, passed
<1>2. drain'.state \in {"recv", "dead"}
  BY DEF PutFails, AnchorOk, AnchorFails, DrainCancelled, DrainReports, DrainDies
<1>3. \A s : Settled(s) <=> Settled(s)'
  BY <1>1 DEF Settled
<1>4. ASSUME health', ReceiverOpen' PROVE QueueInOrder' /\ ChainAccounted'
  <2>1. UNCHANGED channel /\ health /\ drain.state = "anchor" /\ drain'.state = "recv"
    <3>1. ~PutFails
      BY <1>4 DEF PutFails
    <3>2. ~DrainCancelled
      <4>1. drain'.state # "dead"
        BY <1>4 DEF ReceiverOpen
      <4> QED BY <4>1 DEF DrainCancelled, DrainDies
    <3>3. CASE AnchorOk
      BY <1>4, <3>3 DEF AnchorOk
    <3>4. CASE AnchorFails
      BY <1>4, <3>4 DEF AnchorFails, DrainReports, DrainDies, ReceiverOpen
    <3> QED BY <3>1, <3>2, <3>3, <3>4
  <2>2. QueueInOrder /\ ChainAccounted
    BY <1>1, <2>1 DEF Accounted, ReceiverOpen
  <2>3. \A s : InDrain(s) <=> InDrain(s)'
    BY <2>1 DEF InDrain
  <2> QED
    BY <1>1, <1>3, <2>1, <2>2, <2>3 DEF QueueInOrder, ChainAccounted, Queued, InAppend
<1> QED
  BY <1>1, <1>2, <1>3, <1>4 DEF Accounted, RowsExplained, PutIsNext

(* A start takes a store without holes as its chain. *)
LEMMA OpenAccounted ==
  ASSUME IInv, DownIsEmpty, Accounted, Open
  PROVE  Accounted'
<1> DEFINE n == Cardinality(DOMAIN disk)
<1>1. n \in Nat /\ DOMAIN disk = 0 .. n - 1
  BY FS_CardinalityType DEF IInv, Open, Gapless
<1>2. /\ drain'.state = "recv" /\ UNCHANGED <<disk, channel>> /\ channel = <<>>
      /\ chain' = [i \in 1 .. n |-> disk[i - 1]]
  BY DEF Open, DownIsEmpty
<1> HIDE DEF n
<1>3. Len(chain') = n
  BY <1>1, <1>2
<1>4. RowsExplained' /\ ChainAccounted'
  BY <1>1, <1>2, <1>3 DEF RowsExplained, ChainAccounted, Settled
<1>5. PutIsNext' /\ QueueInOrder'
  BY <1>2 DEF PutIsNext, QueueInOrder
<1> QED BY <1>4, <1>5 DEF Accounted

(* Every step keeps the account. *)
LEMMA NextAccounted ==
  ASSUME IInv, DownIsEmpty, Accounted, [Next]_vars
  PROVE  Accounted'
<1>1. ASSUME NEW w \in Writers, Writer(w) PROVE Accounted'
  BY <1>1, ChainAppendAccounted, SendAccounted, WriterFlagAccounted DEF Writer
<1>2. CASE DrainTask
  BY <1>2, DrainRecvAccounted, PutOkAccounted, DrainStopsAccounted DEF DrainTask
<1>3. CASE Crash \/ OpenRefused
  BY <1>3 DEF Crash, OpenRefused, Accounted, RowsExplained, Settled, passed
<1>4. CASE Open
  BY <1>4, OpenAccounted
<1>5. CASE UNCHANGED vars
  BY <1>5 DEF vars, passed, Accounted, RowsExplained, PutIsNext, QueueInOrder,
     ChainAccounted, Settled, InDrain, Queued, InAppend, ReceiverOpen
<1> QED BY <1>1, <1>2, <1>3, <1>4, <1>5 DEF Next

(* The account holds in every reachable state. *)
THEOREM EveryEntryAccounted == Spec => []Accounted
<1>1. Init => Accounted
  BY DEF Init, Accounted, RowsExplained, PutIsNext, QueueInOrder, ChainAccounted
<1>2. IInv /\ DownIsEmpty /\ Accounted /\ [Next]_vars => Accounted'
  BY NextAccounted
<1> QED BY <1>1, <1>2, Invariance, PTL DEF Spec

(* A place without a row before one with a row was overtaken inside        *)
(* append, or given up by a handler that panicked: nothing else makes a    *)
(* hole, with any number of tasks appending and either handler.            *)
THEOREM HolesExplained == Spec => []HolesAreExplained
<1>1. Accounted => HolesAreExplained
  BY DEF Accounted, RowsExplained, Settled, HolesAreExplained
<1> QED BY <1>1, EveryEntryAccounted, PTL

-----------------------------------------------------------------------------
(* A start is refused for a hole and for nothing else: rows next to each   *)
(* other are linked, and the anchor is never ahead of them.                *)

ChainLinked == \A i \in 1 .. Len(chain) :
                 chain[i].prev = IF i = 1 THEN GenesisMac ELSE chain[i - 1].mac

LinkedRows == \A s \in DOMAIN disk :
                /\ disk[s].seq = s
                /\ s = 0 => disk[s].prev = GenesisMac
                /\ s - 1 \in DOMAIN disk => disk[s].prev = disk[s - 1].mac

NoHole == \A r \in DOMAIN disk : 0 .. r - 1 \subseteq DOMAIN disk

Refusable == /\ LinkedRows
             /\ process = "up" => ChainLinked
             /\ process = "refused" => ~NoHole

(* The first seqs up to a number are as many as that number. *)
LEMMA CountBelow ==
  ASSUME NEW n \in Nat
  PROVE  IsFiniteSet(0 .. n - 1) /\ Cardinality(0 .. n - 1) = n
  BY FS_Interval

(* A store without holes has the seqs below the number of its rows. *)
LEMMA NoHoleIsGapless ==
  ASSUME IInv, NoHole
  PROVE  Gapless
<1> DEFINE D == DOMAIN disk
           n == Cardinality(D)
<1>1. IsFiniteSet(D) /\ D \subseteq Nat /\ n \in Nat
  BY FS_CardinalityType DEF IInv, TypeOK
<1>2. \A r \in D : 0 .. r - 1 \subseteq D
  BY DEF NoHole
<1> HIDE DEF D
<1>3. D \subseteq 0 .. n - 1
  <2> SUFFICES ASSUME NEW r \in D, r >= n PROVE FALSE
    BY <1>1
  <2>1. 0 .. (r + 1) - 1 \in SUBSET D
    BY <1>1, <1>2
  <2>2. r + 1 \in Nat
    BY <1>1
  <2>3. Cardinality(0 .. (r + 1) - 1) = r + 1
    BY <2>2, CountBelow
  <2>4. Cardinality(0 .. (r + 1) - 1) <= n
    BY <1>1, <2>1, FS_Subset
  <2> QED BY <1>1, <2>3, <2>4
<1>4. D = 0 .. n - 1
  BY <1>1, <1>3, CountBelow, FS_Subset
<1> QED BY <1>4 DEF Gapless, D

(* A store without holes is accepted. *)
LEMMA NoHoleIsAccepted ==
  ASSUME IInv, LinkedRows, NoHole
  PROVE  Gapless /\ Linked /\ AnchorAccepted
<1> DEFINE n == Cardinality(DOMAIN disk)
<1>1. n \in Nat /\ DOMAIN disk = 0 .. n - 1 /\ AnchorNeverAhead /\ Gapless
  BY NoHoleIsGapless, FS_CardinalityType DEF IInv, Gapless
<1> HIDE DEF n
<1>2. Linked
  <2>1. \A s \in DOMAIN disk : s # 0 => s - 1 \in DOMAIN disk
    BY <1>1
  <2> QED BY <2>1 DEF LinkedRows, Linked
<1>3. ASSUME anchor # NoAnchor
      PROVE  \E last \in DOMAIN disk :
               /\ \A s \in DOMAIN disk : s <= last
               /\ anchor.seq <= last
               /\ anchor.seq = last => anchor.mac = disk[last].mac
  <2>1. anchor.seq \in 0 .. n - 1 /\ disk[anchor.seq].mac = anchor.mac
    BY <1>1, <1>3 DEF AnchorNeverAhead
  <2>2. n - 1 \in DOMAIN disk
    BY <1>1, <2>1
  <2>3. /\ \A s \in DOMAIN disk : s <= n - 1
        /\ anchor.seq <= n - 1
        /\ anchor.seq = n - 1 => anchor.mac = disk[n - 1].mac
    BY <1>1, <2>1
  <2> QED BY <2>2, <2>3
<1> QED BY <1>1, <1>2, <1>3 DEF AnchorAccepted

(* What is minted links to the tail. *)
LEMMA ChainAppendLinked ==
  ASSUME IInv, ChainLinked, NEW w \in Writers, ChainAppend(w)
  PROVE  ChainLinked'
<1> DEFINE e == [seq |-> Len(chain), prev |-> TailMac(chain), mac |-> minted + 1]
<1>1. e \in Entry
  BY Shapes, TailMacType DEF Entry, IInv, TypeOK
<1>2. /\ Len(chain') = Len(chain) + 1 /\ Len(chain) \in Nat
      /\ \A i \in 1 .. Len(chain) : chain'[i] = chain[i]
      /\ chain'[Len(chain) + 1].prev = TailMac(chain)
  BY <1>1, Shapes, AppendProperties DEF ChainAppend
<1>3. ASSUME NEW i \in 1 .. Len(chain')
      PROVE  chain'[i].prev = IF i = 1 THEN GenesisMac ELSE chain'[i - 1].mac
  <2>1. CASE i \in 1 .. Len(chain)
    <3>1. i # 1 => i - 1 \in 1 .. Len(chain)
      BY <1>2, <2>1
    <3> QED BY <1>2, <2>1, <3>1 DEF ChainLinked
  <2>2. CASE i = Len(chain) + 1
    <3>1. CASE Len(chain) = 0
      BY <1>2, <2>2, <3>1, Shapes DEF TailMac
    <3>2. CASE Len(chain) # 0
      <4>1. Len(chain) \in 1 .. Len(chain) /\ i - 1 = Len(chain) /\ i # 1
            /\ chain # <<>>
        BY <1>2, <2>2, <3>2
      <4> QED BY <1>2, <2>2, <4>1 DEF TailMac
    <3> QED BY <3>1, <3>2
  <2> QED BY <1>2, <2>1, <2>2
<1> QED BY <1>3 DEF ChainLinked

(* The rows of a linked chain are linked where they are neighbours. *)
LEMMA RowsOfLinkedChain ==
  ASSUME IInv, process = "up", ChainLinked
  PROVE  LinkedRows
<1>1. /\ ChainNumbered /\ RowsComeFromChain /\ DOMAIN disk \subseteq Nat
      /\ Len(chain) \in Nat
  BY Shapes DEF IInv
<1> SUFFICES ASSUME NEW s \in DOMAIN disk
             PROVE  /\ disk[s].seq = s
                    /\ s = 0 => disk[s].prev = GenesisMac
                    /\ s - 1 \in DOMAIN disk => disk[s].prev = disk[s - 1].mac
  BY DEF LinkedRows
<1>2. s + 1 \in 1 .. Len(chain) /\ disk[s] = chain[s + 1] /\ s \in Nat
  BY <1>1 DEF RowsComeFromChain
<1>3. disk[s].seq = s
  BY <1>1, <1>2 DEF ChainNumbered
<1>4. chain[s + 1].prev = IF s + 1 = 1 THEN GenesisMac ELSE chain[(s + 1) - 1].mac
  BY <1>2 DEF ChainLinked
<1>5. s = 0 => disk[s].prev = GenesisMac
  BY <1>2, <1>4
<1>6. ASSUME s - 1 \in DOMAIN disk PROVE disk[s].prev = disk[s - 1].mac
  <2>1. s - 1 \in Nat /\ (s - 1) + 1 = s /\ (s + 1) - 1 = s /\ s + 1 # 1
    BY <1>1, <1>2, <1>6
  <2>2. disk[s - 1] = chain[s]
    BY <1>1, <1>6, <2>1 DEF RowsComeFromChain
  <2> QED BY <1>2, <1>4, <2>1, <2>2
<1> QED BY <1>3, <1>5, <1>6

(* Links are kept, and only a store with a hole is refused. *)
LEMMA NextRefusable ==
  ASSUME IInv, DownIsEmpty, Refusable, [Next]_vars, IInv'
  PROVE  Refusable'
<1>1. ASSUME NEW w \in Writers, ChainAppend(w) PROVE Refusable'
  BY <1>1, ChainAppendLinked DEF ChainAppend, Refusable, LinkedRows, NoHole
<1>2. CASE PutOk
  <2>1. process' = "up" /\ ChainLinked'
    BY <1>2 DEF PutOk, Refusable, ChainLinked
  <2>2. LinkedRows'
    <3>1. /\ ChainNumbered' /\ RowsComeFromChain' /\ (DOMAIN disk \subseteq Nat)'
          /\ (Len(chain) \in Nat)'
      BY <2>1, Shapes, <1>2 DEF IInv, TypeOK, PutOk
    <3> SUFFICES ASSUME NEW s \in DOMAIN disk'
                 PROVE  /\ disk'[s].seq = s
                        /\ s = 0 => disk'[s].prev = GenesisMac
                        /\ s - 1 \in DOMAIN disk' => disk'[s].prev = disk'[s - 1].mac
      BY DEF LinkedRows
    <3>2. s + 1 \in 1 .. Len(chain') /\ disk'[s] = chain'[s + 1] /\ s \in Nat
      BY <2>1, <3>1 DEF RowsComeFromChain
    <3>3. disk'[s].seq = s
      BY <3>1, <3>2 DEF ChainNumbered
    <3>4. chain'[s + 1].prev = IF s + 1 = 1 THEN GenesisMac
                               ELSE chain'[(s + 1) - 1].mac
      BY <2>1, <3>2 DEF ChainLinked
    <3>5. s = 0 => disk'[s].prev = GenesisMac
      BY <3>2, <3>4
    <3>6. ASSUME s - 1 \in DOMAIN disk' PROVE disk'[s].prev = disk'[s - 1].mac
      <4>1. s - 1 \in Nat /\ (s - 1) + 1 = s /\ (s + 1) - 1 = s /\ s + 1 # 1
        BY <3>1, <3>2, <3>6
      <4>2. disk'[s - 1] = chain'[s]
        BY <2>1, <3>1, <3>6, <4>1 DEF RowsComeFromChain
      <4> QED BY <3>2, <3>4, <4>1, <4>2
    <3> QED BY <3>3, <3>5, <3>6
  <2> QED BY <2>1, <2>2 DEF Refusable
<1>3. CASE Open
  <2> DEFINE n == Cardinality(DOMAIN disk)
  <2>1. n \in Nat /\ DOMAIN disk = 0 .. n - 1 /\ Linked
    BY <1>3, FS_CardinalityType DEF IInv, Open, Gapless
  <2>2. process' = "up" /\ chain' = [i \in 1 .. n |-> disk[i - 1]] /\ disk' = disk
    BY <1>3 DEF Open
  <2> HIDE DEF n
  <2>3. ASSUME NEW i \in 1 .. n
        PROVE  chain'[i].prev = IF i = 1 THEN GenesisMac ELSE chain'[i - 1].mac
    <3>1. i - 1 \in DOMAIN disk /\ (i = 1 <=> i - 1 = 0)
      BY <2>1
    <3>2. disk[i - 1].prev = IF i - 1 = 0 THEN GenesisMac ELSE disk[(i - 1) - 1].mac
      BY <2>1, <3>1 DEF Linked
    <3>3. i # 1 => i - 1 \in 1 .. n
      BY <2>1
    <3> QED BY <2>2, <3>1, <3>2, <3>3
  <2>4. Len(chain') = n
    BY <2>1, <2>2
  <2> QED BY <2>2, <2>3, <2>4 DEF Refusable, ChainLinked, LinkedRows
<1>4. CASE OpenRefused
  BY <1>4, NoHoleIsAccepted DEF OpenRefused, Refusable, LinkedRows, NoHole
<1>5. CASE Crash
  BY <1>5 DEF Crash, Refusable, LinkedRows
<1>6. CASE UNCHANGED <<chain, disk, process>>
  BY <1>6 DEF Refusable, LinkedRows, ChainLinked, NoHole
<1> QED
  BY <1>1, <1>2, <1>3, <1>4, <1>5, <1>6
     DEF Next, vars, Writer, DrainTask, CheckHealth, Send, SendFails,
         FlipHealth, DrainRecv, PutFails, AnchorOk, AnchorFails, DrainCancelled

(* A start that is refused has found a hole, and that hole is explained: a *)
(* broken chain has no other cause, neither a link nor the anchor.         *)
THEOREM RefusalsExplained == Spec => []RestartOpens
<1>1. Init => Refusable
  BY DEF Init, Refusable, LinkedRows, ChainLinked
<1>2. IInv /\ DownIsEmpty /\ Refusable /\ [Next]_vars /\ IInv' => Refusable'
  BY NextRefusable
<1>3. Refusable /\ Accounted => RestartOpens
  BY DEF Refusable, NoHole, Accounted, RowsExplained, Settled, RestartOpens
<1> QED BY <1>1, <1>2, <1>3, Invariance, EveryEntryAccounted, PTL DEF Spec

-----------------------------------------------------------------------------
(* The refinement of AuditJournal.  The rows are the durable part, the     *)
(* rest of the chain the volatile part; an append records, a put makes one *)
(* entry durable, and the places that are settled without a row are the    *)
(* ones passed over.                                                       *)

(* The numbers in use are those minted so far. *)
InBounds ==
  /\ minted <= MaxEvents
  /\ process = "up" =>
       /\ Len(chain) <= minted
       /\ \A i \in 1 .. Len(chain) : chain[i].mac <= minted
  /\ \A s \in DOMAIN disk : s < minted /\ disk[s].mac <= minted

(* Every step keeps the numbers in use within those minted. *)
LEMMA NextInBounds ==
  ASSUME IInv, DownIsEmpty, InBounds, [Next]_vars
  PROVE  InBounds'
<1>1. TypeOK /\ MaxEvents \in Nat /\ RowsComeFromChain /\ IsFiniteSet(DOMAIN disk)
  BY AuditAssumption DEF IInv
<1>2. ASSUME NEW w \in Writers, ChainAppend(w) PROVE InBounds'
  <2> DEFINE e == [seq |-> Len(chain), prev |-> TailMac(chain), mac |-> minted + 1]
  <2>1. e \in Entry /\ chain \in Seq(Entry) /\ Len(chain) \in Nat /\ minted \in Nat
    BY <1>1, TailMacType DEF Entry, TypeOK
  <2>2. /\ chain' = Append(chain, e) /\ Len(chain') = Len(chain) + 1
        /\ \A i \in 1 .. Len(chain) : chain'[i] = chain[i]
        /\ chain'[Len(chain) + 1].mac = minted + 1
    BY <1>2, <2>1, AppendProperties DEF ChainAppend
  <2>3. minted' = minted + 1 /\ minted < MaxEvents /\ process = "up"
        /\ UNCHANGED <<disk, process>>
    BY <1>2 DEF ChainAppend
  <2>4. \A i \in 1 .. Len(chain) : chain[i].mac \in Nat
    <3>1. \A i \in 1 .. Len(chain) : chain[i] \in Entry
      BY <2>1
    <3> QED
      BY <3>1 DEF Entry
  <2>5. \A s \in DOMAIN disk : s \in Nat /\ disk[s].mac \in Nat
    BY <1>1 DEF TypeOK, Entry
  <2>6. ASSUME NEW i \in 1 .. Len(chain') PROVE chain'[i].mac <= minted'
    <3>1. CASE i \in 1 .. Len(chain)
      BY <2>1, <2>2, <2>3, <2>4, <3>1 DEF InBounds
    <3>2. CASE i = Len(chain) + 1
      BY <2>1, <2>2, <2>3, <3>2
    <3> QED
      BY <2>1, <2>2, <3>1, <3>2
  <2>7. \A s \in DOMAIN disk : s < minted' /\ disk[s].mac <= minted'
    BY <2>1, <2>3, <2>5 DEF InBounds
  <2> QED
    BY <1>1, <2>1, <2>2, <2>3, <2>6, <2>7 DEF InBounds
<1>3. CASE PutOk
  <2>1. /\ drain.entry.seq \in Nat /\ drain.entry.seq < Len(chain)
        /\ drain.entry = chain[drain.entry.seq + 1]
        /\ DOMAIN disk' = DOMAIN disk \cup {drain.entry.seq}
        /\ disk'[drain.entry.seq] = drain.entry
        /\ \A s \in DOMAIN disk : disk'[s] = disk[s]
    BY <1>3, PutOkRows
  <2>2. UNCHANGED <<chain, minted, process>> /\ process = "up"
    BY <1>3 DEF PutOk
  <2>3. drain.entry.seq + 1 \in 1 .. Len(chain)
    BY <1>1, <2>1 DEF TypeOK
  <2> QED
    BY <1>1, <2>1, <2>2, <2>3 DEF InBounds, TypeOK
<1>4. CASE Crash
  BY <1>4 DEF Crash, InBounds
<1>5. CASE Open
  <2> DEFINE n == Cardinality(DOMAIN disk)
  <2>1. n \in Nat /\ DOMAIN disk = 0 .. n - 1
    BY <1>1, <1>5, FS_CardinalityType DEF Open, Gapless
  <2>2. chain' = [i \in 1 .. n |-> disk[i - 1]] /\ UNCHANGED <<disk, minted>>
    BY <1>5 DEF Open
  <2> HIDE DEF n
  <2>3. Len(chain') = n
    BY <2>1, <2>2
  <2>4. n <= minted
    <3>1. n # 0 => n - 1 \in DOMAIN disk
      BY <2>1
    <3>2. n # 0 => n - 1 < minted
      BY <3>1 DEF InBounds
    <3> QED
      BY <1>1, <2>1, <3>2 DEF TypeOK
  <2>5. ASSUME NEW i \in 1 .. n PROVE chain'[i].mac <= minted
    <3>1. i - 1 \in DOMAIN disk /\ chain'[i] = disk[i - 1]
      BY <2>1, <2>2
    <3> QED
      BY <3>1 DEF InBounds
  <2> QED
    BY <2>2, <2>3, <2>4, <2>5 DEF InBounds
<1>6. CASE UNCHANGED <<chain, disk, minted, process>>
  BY <1>6 DEF InBounds
<1>7. CASE OpenRefused
  BY <1>7 DEF OpenRefused, InBounds
<1> QED
  BY <1>2, <1>3, <1>4, <1>5, <1>6, <1>7
     DEF Next, vars, Writer, DrainTask, CheckHealth, Send, SendFails,
         FlipHealth, DrainRecv, PutFails, AnchorOk, AnchorFails, DrainCancelled

(* The rows are a table, and a put leaves a table. *)
Tabular == disk = [s \in DOMAIN disk |-> disk[s]]

(* Every step leaves a table. *)
LEMMA NextTabular ==
  ASSUME Tabular, [Next]_vars
  PROVE  Tabular'
<1>1. CASE PutOk
  BY <1>1 DEF PutOk, Rows, Tabular
<1>2. CASE UNCHANGED disk
  BY <1>2 DEF Tabular
<1> QED
  BY <1>1, <1>2 DEF Next, vars, Writer, DrainTask, ChainAppend, CheckHealth,
     Send, SendFails, FlipHealth, DrainRecv, PutFails, AnchorOk, AnchorFails,
     DrainCancelled, Crash, Open, OpenRefused

(* In a process that is up, what is recorded is the chain. *)
LEMMA ChainIsRecorded ==
  ASSUME IInv, process = "up"
  PROVE  /\ DOMAIN VolatileEntries = (0 .. Len(chain) - 1) \ DOMAIN disk
         /\ DOMAIN disk \subseteq 0 .. Len(chain) - 1
         /\ \A s \in DOMAIN VolatileEntries : VolatileEntries[s] = chain[s + 1]
<1>1. DOMAIN disk \subseteq Nat /\ RowsComeFromChain /\ Len(chain) \in Nat
  BY Shapes DEF IInv
<1>2. VolatileEntries =
        [s \in {n \in 0 .. Len(chain) - 1 : n \notin DOMAIN disk} |-> chain[s + 1]]
  BY DEF VolatileEntries
<1>3. DOMAIN disk \subseteq 0 .. Len(chain) - 1
  BY <1>1 DEF RowsComeFromChain
<1>4. DOMAIN VolatileEntries = {n \in 0 .. Len(chain) - 1 : n \notin DOMAIN disk}
  BY <1>2
<1> QED BY <1>2, <1>3, <1>4

(* Minting an event records an entry in the journal. *)
LEMMA ChainAppendRecords ==
  ASSUME IInv, InBounds, NEW w \in Writers, ChainAppend(w), IInv'
  PROVE  Journal!Next
<1> DEFINE e == [seq |-> Len(chain), prev |-> TailMac(chain), mac |-> minted + 1]
           n == Len(chain)
<1>1. /\ TypeOK /\ process = "up" /\ UNCHANGED <<disk, process, overtaken, unwound>>
      /\ minted < MaxEvents /\ chain' = Append(chain, e)
      /\ minted \in Nat /\ MaxEvents \in Nat /\ chain \in Seq(Entry)
      /\ n \in Nat
  BY AuditAssumption DEF IInv, TypeOK, ChainAppend, passed
<1>2. TailMac(chain) \in 0 .. MaxEvents
  <2>1. TailMac(chain) \in Nat
    BY <1>1, TailMacType
  <2>2. CASE chain = <<>>
    BY <1>1, <2>2 DEF TailMac, GenesisMac
  <2>3. CASE chain # <<>>
    <3>1. Len(chain) \in 1 .. Len(chain)
      BY <1>1, <2>3
    <3>2. chain[Len(chain)].mac <= minted
      BY <1>1, <3>1 DEF InBounds
    <3> QED BY <1>1, <2>1, <2>3, <3>2 DEF TailMac
  <2> QED BY <2>2, <2>3
<1>3. e \in [seq : 0 .. MaxEvents, prev : 0 .. MaxEvents, mac : 0 .. MaxEvents]
  BY <1>1, <1>2 DEF InBounds
<1>4. e \in Entry
  BY <1>1, <1>2 DEF Entry
<1> HIDE DEF e
<1>5. /\ Len(chain') = n + 1
      /\ \A i \in 1 .. n : chain'[i] = chain[i]
      /\ chain'[n + 1] = e
  BY <1>1, <1>4, AppendProperties
<1>6. /\ DOMAIN VolatileEntries = (0 .. n - 1) \ DOMAIN disk
      /\ DOMAIN disk \subseteq 0 .. n - 1
      /\ VolatileEntries = [s \in (0 .. n - 1) \ DOMAIN disk |-> chain[s + 1]]
  BY <1>1, ChainIsRecorded DEF VolatileEntries
<1>7. VolatileEntries' = [s \in (0 .. n) \ DOMAIN disk |-> chain'[s + 1]]
  <2>1. {m \in 0 .. Len(chain') - 1 : m \notin DOMAIN disk} = (0 .. n) \ DOMAIN disk
    BY <1>1, <1>5
  <2> QED BY <1>1, <2>1 DEF VolatileEntries
<1> HIDE DEF n
<1>8. Journal!Places = 0 .. n - 1
  BY <1>6 DEF Journal!Places
<1>10. VolatileEntries' = Journal!Plus(VolatileEntries, n, e)
  <2>1. (0 .. n) \ DOMAIN disk = DOMAIN VolatileEntries \cup {n}
    BY <1>1, <1>6
  <2>2. ASSUME NEW s \in (0 .. n) \ DOMAIN disk
        PROVE  chain'[s + 1] = IF s = n THEN e ELSE VolatileEntries[s]
    <3>1. s # n => s \in 0 .. n - 1 /\ s + 1 \in 1 .. n
      BY <1>1
    <3> QED BY <1>5, <1>6, <2>1, <3>1
  <2> QED BY <1>7, <2>1, <2>2 DEF Journal!Plus
<1>11. Journal!Record(n, e)
  BY <1>1, <1>8, <1>10 DEF Journal!Record
<1>12. n \in 0 .. MaxEvents
  BY <1>1 DEF InBounds, n
<1> QED BY <1>3, <1>11, <1>12 DEF Journal!Next

(* A put makes the entry it holds durable at its own place. *)
LEMMA PutOkPersists ==
  ASSUME IInv, Accounted, Tabular, PutOk
  PROVE  [Journal!Next]_<<disk, VolatileEntries, overtaken \cup unwound>>
<1> DEFINE n == drain.entry.seq
<1>1. /\ process = "up" /\ drain.state = "put"
      /\ UNCHANGED <<chain, process, overtaken, unwound>>
      /\ disk' = Rows(n, drain.entry)
  BY DEF PutOk, passed
<1>2. n \in Nat /\ n < Len(chain) /\ drain.entry = chain[n + 1]
  BY PutOkRows
<1>3. /\ DOMAIN VolatileEntries = (0 .. Len(chain) - 1) \ DOMAIN disk
      /\ \A s \in DOMAIN VolatileEntries : VolatileEntries[s] = chain[s + 1]
      /\ VolatileEntries = [s \in (0 .. Len(chain) - 1) \ DOMAIN disk |-> chain[s + 1]]
  BY <1>1, ChainIsRecorded DEF VolatileEntries
<1>4. CASE n \in DOMAIN disk
  <2>1. disk[n] = drain.entry
    BY <1>1, <1>2, <1>4 DEF IInv, RowsComeFromChain
  <2>2. disk' = disk
    <3>1. disk = [s \in DOMAIN disk |-> disk[s]]
      BY DEF Tabular
    <3>2. DOMAIN disk \cup {n} = DOMAIN disk
      BY <1>4
    <3> QED BY <1>1, <2>1, <3>1, <3>2 DEF Rows
  <2> QED BY <1>1, <2>2 DEF VolatileEntries
<1>5. CASE n \notin DOMAIN disk
  <2>1. n \in DOMAIN VolatileEntries /\ VolatileEntries[n] = drain.entry
    BY <1>2, <1>3, <1>5, Shapes
  <2>2. \A m \in 0 .. n - 1 : m \in DOMAIN disk \cup (overtaken \cup unwound)
    BY <1>1 DEF Accounted, PutIsNext, Settled
  <2>3. disk' = Journal!Plus(disk, n, VolatileEntries[n])
    BY <1>1, <2>1 DEF Rows, Journal!Plus
  <2>4. VolatileEntries' = [m \in DOMAIN VolatileEntries \ {n} |-> VolatileEntries[m]]
    <3>1. DOMAIN disk' = DOMAIN disk \cup {n}
      BY PutOkRows
    <3>2. {m \in 0 .. Len(chain) - 1 : m \notin DOMAIN disk'}
            = DOMAIN VolatileEntries \ {n}
      BY <1>3, <3>1
    <3>3. VolatileEntries' =
            [s \in {m \in 0 .. Len(chain) - 1 : m \notin DOMAIN disk'} |-> chain[s + 1]]
      BY <1>1 DEF VolatileEntries
    <3> QED BY <1>3, <3>2, <3>3
  <2>5. Journal!Persist(n)
    BY <1>1, <2>2, <2>3, <2>4 DEF Journal!Persist
  <2> QED BY <2>1, <2>5 DEF Journal!Next
<1> QED BY <1>4, <1>5

(* A place is passed over only after it was recorded. *)
LEMMA SendSkips ==
  ASSUME IInv, NEW w \in Writers, Send(w) \/ SendFails(w)
  PROVE  Journal!Next
<1>1. /\ process = "up" /\ UNCHANGED <<chain, disk, process>> /\ pc[w] # "idle"
      /\ overtaken \subseteq overtaken' /\ unwound \subseteq unwound'
  BY DEF Send, SendFails
<1>2. \A v \in Writers : pc[v] # "idle" => at[v] \in 0 .. Len(chain) - 1
  BY <1>1, Shapes DEF IInv, HeldOfChain
<1>3. (overtaken' \cup unwound') \ (overtaken \cup unwound) \subseteq 0 .. Len(chain) - 1
  BY <1>1, <1>2 DEF Send, SendFails
<1>4. Journal!Places = 0 .. Len(chain) - 1
  BY <1>1, ChainIsRecorded DEF Journal!Places
<1>5. VolatileEntries' = VolatileEntries
  BY <1>1 DEF VolatileEntries
<1> QED BY <1>1, <1>3, <1>4, <1>5 DEF Journal!Next, Journal!Skip

(* A restart goes on with what is durable, if no place is missing. *)
LEMMA OpenContinues ==
  ASSUME IInv, Open
  PROVE  Journal!Next
<1> DEFINE n == Cardinality(DOMAIN disk)
<1>1. n \in Nat /\ process = "down" /\ process' = "up" /\ disk' = disk
      /\ chain' = [i \in 1 .. n |-> disk[i - 1]]
      /\ DOMAIN disk = 0 .. n - 1 /\ overtaken' = {} /\ unwound' = {}
  BY FS_CardinalityType DEF IInv, Open, Gapless
<1>2. VolatileEntries = [s \in {} |-> NoEntry]
  BY <1>1 DEF VolatileEntries
<1>3. DOMAIN VolatileEntries = {}
  BY <1>2
<1>4. Journal!Places = DOMAIN disk /\ Journal!Whole
  <2>1. DOMAIN disk \cup {} = DOMAIN disk
    OBVIOUS
  <2>2. Journal!Places = DOMAIN disk
    BY <1>3, <2>1 DEF Journal!Places
  <2>3. \A m \in DOMAIN disk : 0 .. m - 1 \subseteq DOMAIN disk
    BY <1>1
  <2> QED BY <2>2, <2>3 DEF Journal!Whole
<1> HIDE DEF n
<1>5. Len(chain') = n
  BY <1>1
<1>6. {m \in 0 .. Len(chain') - 1 : m \notin DOMAIN disk} = {}
  BY <1>1, <1>5
<1>7. VolatileEntries' = [s \in {} |-> chain'[s + 1]]
  BY <1>1, <1>6 DEF VolatileEntries
<1>8. VolatileEntries' = VolatileEntries
  BY <1>2, <1>7
<1> QED BY <1>1, <1>3, <1>4, <1>8 DEF Journal!Next, Journal!Continue

(* Every step of the log is a step of the journal or leaves it alone. *)
LEMMA NextIsJournal ==
  ASSUME IInv, DownIsEmpty, Accounted, InBounds, Tabular, [Next]_vars, IInv'
  PROVE  [Journal!Next]_<<disk, VolatileEntries, overtaken \cup unwound>>
<1>1. CASE \E w \in Writers : ChainAppend(w)
  BY <1>1, ChainAppendRecords
<1>2. CASE \E w \in Writers : Send(w) \/ SendFails(w)
  BY <1>2, SendSkips
<1>3. CASE PutOk
  BY <1>3, PutOkPersists
<1>4. CASE Open
  BY <1>4, OpenContinues
<1>5. CASE OpenRefused
  BY <1>5 DEF OpenRefused, VolatileEntries, passed
<1>6. CASE Crash
  <2>1. VolatileEntries' = [s \in {} |-> NoEntry] /\ UNCHANGED <<disk, overtaken, unwound>>
    BY <1>6 DEF Crash, VolatileEntries, passed
  <2>2. [s \in {} |-> NoEntry] = [s \in {} |-> 0]
    OBVIOUS
  <2> QED BY <2>1, <2>2 DEF Journal!Next, Journal!LoseVolatile
<1>7. CASE UNCHANGED <<chain, disk, process, overtaken, unwound>>
  BY <1>7 DEF VolatileEntries
<1> QED
  BY <1>1, <1>2, <1>3, <1>4, <1>5, <1>6, <1>7
     DEF Next, vars, passed, Writer, DrainTask, CheckHealth, FlipHealth,
         DrainRecv, PutFails, AnchorOk, AnchorFails, DrainCancelled

(* With any number of tasks appending and either handler the log           *)
(* implements the journal: an entry becomes durable at its place and after *)
(* all before it that were not passed over, and a crash loses only what is *)
(* not durable.                                                            *)
THEOREM LogIsAJournal == Spec => ImplementsJournal
<1>1. Init => InBounds
  BY AuditAssumption DEF Init, InBounds
<1>2. IInv /\ DownIsEmpty /\ InBounds /\ [Next]_vars => InBounds'
  BY NextInBounds
<1>3. Init => Journal!Init
  <2> SUFFICES ASSUME Init PROVE Journal!Init
    OBVIOUS
  <2>1. Len(chain) = 0 /\ process = "up" /\ overtaken = {} /\ unwound = {}
        /\ disk = [s \in {} |-> NoEntry]
    BY DEF Init
  <2>2. {n \in 0 .. Len(chain) - 1 : n \notin DOMAIN disk} = {}
    BY <2>1
  <2>3. VolatileEntries = [s \in {} |-> 0] /\ disk = [s \in {} |-> 0]
    BY <2>1, <2>2 DEF VolatileEntries
  <2> QED BY <2>1, <2>3 DEF Journal!Init
<1>4. IInv /\ DownIsEmpty /\ Accounted /\ InBounds /\ Tabular /\ [Next]_vars /\ IInv'
        => [Journal!Next]_<<disk, VolatileEntries, overtaken \cup unwound>>
  BY NextIsJournal
<1>5. Init => Tabular
  BY DEF Init, Tabular
<1>6. Tabular /\ [Next]_vars => Tabular'
  BY NextTabular
<1> QED
  BY <1>1, <1>2, <1>3, <1>4, <1>5, <1>6, Invariance, EveryEntryAccounted, PTL
     DEF Spec, ImplementsJournal, Journal!Spec, Journal!vars

=============================================================================
