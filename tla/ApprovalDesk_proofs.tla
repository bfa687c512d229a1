------------------------- MODULE ApprovalDesk_proofs -------------------------
(***************************************************************************)
(* Proofs about ApprovalDesk, for any number of frames and prompts.        *)
(*                                                                         *)
(* Deferred and wire, one after the other, are a queue from which cancels  *)
(* and answers are taken early: the messages in it are those submitted and *)
(* not started, in order, and whatever stands before a cancel was sent     *)
(* before it.  A prompt that waits is told what its first answer on the    *)
(* wire says, for none was handled before.                                 *)
(***************************************************************************)
EXTENDS ApprovalDesk, SequenceTheorems, TLAPS

Positions(s) == 1 .. Len(s)
IsSubmit(s, i) == i \in Positions(s) /\ s[i].kind = "submit"
IsCancel(s, i) == i \in Positions(s) /\ s[i].kind = "cancel"
IsAnswer(s, i, a) == i \in Positions(s) /\ s[i].kind = "answer" /\ s[i].n = a

(* The messages submitted and not started are queued, in order. *)
Queued(n) == \/ \E i \in Positions(deferred) : IsSubmit(deferred, i) /\ deferred[i].n = n
             \/ \E i \in Positions(wire) : IsSubmit(wire, i) /\ wire[i].n = n

Ordered(s) == \A i, j \in Positions(s) : IsSubmit(s, i) /\ IsSubmit(s, j) /\ i < j => s[i].n < s[j].n

QueueShape ==
  /\ Len(started) <= submitted
  /\ \A n \in Nat : Queued(n) <=> Len(started) < n /\ n <= submitted
  /\ Ordered(deferred) /\ Ordered(wire)
  /\ \A i \in Positions(deferred), j \in Positions(wire) :
       IsSubmit(deferred, i) /\ IsSubmit(wire, j) => deferred[i].n < wire[j].n
  /\ \A i \in Positions(deferred) : deferred[i].kind \in {"submit", "goodbye"}
  /\ \A i \in Positions(wire) : wire[i].kind = "answer" => wire[i].n \in Asks

(* What stands before a cancel was sent before it, and so was all that the
   frontend sent before it went. *)
StopShape ==
  /\ \A c \in Positions(wire) : IsCancel(wire, c) =>
       /\ Len(started) <= lastStop
       /\ \A i \in Positions(deferred) : IsSubmit(deferred, i) => deferred[i].n <= lastStop
       /\ \A i \in Positions(wire) : IsSubmit(wire, i) /\ i < c => wire[i].n <= lastStop
  /\ gone => lastStop = submitted

(* A turn has begun, and prompts are open only while it asks. *)
TurnShape ==
  /\ conn = "turn" <=> phase # "none"
  /\ phase # "none" => Len(started) > 0
  /\ phase \in {"none", "working"} => Open = {}
  /\ phase = "asking" => \A i, j \in Open : i = j

(* The first answer to prompt a on the wire. *)
First(a, p) == IsAnswer(wire, p, a) /\ \A q \in Positions(wire) : q < p => ~IsAnswer(wire, q, a)
Told(yes) == IF yes THEN "yes" ELSE "no"

AnswerShape ==
  \A a \in Asks :
    /\ ask[a] \in {"none", "writing"} => said[a] = "none"
    /\ ask[a] = "none" => slot[a] = "empty"
    /\ a \in waiting => slot[a] = "empty"
    /\ said[a] = "none" => \A p \in Positions(wire) : ~IsAnswer(wire, p, a)
    /\ a \in waiting /\ said[a] # "none" => \E p \in Positions(wire) : First(a, p) /\ said[a] = Told(wire[p].yes)
    /\ slot[a] = "yes" => said[a] = "yes"
    /\ slot[a] = "no" => said[a] = "no" \/ gone

Inv == TypeOK /\ QueueShape /\ StopShape /\ TurnShape /\ AnswerShape
         /\ OrderKept /\ NoStaleCancel /\ FirstAnswerDecides

-----------------------------------------------------------------------------
(* Sequences *)

(* t is s with x at its end; t is s without its head. *)
Grown(s, t, x) ==
  LET l == Len(s) + 1
  IN /\ Positions(t) = Positions(s) \cup {l} /\ l \in Nat /\ t[l] = x
     /\ \A i \in Positions(s) : t[i] = s[i] /\ i \in Nat /\ i < l

Shrunk(s, t) ==
  /\ 1 \in Positions(s)
  /\ \A i \in Positions(t) : i \in Nat /\ i + 1 \in Positions(s) /\ t[i] = s[i + 1]
  /\ \A i \in Positions(s) : i # 1 => i \in Nat /\ i > 1 /\ i - 1 \in Positions(t) /\ t[i - 1] = s[i]

(* A frame is sent behind those already on the wire. *)
LEMMA AppendGrows ==
  ASSUME NEW S, NEW s \in Seq(S), NEW x \in S
  PROVE  Grown(s, Append(s, x), x)
BY DEF Positions, Grown

(* What is read is the oldest frame, and the others move up. *)
LEMMA TailShrinks ==
  ASSUME NEW S, NEW s \in Seq(S), s # << >>
  PROVE  Shrunk(s, Tail(s)) /\ Head(s) = s[1] /\ Head(s) \in S
BY DEF Positions, Shrunk

-----------------------------------------------------------------------------
(* The queue *)

Queue == QueueShape /\ StopShape /\ OrderKept
KeptQueue == QueueShape' /\ StopShape' /\ OrderKept'

(* What the types say of it. *)
Counts ==
  /\ submitted \in Nat /\ lastStop \in Nat /\ lastStop <= submitted /\ Len(started) \in Nat
  /\ \A i \in Positions(wire) : wire[i].n \in Nat
  /\ \A i \in Positions(deferred) : deferred[i].n \in Nat

(* In a typed state the queues have lengths and the counters are numbers. *)
LEMMA TypesCount == ASSUME TypeOK PROVE Counts
<1>1. wire \in Seq(Frames) /\ deferred \in Seq(Frames) /\ started \in Seq(1 .. MaxFrames)
  BY DEF TypeOK
<1>2. \A g \in Frames : g.n \in Nat
  BY DeskAssumption DEF DeskAssumption, Frames
<1>3. \A i \in Positions(wire) : wire[i] \in Frames
  BY <1>1 DEF Positions
<1>4. \A i \in Positions(deferred) : deferred[i] \in Frames
  BY <1>1 DEF Positions
<1>5. submitted \in Nat /\ lastStop \in Nat /\ lastStop <= submitted
  BY DeskAssumption DEF DeskAssumption, TypeOK
<1>6. Len(started) \in Nat
  BY <1>1
<1> QED
  BY <1>2, <1>3, <1>4, <1>5, <1>6 DEF Counts

(* A step that touches neither queue nor counter keeps the order. *)
LEMMA QueueUnchanged ==
  ASSUME Queue, UNCHANGED <<wire, deferred, started, submitted, lastStop>>, gone' = gone
  PROVE  KeptQueue
BY DEF Queue, KeptQueue, QueueShape, StopShape, OrderKept, Queued, Ordered, Positions, IsSubmit, IsCancel

(* A frame is read: the last of all. *)
LEMMA QueueGrows ==
  ASSUME Queue, Counts, NEW f, Grown(wire, wire', f), UNCHANGED <<deferred, started>>,
         gone' = gone, ~gone,
         \/ /\ f.kind = "submit" /\ f.n = submitted + 1
            /\ submitted' = submitted + 1 /\ lastStop' = lastStop
         \/ f.kind \in {"cancel", "goodbye"} /\ submitted' = submitted /\ lastStop' = submitted
         \/ f.kind = "answer" /\ f.n \in Asks /\ UNCHANGED <<submitted, lastStop>>
  PROVE  KeptQueue
<1> DEFINE l == Len(wire) + 1
<1>1. /\ Positions(wire') = Positions(wire) \cup {l} /\ l \in Nat /\ wire'[l] = f
      /\ \A i \in Positions(wire) : wire'[i] = wire[i] /\ i \in Nat /\ i < l
  BY DEF Grown
<1> HIDE DEF l
<1>2. started' = started /\ deferred' = deferred
  OBVIOUS
<1>3. \A n \in Nat : Queued(n) => n <= submitted
  BY DEF Queue, QueueShape
<1>4. /\ \A i \in Positions(wire) : IsSubmit(wire, i) => wire[i].n <= submitted
      /\ \A i \in Positions(deferred) : IsSubmit(deferred, i) => deferred[i].n <= submitted
  BY <1>3 DEF Counts, Queued
<1>5. QueueShape'
  <2>1. Len(started)' <= submitted'
    BY <1>2 DEF Counts, Queue, QueueShape
  <2>2. ASSUME NEW n \in Nat PROVE Queued(n)' <=> Len(started)' < n /\ n <= submitted'
    <3>1. Queued(n)' <=> Queued(n) \/ (f.kind = "submit" /\ f.n = n)
      <4>1. IsSubmit(wire', l) <=> f.kind = "submit"
        BY <1>1 DEF IsSubmit
      <4>2. \A i \in Positions(wire) : IsSubmit(wire', i) <=> IsSubmit(wire, i)
        BY <1>1 DEF IsSubmit
      <4> QED
        BY <1>1, <1>2, <4>1, <4>2 DEF Queued
    <3>2. (Queued(n) <=> Len(started) < n /\ n <= submitted) /\ Len(started) <= submitted
      BY DEF Queue, QueueShape
    <3> QED
      BY <1>2, <3>1, <3>2 DEF Counts
  <2>3. Ordered(wire')
    <3> SUFFICES ASSUME NEW i \in Positions(wire'), NEW j \in Positions(wire'),
                        IsSubmit(wire', i), IsSubmit(wire', j), i < j
                 PROVE  wire'[i].n < wire'[j].n
      BY DEF Ordered
    <3>1. i \in Positions(wire) /\ IsSubmit(wire, i)
      BY <1>1 DEF IsSubmit
    <3>2. CASE j = l
      BY <1>1, <1>4, <3>1, <3>2 DEF Counts, IsSubmit
    <3>3. CASE j \in Positions(wire)
      <4>1. IsSubmit(wire, j)
        BY <1>1, <3>3 DEF IsSubmit
      <4> QED
        BY <1>1, <3>1, <3>3, <4>1 DEF Queue, QueueShape, Ordered
    <3> QED
      BY <1>1, <3>2, <3>3
  <2>4. ASSUME NEW i \in Positions(deferred), NEW j \in Positions(wire'),
               IsSubmit(deferred, i), IsSubmit(wire', j)
        PROVE  deferred[i].n < wire'[j].n
    <3>1. CASE j = l
      BY <1>1, <1>4, <2>4, <3>1 DEF Counts, IsSubmit
    <3>2. CASE j \in Positions(wire)
      <4>1. IsSubmit(wire, j)
        BY <1>1, <2>4, <3>2 DEF IsSubmit
      <4> QED
        BY <1>1, <2>4, <3>2, <4>1 DEF Queue, QueueShape
    <3> QED
      BY <1>1, <3>1, <3>2
  <2>5. \A i \in Positions(wire') : wire'[i].kind = "answer" => wire'[i].n \in Asks
    BY <1>1 DEF Queue, QueueShape
  <2> QED
    BY <1>2, <2>1, <2>2, <2>3, <2>4, <2>5 DEF Queue, QueueShape
<1>6. StopShape'
  <2>1. ASSUME NEW c \in Positions(wire'), IsCancel(wire', c)
        PROVE  /\ Len(started) <= lastStop'
               /\ \A i \in Positions(deferred) : IsSubmit(deferred, i) => deferred[i].n <= lastStop'
               /\ \A i \in Positions(wire') : IsSubmit(wire', i) /\ i < c => wire'[i].n <= lastStop'
    <3>1. CASE c \in Positions(wire)
      <4>1. IsCancel(wire, c)
        BY <1>1, <2>1, <3>1 DEF IsCancel
      <4>2. lastStop <= lastStop'
        BY DEF Counts
      <4>3. /\ Len(started) <= lastStop
            /\ \A i \in Positions(deferred) : IsSubmit(deferred, i) => deferred[i].n <= lastStop
            /\ \A i \in Positions(wire) : IsSubmit(wire, i) /\ i < c => wire[i].n <= lastStop
        BY <3>1, <4>1 DEF Queue, StopShape
      <4>4. ASSUME NEW i \in Positions(wire'), IsSubmit(wire', i), i < c
            PROVE  wire'[i].n <= lastStop'
        <5>1. i \in Positions(wire) /\ IsSubmit(wire, i)
          BY <1>1, <3>1, <4>4 DEF IsSubmit
        <5> QED
          BY <1>1, <4>2, <4>3, <4>4, <5>1 DEF Counts
      <4> QED
        BY <4>2, <4>3, <4>4 DEF Counts
    <3>2. CASE c = l
      <4>1. lastStop' = submitted /\ Len(started) <= submitted
        BY <1>1, <2>1, <3>2 DEF IsCancel, Queue, QueueShape
      <4>2. ASSUME NEW i \in Positions(wire'), IsSubmit(wire', i), i < c
            PROVE  wire'[i].n <= lastStop'
        <5>1. i \in Positions(wire) /\ IsSubmit(wire, i)
          BY <1>1, <3>2, <4>2 DEF IsSubmit
        <5> QED
          BY <1>1, <1>4, <4>1, <5>1
      <4> QED
        BY <1>4, <4>1, <4>2
    <3> QED
      BY <1>1, <2>1, <3>1, <3>2
  <2> QED
    BY <1>2, <2>1 DEF StopShape
<1> QED
  BY <1>2, <1>5, <1>6 DEF KeptQueue, Queue, OrderKept

(* What is left when the head goes: the rest, in its order. *)
LEMMA RestIs ==
  ASSUME NEW s, NEW t, Shrunk(s, t)
  PROVE  /\ \A i \in Positions(t) : /\ IsSubmit(t, i) <=> IsSubmit(s, i + 1)
                                    /\ IsCancel(t, i) <=> IsCancel(s, i + 1)
         /\ Ordered(s) => Ordered(t)
         /\ \A n : (\E i \in Positions(s) : IsSubmit(s, i) /\ s[i].n = n)
                     <=> \/ s[1].kind = "submit" /\ s[1].n = n
                         \/ \E i \in Positions(t) : IsSubmit(t, i) /\ t[i].n = n
         /\ Ordered(s) /\ s[1].kind = "submit" =>
              \A i \in Positions(t) : IsSubmit(t, i) => s[1].n < t[i].n
<1>1. \A i \in Positions(t) : /\ IsSubmit(t, i) <=> IsSubmit(s, i + 1)
                              /\ IsCancel(t, i) <=> IsCancel(s, i + 1)
  BY DEF Shrunk, IsSubmit, IsCancel
<1>2. ASSUME Ordered(s) PROVE Ordered(t)
  <2> SUFFICES ASSUME NEW i \in Positions(t), NEW j \in Positions(t), IsSubmit(t, i), IsSubmit(t, j), i < j
               PROVE  t[i].n < t[j].n
    BY DEF Ordered
  <2>1. IsSubmit(s, i + 1) /\ IsSubmit(s, j + 1) /\ i + 1 < j + 1
    BY <1>1 DEF Shrunk
  <2>2. i + 1 \in Positions(s) /\ j + 1 \in Positions(s) /\ t[i] = s[i + 1] /\ t[j] = s[j + 1]
    BY DEF Shrunk
  <2>3. s[i + 1].n < s[j + 1].n
    BY <1>2, <2>1, <2>2 DEF Ordered
  <2> QED
    BY <2>2, <2>3
<1>3. ASSUME NEW n
      PROVE  (\E i \in Positions(s) : IsSubmit(s, i) /\ s[i].n = n)
               <=> \/ s[1].kind = "submit" /\ s[1].n = n
                   \/ \E i \in Positions(t) : IsSubmit(t, i) /\ t[i].n = n
  <2>1. ASSUME NEW i \in Positions(s), IsSubmit(s, i), s[i].n = n, i # 1
        PROVE  \E j \in Positions(t) : IsSubmit(t, j) /\ t[j].n = n
    <3>1. i - 1 \in Positions(t) /\ t[i - 1] = s[i] /\ i \in Nat
      BY <2>1 DEF Shrunk
    <3>2. IsSubmit(t, i - 1) /\ t[i - 1].n = n
      BY <2>1, <3>1 DEF IsSubmit
    <3> QED
      BY <3>1, <3>2
  <2>2. ASSUME NEW i \in Positions(t), IsSubmit(t, i), t[i].n = n
        PROVE  \E j \in Positions(s) : IsSubmit(s, j) /\ s[j].n = n
    <3>1. i + 1 \in Positions(s) /\ IsSubmit(s, i + 1) /\ s[i + 1].n = n
      BY <1>1, <2>2 DEF Shrunk
    <3> QED
      BY <3>1
  <2>3. 1 \in Positions(s) /\ (IsSubmit(s, 1) <=> s[1].kind = "submit")
    BY DEF Shrunk, IsSubmit
  <2> QED
    BY <2>1, <2>2, <2>3
<1>4. ASSUME Ordered(s), s[1].kind = "submit", NEW i \in Positions(t), IsSubmit(t, i)
      PROVE  s[1].n < t[i].n
  <2>1. i + 1 \in Positions(s) /\ IsSubmit(s, i + 1) /\ t[i] = s[i + 1] /\ 1 < i + 1
    <3>1. i \in Positions(t) /\ i \in Nat
      BY DEF Shrunk
    <3>2. 1 < i + 1
      <4>1. i # 0
        BY DEF Positions
      <4> QED
        BY <3>1, <4>1
    <3> QED
      BY <1>1, <1>4, <3>1, <3>2 DEF Shrunk
  <2>2. 1 \in Positions(s) /\ IsSubmit(s, 1)
    BY <1>4 DEF Shrunk, IsSubmit
  <2> QED
    BY <1>4, <2>1, <2>2 DEF Ordered
<1> QED
  BY <1>1, <1>2, <1>3, <1>4

(* The head of the wire goes: dropped, kept for later, or its turn starts. *)
HeadDropped == wire[1].kind # "submit" /\ UNCHANGED <<deferred, started>>
HeadKept == /\ wire[1].kind \in {"submit", "goodbye"}
            /\ Grown(deferred, deferred', wire[1]) /\ started' = started
HeadStarted == /\ wire[1].kind = "submit" /\ Positions(deferred) = {} /\ deferred' = deferred
               /\ Grown(started, started', wire[1].n) /\ Len(started') = Len(started) + 1

(* Reading the wire keeps the order, whether the frame is dropped,         *)

(* deferred or starts a turn.                                              *)
LEMMA WireQueue ==
  ASSUME Queue, Counts, Shrunk(wire, wire'), UNCHANGED <<submitted, lastStop, gone>>,
         HeadDropped \/ HeadKept \/ HeadStarted
  PROVE  KeptQueue
<1> DEFINE Sent(s, n) == \E i \in Positions(s) : IsSubmit(s, i) /\ s[i].n = n
<1>1. /\ \A i \in Positions(wire') : /\ IsSubmit(wire', i) <=> IsSubmit(wire, i + 1)
                                     /\ IsCancel(wire', i) <=> IsCancel(wire, i + 1)
      /\ Ordered(wire')
      /\ \A n : Sent(wire, n) <=> (wire[1].kind = "submit" /\ wire[1].n = n) \/ Sent(wire', n)
      /\ wire[1].kind = "submit" => \A i \in Positions(wire') : IsSubmit(wire', i) => wire[1].n < wire'[i].n
  <2>1. Ordered(wire)
    BY DEF Queue, QueueShape
  <2> QED
    BY <2>1, RestIs
<1>2. 1 \in Positions(wire)
      /\ \A i \in Positions(wire') : i \in Nat /\ i + 1 \in Positions(wire) /\ wire'[i] = wire[i + 1]
  BY DEF Shrunk
<1>3. \A n : Queued(n) <=> Sent(deferred, n) \/ Sent(wire, n)
  BY DEF Queued
<1>4. \A n : Queued(n)' <=> Sent(deferred', n) \/ Sent(wire', n)
  BY DEF Queued
<1>5. \A i \in Positions(wire') : wire'[i].kind = "answer" => wire'[i].n \in Asks
  BY <1>2 DEF Queue, QueueShape
<1>6. ASSUME NEW c \in Positions(wire'), IsCancel(wire', c)
      PROVE  /\ Len(started) <= lastStop
             /\ \A i \in Positions(deferred) : IsSubmit(deferred, i) => deferred[i].n <= lastStop
             /\ \A i \in Positions(wire') : IsSubmit(wire', i) /\ i < c => wire'[i].n <= lastStop
             /\ wire[1].kind = "submit" => wire[1].n <= lastStop
  <2>1. c + 1 \in Positions(wire) /\ IsCancel(wire, c + 1) /\ c \in Nat
    BY <1>1, <1>2, <1>6
  <2>2. /\ Len(started) <= lastStop
        /\ \A i \in Positions(deferred) : IsSubmit(deferred, i) => deferred[i].n <= lastStop
        /\ \A i \in Positions(wire) : IsSubmit(wire, i) /\ i < c + 1 => wire[i].n <= lastStop
    BY <2>1 DEF Queue, StopShape
  <2>3. ASSUME NEW i \in Positions(wire'), IsSubmit(wire', i), i < c PROVE wire'[i].n <= lastStop
    <3>1. i + 1 \in Positions(wire) /\ IsSubmit(wire, i + 1) /\ i + 1 < c + 1 /\ wire'[i] = wire[i + 1]
      BY <1>1, <1>2, <2>1, <2>3
    <3> QED
      BY <2>2, <3>1
  <2>4. wire[1].kind = "submit" => wire[1].n <= lastStop
    <3>1. 1 < c + 1
      <4>1. c # 0
        BY DEF Positions
      <4> QED
        BY <2>1, <4>1
    <3> QED
      BY <1>2, <2>2, <3>1 DEF IsSubmit
  <2> QED
    BY <2>2, <2>3, <2>4
<1>7. CASE HeadDropped
  <2>1. deferred' = deferred /\ started' = started /\ wire[1].kind # "submit"
    BY <1>7 DEF HeadDropped
  <2>2. \A n : Queued(n)' <=> Queued(n)
    BY <1>1, <1>3, <1>4, <2>1
  <2>3. ASSUME NEW i \in Positions(deferred), NEW j \in Positions(wire'),
               IsSubmit(deferred, i), IsSubmit(wire', j)
        PROVE  deferred[i].n < wire'[j].n
    <3>1. j + 1 \in Positions(wire) /\ IsSubmit(wire, j + 1) /\ wire'[j] = wire[j + 1]
      BY <1>1, <1>2, <2>3
    <3> QED
      BY <2>3, <3>1 DEF Queue, QueueShape
  <2>4. QueueShape'
    BY <1>1, <1>5, <2>1, <2>2, <2>3 DEF Queue, QueueShape
  <2>5. StopShape'
    BY <1>6, <2>1 DEF Queue, StopShape
  <2> QED
    BY <2>1, <2>4, <2>5 DEF KeptQueue, Queue, OrderKept
<1>8. CASE HeadKept
  <2> DEFINE l == Len(deferred) + 1
  <2>1. /\ Positions(deferred') = Positions(deferred) \cup {l} /\ deferred'[l] = wire[1]
        /\ l \in Nat /\ \A i \in Positions(deferred) : deferred'[i] = deferred[i] /\ i \in Nat /\ i < l
        /\ started' = started /\ wire[1].kind \in {"submit", "goodbye"}
    BY <1>8 DEF HeadKept, Grown
  <2> HIDE DEF l
  <2>2. /\ \A i \in Positions(deferred) : IsSubmit(deferred', i) <=> IsSubmit(deferred, i)
        /\ IsSubmit(deferred', l) <=> wire[1].kind = "submit"
    BY <2>1 DEF IsSubmit
  <2>3. \A n : Sent(deferred', n) <=> (wire[1].kind = "submit" /\ wire[1].n = n) \/ Sent(deferred, n)
    BY <2>1, <2>2
  <2>4. \A n : Queued(n)' <=> Queued(n)
    BY <1>1, <1>3, <1>4, <2>3
  <2>5. wire[1].kind = "submit" =>
          \A i \in Positions(deferred) : IsSubmit(deferred, i) => deferred[i].n < wire[1].n
    BY <1>2 DEF Queue, QueueShape, IsSubmit
  <2>6. Ordered(deferred')
    <3> SUFFICES ASSUME NEW i \in Positions(deferred'), NEW j \in Positions(deferred'),
                        IsSubmit(deferred', i), IsSubmit(deferred', j), i < j
                 PROVE  deferred'[i].n < deferred'[j].n
      BY DEF Ordered
    <3>1. i \in Positions(deferred) /\ IsSubmit(deferred, i)
      BY <2>1, <2>2
    <3>2. CASE j = l
      BY <2>1, <2>2, <2>5, <3>1, <3>2
    <3>3. CASE j \in Positions(deferred)
      <4>1. IsSubmit(deferred, j)
        BY <2>2, <3>3
      <4> QED
        BY <2>1, <3>1, <3>3, <4>1 DEF Queue, QueueShape, Ordered
    <3> QED
      BY <2>1, <3>2, <3>3
  <2>7. ASSUME NEW i \in Positions(deferred'), NEW j \in Positions(wire'),
               IsSubmit(deferred', i), IsSubmit(wire', j)
        PROVE  deferred'[i].n < wire'[j].n
    <3>1. CASE i = l
      BY <1>1, <2>1, <2>2, <2>7, <3>1
    <3>2. CASE i \in Positions(deferred)
      <4>1. j + 1 \in Positions(wire) /\ IsSubmit(wire, j + 1) /\ wire'[j] = wire[j + 1]
        BY <1>1, <1>2, <2>7
      <4>2. IsSubmit(deferred, i) /\ deferred'[i] = deferred[i]
        BY <2>1, <2>2, <2>7, <3>2
      <4> QED
        BY <3>2, <4>1, <4>2 DEF Queue, QueueShape
    <3> QED
      BY <2>1, <3>1, <3>2
  <2>8. \A i \in Positions(deferred') : deferred'[i].kind \in {"submit", "goodbye"}
    BY <2>1 DEF Queue, QueueShape
  <2>9. QueueShape'
    <3>1. \A n \in Nat : Queued(n)' <=> Len(started) < n /\ n <= submitted
      BY <2>4 DEF Queue, QueueShape
    <3>2. Len(started) <= submitted
      BY DEF Queue, QueueShape
    <3> QED
      BY <1>1, <1>5, <2>1, <2>6, <2>7, <2>8, <3>1, <3>2 DEF QueueShape
  <2>10. StopShape'
    <3>1. ASSUME NEW c \in Positions(wire'), IsCancel(wire', c), NEW i \in Positions(deferred'),
                 IsSubmit(deferred', i)
          PROVE  deferred'[i].n <= lastStop
      BY <1>6, <2>1, <2>2, <3>1
    <3>2. gone => lastStop = submitted
      BY DEF Queue, StopShape
    <3> QED
      BY <1>6, <2>1, <3>1, <3>2 DEF StopShape
  <2> QED
    BY <2>1, <2>9, <2>10 DEF KeptQueue, Queue, OrderKept
<1>9. CASE HeadStarted
  <2> DEFINE l == Len(started) + 1
             h == wire[1].n
  <2>1. /\ Positions(started') = Positions(started) \cup {l} /\ started'[l] = h
        /\ \A i \in Positions(started) : started'[i] = started[i]
        /\ wire[1].kind = "submit" /\ Positions(deferred) = {} /\ deferred' = deferred /\ Len(started') = l
    BY <1>9 DEF HeadStarted, Grown
  <2>2. h \in Nat /\ l \in Nat
    BY <1>2 DEF Counts
  <2>3. \A n \in Nat : Queued(n) <=> n = h \/ Queued(n)'
    <3>1. \A n : ~Sent(deferred, n)
      BY <2>1
    <3> QED
      BY <1>1, <1>3, <1>4, <2>1, <3>1
  <2>4. \A n \in Nat : Queued(n)' => h < n
    <3>1. \A n : ~Sent(deferred', n)
      BY <2>1
    <3> QED
      BY <1>1, <1>4, <2>1, <3>1
  <2>5. \A n \in Nat : Queued(n) <=> Len(started) < n /\ n <= submitted
    BY DEF Queue, QueueShape
  <2> HIDE DEF h
  <2>6. h = l
    <3>1. Len(started) < h /\ h <= submitted
      BY <2>2, <2>3, <2>5
    <3>2. Queued(l)
      BY <2>2, <2>5, <3>1 DEF Counts
    <3>3. l = h \/ h < l
      BY <2>2, <2>3, <2>4, <3>2
    <3> QED
      BY <2>2, <3>1, <3>3 DEF Counts
  <2>7. \A n \in Nat : Queued(n)' <=> Len(started') < n /\ n <= submitted
    BY <2>1, <2>2, <2>3, <2>4, <2>5, <2>6 DEF Counts
  <2>8. Len(started') <= submitted
    BY <2>1, <2>2, <2>3, <2>5, <2>6 DEF Counts
  <2>9. QueueShape'
    BY <1>1, <1>5, <2>1, <2>7, <2>8 DEF Queue, QueueShape
  <2>10. StopShape'
    <3>1. \A c \in Positions(wire') : IsCancel(wire', c) => Len(started') <= lastStop
      BY <1>6, <2>1, <2>6 DEF h
    <3> QED
      BY <1>6, <2>1, <3>1 DEF Queue, StopShape
  <2>11. OrderKept'
    <3>1. \A k \in Positions(started) : started[k] = k
      BY DEF Queue, OrderKept, Positions
    <3>2. \A k \in Positions(started') : started'[k] = k
      BY <2>1, <2>6, <3>1
    <3> QED
      BY <3>2 DEF OrderKept, Positions
  <2> QED
    BY <2>9, <2>10, <2>11 DEF KeptQueue
<1> QED
  BY <1>7, <1>8, <1>9

(* Between turns, a frame kept for later is served first. *)
KeptStarted == /\ deferred[1].kind = "submit"
               /\ Grown(started, started', deferred[1].n) /\ Len(started') = Len(started) + 1
KeptDropped == deferred[1].kind # "submit" /\ started' = started

(* Serving a deferred frame keeps the order, whether it starts a turn or   *)

(* is dropped.                                                             *)
LEMMA DeferredQueue ==
  ASSUME Queue, Counts, Shrunk(deferred, deferred'), UNCHANGED <<wire, submitted, lastStop, gone>>,
         KeptStarted \/ KeptDropped
  PROVE  KeptQueue
<1> DEFINE Sent(s, n) == \E i \in Positions(s) : IsSubmit(s, i) /\ s[i].n = n
           h == deferred[1].n
           l == Len(started) + 1
<1>1. /\ \A i \in Positions(deferred') : IsSubmit(deferred', i) <=> IsSubmit(deferred, i + 1)
      /\ Ordered(deferred')
      /\ \A n : Sent(deferred, n) <=> (deferred[1].kind = "submit" /\ h = n) \/ Sent(deferred', n)
      /\ deferred[1].kind = "submit" => \A i \in Positions(deferred') : IsSubmit(deferred', i) => h < deferred'[i].n
  <2>1. Ordered(deferred)
    BY DEF Queue, QueueShape
  <2> QED
    BY <2>1, RestIs
<1>2. 1 \in Positions(deferred)
      /\ \A i \in Positions(deferred') : i + 1 \in Positions(deferred) /\ deferred'[i] = deferred[i + 1]
  BY DEF Shrunk
<1>3. \A n : Queued(n) <=> Sent(deferred, n) \/ Sent(wire, n)
  BY DEF Queued
<1>4. \A n : Queued(n)' <=> Sent(deferred', n) \/ Sent(wire, n)
  BY DEF Queued
<1>5. /\ \A i \in Positions(deferred') : deferred'[i].kind \in {"submit", "goodbye"}
      /\ \A i \in Positions(deferred'), j \in Positions(wire) :
           IsSubmit(deferred', i) /\ IsSubmit(wire, j) => deferred'[i].n < wire[j].n
  BY <1>1, <1>2 DEF Queue, QueueShape
<1>6. \A n \in Nat : Queued(n) <=> Len(started) < n /\ n <= submitted
  BY DEF Queue, QueueShape
<1>7. h \in Nat /\ l \in Nat
  BY <1>2 DEF Counts
<1>8. CASE KeptDropped
  <2>1. \A n : Queued(n)' <=> Queued(n)
    BY <1>1, <1>3, <1>4, <1>8 DEF KeptDropped
  <2>2. started' = started
    BY <1>8 DEF KeptDropped
  <2>3. QueueShape'
    BY <1>1, <1>5, <2>1, <2>2 DEF Queue, QueueShape
  <2>4. StopShape'
    BY <1>1, <1>2, <2>2 DEF Queue, StopShape
  <2> QED
    BY <2>2, <2>3, <2>4 DEF KeptQueue, Queue, OrderKept
<1>9. CASE KeptStarted
  <2>1. /\ Positions(started') = Positions(started) \cup {l} /\ started'[l] = h
        /\ \A i \in Positions(started) : started'[i] = started[i]
        /\ deferred[1].kind = "submit" /\ Len(started') = l
    BY <1>9 DEF KeptStarted, Grown
  <2>2. \A n \in Nat : Queued(n) <=> n = h \/ Queued(n)'
    BY <1>1, <1>3, <1>4, <2>1
  <2>3. \A n \in Nat : Queued(n)' => h < n
    <3>1. \A j \in Positions(wire) : IsSubmit(wire, j) => h < wire[j].n
      BY <1>2, <2>1 DEF Queue, QueueShape, IsSubmit
    <3> QED
      BY <1>1, <1>4, <2>1, <3>1
  <2> HIDE DEF h
  <2>4. h = l
    <3>1. Len(started) < h /\ h <= submitted
      BY <1>6, <1>7, <2>2
    <3>2. Queued(l)
      BY <1>6, <1>7, <3>1 DEF Counts
    <3>3. l = h \/ h < l
      BY <1>7, <2>2, <2>3, <3>2
    <3> QED
      BY <1>7, <3>1, <3>3 DEF Counts
  <2>5. \A n \in Nat : Queued(n)' <=> Len(started') < n /\ n <= submitted
    BY <1>6, <1>7, <2>1, <2>2, <2>3, <2>4 DEF Counts
  <2>6. Len(started') <= submitted
    BY <1>6, <1>7, <2>1, <2>2, <2>4 DEF Counts
  <2>7. QueueShape'
    BY <1>1, <1>5, <2>1, <2>5, <2>6 DEF Queue, QueueShape
  <2>8. StopShape'
    <3>1. \A c \in Positions(wire) : IsCancel(wire, c) => Len(started') <= lastStop
      BY <1>2, <2>1, <2>4 DEF Queue, StopShape, IsSubmit, h
    <3> QED
      BY <1>1, <1>2, <3>1 DEF Queue, StopShape
  <2>9. OrderKept'
    <3>1. \A k \in Positions(started) : started[k] = k
      BY DEF Queue, OrderKept, Positions
    <3>2. \A k \in Positions(started') : started'[k] = k
      BY <2>1, <2>4, <3>1
    <3> QED
      BY <3>2 DEF OrderKept, Positions
  <2> QED
    BY <2>7, <2>8, <2>9 DEF KeptQueue
<1> QED
  BY <1>8, <1>9

(* The actions, as changes of the queue. *)
LEMMA SendsQueue ==
  ASSUME Queue, TypeOK,
         SendSubmit \/ SendCancel \/ SendGoodbye \/ \E i \in Asks, yes \in BOOLEAN : SendAnswer(i, yes)
  PROVE  KeptQueue
<1>1. Counts /\ wire \in Seq(Frames)
  BY TypesCount DEF TypeOK
<1>2. ASSUME NEW f \in Frames, Send(f) PROVE Grown(wire, wire', f) /\ UNCHANGED <<deferred, started>> /\ gone' = gone /\ ~gone
  BY <1>1, <1>2, AppendGrows DEF Send
<1>3. sent < MaxFrames /\ submitted \in 0 .. sent /\ sent \in 0 .. MaxFrames /\ MaxFrames \in Nat /\ MaxAsks \in Nat
  BY DeskAssumption DEF DeskAssumption, TypeOK, SendSubmit, SendCancel, SendGoodbye, SendAnswer, Send
<1>4. CASE SendSubmit
  <2>1. Submit(submitted + 1) \in Frames /\ Submit(submitted + 1).kind = "submit"
        /\ Submit(submitted + 1).n = submitted + 1
    BY <1>3 DEF Submit, Frame, Frames
  <2>2. Send(Submit(submitted + 1)) /\ submitted' = submitted + 1 /\ lastStop' = lastStop
    BY <1>4 DEF SendSubmit
  <2> QED
    BY <1>1, <1>2, <2>1, <2>2, QueueGrows
<1>5. CASE SendCancel
  <2>1. Cancel \in Frames /\ Cancel.kind = "cancel"
    BY <1>3 DEF Cancel, Frame, Frames
  <2>2. Send(Cancel) /\ submitted' = submitted /\ lastStop' = submitted
    BY <1>5 DEF SendCancel
  <2> QED
    BY <1>1, <1>2, <2>1, <2>2, QueueGrows
<1>6. CASE SendGoodbye
  <2>1. Goodbye \in Frames /\ Goodbye.kind = "goodbye"
    BY <1>3 DEF Goodbye, Frame, Frames
  <2>2. Send(Goodbye) /\ submitted' = submitted /\ lastStop' = submitted
    BY <1>6 DEF SendGoodbye
  <2> QED
    BY <1>1, <1>2, <2>1, <2>2, QueueGrows
<1>7. ASSUME NEW i \in Asks, NEW yes \in BOOLEAN, SendAnswer(i, yes)
      PROVE  KeptQueue
  <2>1. Answer(i, yes) \in Frames /\ Answer(i, yes).kind = "answer" /\ Answer(i, yes).n = i
    BY <1>3 DEF Answer, Frame, Frames, Asks
  <2>2. Send(Answer(i, yes)) /\ UNCHANGED <<submitted, lastStop>>
    BY <1>7 DEF SendAnswer
  <2> QED
    BY <1>1, <1>2, <2>1, <2>2, QueueGrows
<1> QED
  BY <1>4, <1>5, <1>6, <1>7

(* Each handler of a frame reads one of the two queues in one of these     *)

(* ways.                                                                   *)
LEMMA HandlesQueue ==
  ASSUME Queue, TypeOK, ServeDeferred \/ ServeNext \/ DriveFrame
  PROVE  KeptQueue
<1>1. /\ Counts /\ wire \in Seq(Frames) /\ deferred \in Seq(Frames) /\ started \in Seq(1 .. MaxFrames)
      /\ submitted \in 0 .. MaxFrames
  <2>1. submitted \in 0 .. MaxFrames
    BY DeskAssumption DEF DeskAssumption, TypeOK
  <2> QED
    BY <2>1, TypesCount DEF TypeOK
<1>2. Serve(Head(wire)) \/ Serve(Head(deferred)) \/ started' = started
  BY DEF ServeDeferred, ServeNext, DriveFrame
<1>3. ASSUME NEW f, f.kind = "submit", Queued(f.n), f.n \in Nat, StartTurn(f.n)
      PROVE  Grown(started, started', f.n) /\ Len(started') = Len(started) + 1
  <2>1. Len(started) < f.n /\ f.n <= submitted
    BY <1>3 DEF Queue, QueueShape
  <2>2. f.n \in 1 .. MaxFrames
    <3>1. f.n \in Nat /\ Len(started) \in Nat /\ submitted \in 0 .. MaxFrames /\ MaxFrames \in Nat
      BY <1>1, <1>3, DeskAssumption DEF Counts, DeskAssumption
    <3> QED
      BY <2>1, <3>1
  <2>3. started' = Append(started, f.n) /\ started \in Seq(1 .. MaxFrames)
    BY <1>1, <1>3 DEF StartTurn
  <2>4. Grown(started, started', f.n)
    BY <2>2, <2>3, AppendGrows
  <2>5. Len(started') = Len(started) + 1
    BY <2>2, <2>3
  <2> QED
    BY <2>4, <2>5
<1>4. ASSUME wire # <<>> PROVE Shrunk(wire, Tail(wire)) /\ Head(wire) = wire[1] /\ Head(wire) \in Frames
  BY <1>1, <1>4, TailShrinks
<1>5. ASSUME deferred # <<>>
      PROVE  Shrunk(deferred, Tail(deferred)) /\ Head(deferred) = deferred[1] /\ Head(deferred) \in Frames
  BY <1>1, <1>5, TailShrinks
<1>6. CASE ServeDeferred
  <2>1. /\ deferred # <<>> /\ deferred' = Tail(deferred) /\ Serve(deferred[1])
        /\ UNCHANGED <<wire, gone, submitted, lastStop>>
    BY <1>5, <1>6 DEF ServeDeferred, frontend
  <2>2. Shrunk(deferred, deferred') /\ 1 \in Positions(deferred)
    BY <1>5, <2>1 DEF Shrunk
  <2>3. CASE deferred[1].kind = "submit"
    <3>1. StartTurn(deferred[1].n)
      BY <2>1, <2>3 DEF Serve
    <3>2. Queued(deferred[1].n) /\ deferred[1].n \in Nat
      BY <1>1, <2>2, <2>3 DEF Queued, IsSubmit, Counts
    <3> QED
      BY <1>1, <1>3, <2>1, <2>2, <2>3, <3>1, <3>2, DeferredQueue DEF KeptStarted
  <2>4. CASE deferred[1].kind # "submit"
    <3>1. started' = started
      BY <2>1, <2>4 DEF Serve
    <3> QED
      BY <1>1, <2>1, <2>2, <2>4, <3>1, DeferredQueue DEF KeptDropped
  <2> QED
    BY <2>3, <2>4
<1>7. CASE ServeNext
  <2>1. /\ wire # <<>> /\ wire' = Tail(wire) /\ Serve(wire[1]) /\ deferred = <<>>
        /\ UNCHANGED <<deferred, gone, submitted, lastStop>>
    BY <1>4, <1>7 DEF ServeNext, frontend
  <2>2. Shrunk(wire, wire') /\ 1 \in Positions(wire) /\ Positions(deferred) = {}
    BY <1>4, <2>1 DEF Shrunk, Positions
  <2>3. CASE wire[1].kind = "submit"
    <3>1. StartTurn(wire[1].n)
      BY <2>1, <2>3 DEF Serve
    <3>2. Queued(wire[1].n) /\ wire[1].n \in Nat
      BY <1>1, <2>2, <2>3 DEF Queued, IsSubmit, Counts
    <3> QED
      BY <1>1, <1>3, <2>1, <2>2, <2>3, <3>1, <3>2, WireQueue DEF HeadStarted
  <2>4. CASE wire[1].kind # "submit"
    <3>1. started' = started
      BY <2>1, <2>4 DEF Serve
    <3> QED
      BY <1>1, <2>1, <2>2, <2>4, <3>1, WireQueue DEF HeadDropped
  <2> QED
    BY <2>3, <2>4
<1>8. CASE DriveFrame
  <2>1. /\ wire # <<>> /\ wire' = Tail(wire) /\ UNCHANGED <<gone, submitted, lastStop, started>>
        /\ \/ wire[1].kind \in {"cancel", "answer"} /\ deferred' = deferred
           \/ wire[1].kind \in {"submit", "goodbye"} /\ deferred' = Append(deferred, wire[1])
    BY <1>4, <1>8 DEF DriveFrame, frontend
  <2>2. Shrunk(wire, wire') /\ wire[1] \in Frames
    BY <1>4, <2>1
  <2>3. CASE wire[1].kind \in {"cancel", "answer"} /\ deferred' = deferred
    BY <1>1, <2>1, <2>2, <2>3, WireQueue DEF HeadDropped
  <2>4. CASE wire[1].kind \in {"submit", "goodbye"} /\ deferred' = Append(deferred, wire[1])
    <3>1. Grown(deferred, deferred', wire[1])
      BY <1>1, <2>2, <2>4, AppendGrows
    <3> QED
      BY <1>1, <2>1, <2>2, <2>4, <3>1, WireQueue DEF HeadKept
  <2> QED
    BY <2>1, <2>3, <2>4
<1> QED
  BY <1>6, <1>7, <1>8

(* The steps that leave the queue alone: the turn's, its prompts' and the
   connection's end. *)
TurnStep == \/ DriveClosed \/ Leave \/ SpecialistsReturn \/ DeadlineFires \/ TurnStops \/ TurnCompletes
            \/ \E i \in Asks : Asking(i) \/ SpecialistAsks(i) \/ AskWritten(i) \/ AskEnds(i) \/ AskTimesOut(i)

(* The steps of the turn read no frame. *)
LEMMA TurnStepQueue ==
  ASSUME Queue, TurnStep
  PROVE  KeptQueue
<1>1. UNCHANGED <<wire, deferred, started, submitted, lastStop>> /\ gone' = gone
  BY DEF TurnStep, DriveClosed, Leave, SpecialistsReturn, DeadlineFires, TurnStops, TurnCompletes,
     EndTurn, Asking, SpecialistAsks, AskWritten, AskEnds, AskNotWritten, AskAnswered, AskCancelled,
     AskTimesOut, EndAsk, Continue, frontend
<1> QED
  BY <1>1, QueueUnchanged

(* A frontend that leaves is a stop behind everything it sent. *)
LEMMA CloseQueue == ASSUME Queue, Counts, Close PROVE KeptQueue
<1>1. UNCHANGED <<wire, deferred, started, submitted>> /\ lastStop' = submitted
  BY DEF Close
<1>2. QueueShape' /\ OrderKept'
  BY <1>1 DEF Queue, QueueShape, OrderKept, Queued, Ordered, IsSubmit
<1>3. StopShape'
  <2>1. Len(started) <= submitted
    BY DEF Queue, QueueShape
  <2>2. /\ \A i \in Positions(deferred) : IsSubmit(deferred, i) => deferred[i].n <= submitted
        /\ \A i \in Positions(wire) : IsSubmit(wire, i) => wire[i].n <= submitted
    <3>1. \A n \in Nat : Queued(n) => n <= submitted
      BY DEF Queue, QueueShape
    <3> QED
      BY <3>1 DEF Counts, Queued
  <2> QED
    BY <1>1, <2>1, <2>2 DEF StopShape
<1> QED
  BY <1>2, <1>3 DEF KeptQueue

-----------------------------------------------------------------------------
(* Types *)

Kinds == {"none", "writing", "waiting", "over"}

(* The part of the types that sends and frames change. *)
WireTyped ==
  /\ wire \in Seq(Frames) /\ deferred \in Seq(Frames) /\ gone \in BOOLEAN
  /\ sent \in 0 .. MaxFrames /\ submitted \in 0 .. sent
  /\ said \in [Asks -> {"none", "yes", "no"}]
  /\ started \in Seq(1 .. MaxFrames) /\ lastStop \in 0 .. submitted

(* The part that the turn changes. *)
TurnTyped ==
  /\ open \in BOOLEAN /\ stop \in BOOLEAN /\ armed \in BOOLEAN /\ fired \in BOOLEAN
  /\ conn \in {"serving", "turn", "over"}
  /\ phase \in {"none", "working", "asking", "delegating"}
  /\ ask \in [Asks -> Kinds]
  /\ waiting \subseteq Open
  /\ slot \in [Asks -> {"empty", "yes", "no"}]
  /\ result \in [Asks -> {"none", "approved", "denied", "timed_out"}]

(* The type invariant splits into the wire and the turn. *)
LEMMA TypeParts == (TypeOK <=> WireTyped /\ TurnTyped) /\ (TypeOK' <=> WireTyped' /\ TurnTyped')
BY DEF TypeOK, WireTyped, TurnTyped, Kinds, Open

(* A frontend sends well-formed frames. *)
LEMMA SendsTyped ==
  ASSUME TypeOK,
         SendSubmit \/ SendCancel \/ SendGoodbye \/ (\E i \in Asks, yes \in BOOLEAN : SendAnswer(i, yes)) \/ Close
  PROVE  TypeOK'
<1>1. MaxFrames \in Nat /\ MaxAsks \in Nat
  BY DeskAssumption DEF DeskAssumption
<1>2. ASSUME NEW f \in Frames, Send(f) PROVE wire' \in Seq(Frames) /\ sent' = sent + 1 /\ sent < MaxFrames
  BY <1>2 DEF Send, TypeOK
<1>3. UNCHANGED <<open, stop, armed, fired, conn, phase, desk, deferred, started>>
  BY DEF SendSubmit, SendCancel, SendGoodbye, SendAnswer, Close, Send, deadline
<1>4. TurnTyped'
  BY <1>3, TypeParts DEF TurnTyped, Open, desk
<1>5. CASE SendSubmit
  <2>1. Submit(submitted + 1) \in Frames
    BY <1>1, <1>5 DEF Submit, Frame, Frames, TypeOK, SendSubmit, Send
  <2> QED
    BY <1>1, <1>2, <1>3, <1>4, <1>5, <2>1, TypeParts DEF SendSubmit, Send, WireTyped
<1>6. CASE SendCancel
  <2>1. Cancel \in Frames
    BY <1>1 DEF Cancel, Frame, Frames
  <2> QED
    BY <1>1, <1>2, <1>3, <1>4, <1>6, <2>1, TypeParts DEF SendCancel, Send, WireTyped
<1>7. CASE SendGoodbye
  <2>1. Goodbye \in Frames
    BY <1>1 DEF Goodbye, Frame, Frames
  <2> QED
    BY <1>1, <1>2, <1>3, <1>4, <1>7, <2>1, TypeParts DEF SendGoodbye, Send, WireTyped
<1>8. ASSUME NEW i \in Asks, NEW yes \in BOOLEAN, SendAnswer(i, yes)
      PROVE  TypeOK'
  <2>1. Answer(i, yes) \in Frames
    BY <1>1 DEF Answer, Frame, Frames, Asks
  <2>2. wire' \in Seq(Frames) /\ sent' = sent + 1 /\ sent < MaxFrames
    BY <1>2, <1>8, <2>1 DEF SendAnswer
  <2>3. said' \in [Asks -> {"none", "yes", "no"}] /\ gone' = gone /\ UNCHANGED <<submitted, lastStop>>
    BY <1>8 DEF SendAnswer, Send, TypeOK
  <2> QED
    BY <1>1, <1>3, <1>4, <2>2, <2>3, TypeParts DEF WireTyped
<1>9. CASE Close
  BY <1>1, <1>3, <1>4, <1>9, TypeParts DEF Close, WireTyped
<1> QED
  BY <1>5, <1>6, <1>7, <1>8, <1>9

(* Every handler leaves a well-typed state. *)
LEMMA HandlesTyped ==
  ASSUME TypeOK, QueueShape, ServeDeferred \/ ServeNext \/ DriveFrame
  PROVE  TypeOK'
<1>1. Counts /\ MaxFrames \in Nat /\ submitted \in 0 .. MaxFrames
  BY TypesCount, DeskAssumption DEF DeskAssumption, TypeOK
<1>2. wire \in Seq(Frames) /\ deferred \in Seq(Frames) /\ started \in Seq(1 .. MaxFrames)
  BY DEF TypeOK
<1>3. wire' \in Seq(Frames) /\ deferred' \in Seq(Frames)
  <2>1. CASE ServeDeferred
    BY <1>2, <2>1 DEF ServeDeferred
  <2>2. CASE ServeNext
    BY <1>2, <2>2 DEF ServeNext
  <2>3. CASE DriveFrame
    <3>1. wire # <<>> /\ wire' = Tail(wire) /\ deferred' \in {deferred, Append(deferred, Head(wire))}
      BY <2>3 DEF DriveFrame
    <3>2. Head(wire) \in Frames
      BY <1>2, <3>1
    <3> QED
      BY <1>2, <3>1, <3>2
  <2> QED
    BY <2>1, <2>2, <2>3
<1>4. UNCHANGED <<gone, sent, submitted, said, lastStop>>
  BY DEF ServeDeferred, ServeNext, DriveFrame, frontend
<1>5. ASSUME NEW s \in Seq(Frames), s # <<>>, s = wire \/ s = deferred, Serve(Head(s)), UNCHANGED desk
      PROVE  started' \in Seq(1 .. MaxFrames) /\ TurnTyped'
  <2>1. Head(s) = s[1] /\ 1 \in Positions(s)
    BY <1>5 DEF Positions
  <2>2. CASE Head(s).kind = "submit" /\ StartTurn(Head(s).n)
    <3>1. Queued(Head(s).n) /\ Head(s).n \in Nat
      BY <1>1, <1>5, <2>1, <2>2 DEF Queued, IsSubmit, Counts
    <3>2. Len(started) < Head(s).n /\ Head(s).n <= submitted
      BY <3>1 DEF QueueShape
    <3>3. Head(s).n \in 1 .. MaxFrames
      BY <1>1, <3>1, <3>2 DEF Counts
    <3>4. started' \in Seq(1 .. MaxFrames)
      BY <1>2, <2>2, <3>3 DEF StartTurn
    <3>5. TurnTyped'
      BY <1>5, <2>2, TypeParts DEF StartTurn, TurnTyped, Open, desk
    <3> QED
      BY <3>4, <3>5
  <2>3. CASE started' = started
    BY <1>2, <1>5, <2>3, TypeParts DEF Serve, StartTurn, TurnTyped, Open, desk, deadline
  <2> QED
    BY <1>5, <2>2, <2>3 DEF Serve
<1>6. CASE ServeDeferred
  BY <1>2, <1>3, <1>4, <1>5, <1>6, TypeParts DEF ServeDeferred, WireTyped
<1>7. CASE ServeNext
  BY <1>2, <1>3, <1>4, <1>5, <1>7, TypeParts DEF ServeNext, WireTyped
<1>8. CASE DriveFrame
  <2>1. UNCHANGED <<conn, open, phase, armed, fired, ask, result, started>>
    BY <1>8 DEF DriveFrame, deadline
  <2>2. stop' \in BOOLEAN /\ waiting' \subseteq waiting /\ slot' \in [Asks -> {"empty", "yes", "no"}]
    <3>1. stop \in BOOLEAN /\ slot \in [Asks -> {"empty", "yes", "no"}]
      BY DEF TypeOK
    <3>2. \/ stop' \in {stop, TRUE} /\ UNCHANGED <<waiting, slot>>
          \/ stop' = stop /\ ResolveAsk(Head(wire).n, Head(wire).yes)
      BY <1>8 DEF DriveFrame
    <3>3. ASSUME NEW n, NEW yes, ResolveAsk(n, yes)
          PROVE  waiting' \subseteq waiting /\ slot' \in [Asks -> {"empty", "yes", "no"}]
      BY <3>1, <3>3 DEF ResolveAsk
    <3>4. stop' \in BOOLEAN
      BY <3>1, <3>2, Zenon
    <3> QED
      BY <3>1, <3>2, <3>3, <3>4
  <2>3. TurnTyped'
    BY <2>1, <2>2, TypeParts DEF TurnTyped, Open
  <2> QED
    BY <1>3, <1>4, <2>1, <2>3, TypeParts DEF WireTyped
<1> QED
  BY <1>6, <1>7, <1>8

(* So does every step of the turn. *)
LEMMA TurnStepsTyped ==
  ASSUME TypeOK, TurnStep
  PROVE  TypeOK'
<1>1. WireTyped /\ TurnTyped
  BY TypeParts
<1>2. UNCHANGED <<wire, gone, deferred, sent, submitted, said, lastStop, started>>
  BY DEF TurnStep, DriveClosed, Leave, SpecialistsReturn, DeadlineFires, TurnStops, TurnCompletes,
     EndTurn, Asking, SpecialistAsks, AskWritten, AskEnds, AskNotWritten, AskAnswered, AskCancelled,
     AskTimesOut, EndAsk, Continue, frontend
<1>3. WireTyped'
  BY <1>1, <1>2 DEF WireTyped
<1>4. CASE DriveClosed \/ Leave \/ SpecialistsReturn \/ DeadlineFires \/ TurnStops \/ TurnCompletes
  <2>1. TurnTyped'
    BY <1>1, <1>4 DEF TurnTyped, Open, DriveClosed, DenyAll, Leave, SpecialistsReturn, DeadlineFires,
       TurnStops, TurnCompletes, EndTurn, Continue, desk, deadline
  <2> QED
    BY <1>3, <2>1, TypeParts
<1>5. ASSUME NEW i \in Asks, Asking(i) \/ SpecialistAsks(i) \/ AskWritten(i)
      PROVE  TypeOK'
  <2>1. TurnTyped'
    BY <1>1, <1>5 DEF TurnTyped, Kinds, Open, Asking, SpecialistAsks, AskWritten, OpenAsk, Continue
  <2> QED
    BY <1>3, <2>1, TypeParts
<1>6. ASSUME NEW i \in Asks, AskEnds(i) \/ AskTimesOut(i)
      PROVE  TypeOK'
  <2>1. \E r \in {"approved", "denied", "timed_out"} : EndAsk(i, r)
    BY <1>6 DEF AskEnds, AskNotWritten, AskAnswered, AskCancelled, AskTimesOut
  <2>2. PICK r \in {"approved", "denied", "timed_out"} : EndAsk(i, r)
    BY <2>1
  <2>3. /\ ask' = [ask EXCEPT ![i] = "over"] /\ waiting' = waiting \ {i}
        /\ result' = [result EXCEPT ![i] = r]
        /\ UNCHANGED <<open, stop, fired, conn, slot>>
        /\ phase' \in {phase, "working"} /\ armed' \in {armed, TRUE}
    BY <2>2 DEF EndAsk, Continue
  <2>4. waiting' \subseteq Open'
    BY <1>1, <2>3 DEF TurnTyped, Open
  <2>5. TurnTyped'
    BY <1>1, <2>3, <2>4 DEF TurnTyped, Kinds
  <2> QED
    BY <1>3, <2>5, TypeParts
<1> QED
  BY <1>4, <1>5, <1>6 DEF TurnStep

-----------------------------------------------------------------------------
(* The turn and its prompts *)

FrontendStep == \/ SendSubmit \/ SendCancel \/ SendGoodbye \/ Close
                \/ \E i \in Asks, yes \in BOOLEAN : SendAnswer(i, yes)
HandleStep == ServeDeferred \/ ServeNext \/ DriveFrame

(* A step is the frontend's, a handler's or the turn's. *)
LEMMA StepKinds == ASSUME Next PROVE FrontendStep \/ HandleStep \/ TurnStep
BY DEF Next, FrontendStep, HandleStep, TurnStep

(* Every step keeps what the place of the turn says of its prompts. *)
LEMMA TurnShapeKept ==
  ASSUME Inv, Next, QueueShape'
  PROVE  TurnShape'
<1>1. CASE FrontendStep
  <2>1. UNCHANGED <<conn, phase, ask, started>>
    BY <1>1 DEF FrontendStep, SendSubmit, SendCancel, SendGoodbye, Close, SendAnswer, Send, desk
  <2> QED
    BY <2>1 DEF Inv, TurnShape, Open
<1>2. CASE HandleStep
  <2>1. ask' = ask
    BY <1>2 DEF HandleStep, ServeDeferred, ServeNext, DriveFrame, desk
  <2>2. \/ phase' = phase /\ started' = started /\ (conn' = conn \/ (conn = "serving" /\ conn' = "over"))
        \/ /\ conn = "serving" /\ conn' = "turn" /\ phase' = "working"
           /\ \E n : started' = Append(started, n)
    <3>1. ASSUME NEW f, Serve(f), conn = "serving"
          PROVE  \/ phase' = phase /\ started' = started /\ (conn' = conn \/ conn' = "over")
                 \/ conn' = "turn" /\ phase' = "working" /\ started' = Append(started, f.n)
      BY <3>1 DEF Serve, StartTurn
    <3>2. CASE DriveFrame
      <4>1. phase' = phase /\ started' = started /\ conn' = conn
        BY <3>2 DEF DriveFrame
      <4> QED
        BY <4>1
    <3>3. CASE ServeDeferred \/ ServeNext
      <4>1. conn = "serving" /\ \E f : Serve(f)
        BY <3>3 DEF ServeDeferred, ServeNext
      <4>2. PICK f : Serve(f)
        BY <4>1
      <4>3. \/ phase' = phase /\ started' = started /\ (conn' = conn \/ conn' = "over")
            \/ conn' = "turn" /\ phase' = "working" /\ started' = Append(started, f.n)
        BY <3>1, <4>1, <4>2
      <4> QED
        BY <4>1, <4>3
    <3> QED
      BY <1>2, <3>2, <3>3 DEF HandleStep
  <2>3. CASE phase' = phase /\ started' = started /\ (conn' = conn \/ (conn = "serving" /\ conn' = "over"))
    BY <2>1, <2>3 DEF Inv, TurnShape, Open
  <2>4. CASE /\ conn = "serving" /\ conn' = "turn" /\ phase' = "working"
             /\ \E n : started' = Append(started, n)
    <3>1. conn' = "turn" /\ phase' = "working" /\ phase = "none"
      BY <2>4 DEF Inv, TurnShape, TypeOK
    <3>2. Len(started') > 0
      <4>1. PICK n : started' = Append(started, n)
        BY <2>4
      <4>2. Len(started') = Len(started) + 1 /\ Len(started) \in Nat
        <5>1. started \in Seq(1 .. MaxFrames)
          BY DEF Inv, TypeOK
        <5> QED
          BY <4>1, <5>1
      <4> QED
        BY <4>2
    <3> QED
      BY <2>1, <3>1, <3>2 DEF Inv, TurnShape, Open
  <2> QED
    BY <2>2, <2>3, <2>4
<1>3. CASE DriveClosed \/ Leave \/ SpecialistsReturn \/ DeadlineFires \/ TurnStops \/ TurnCompletes
  <2>1. ask' = ask /\ started' = started
    BY <1>3 DEF DriveClosed, Leave, SpecialistsReturn, DeadlineFires, TurnStops, TurnCompletes, EndTurn,
       Continue, desk
  <2>2. \/ UNCHANGED <<conn, phase>>
        \/ Leave
        \/ phase = "delegating" /\ Open = {} /\ phase' = "working" /\ conn' = conn
        \/ EndTurn
    BY <1>3 DEF DriveClosed, SpecialistsReturn, DeadlineFires, TurnStops, TurnCompletes, Continue
  <2>3. CASE UNCHANGED <<conn, phase>>
    BY <2>1, <2>3 DEF Inv, TurnShape, Open
  <2>4. CASE Leave
    BY <2>1, <2>4 DEF Inv, TurnShape, Open, Leave
  <2>5. CASE phase = "delegating" /\ Open = {} /\ phase' = "working" /\ conn' = conn
    BY <2>1, <2>5 DEF Inv, TurnShape, Open
  <2>6. CASE EndTurn
    <3>1. phase = "working" /\ phase' = "none" /\ conn' # "turn"
      BY <2>6 DEF EndTurn
    <3> QED
      BY <2>1, <3>1 DEF Inv, TurnShape, Open
  <2> QED
    BY <2>2, <2>3, <2>4, <2>5, <2>6
<1>4. ASSUME NEW i \in Asks, Asking(i) \/ SpecialistAsks(i)
      PROVE  TurnShape'
  <2>1. /\ ask' = [ask EXCEPT ![i] = "writing"] /\ UNCHANGED <<conn, started>>
        /\ \/ phase = "working" /\ phase' = "asking"
           \/ phase # "none" /\ phase' = "delegating"
    BY <1>4 DEF Asking, SpecialistAsks, OpenAsk, Continue
  <2>2. phase = "working" => Open' \subseteq {i}
    BY <2>1 DEF Inv, TypeOK, TurnShape, Open
  <2> QED
    BY <2>1, <2>2 DEF Inv, TurnShape
<1>5. ASSUME NEW i \in Asks, AskWritten(i)
      PROVE  TurnShape'
  <2>1. UNCHANGED <<conn, phase, started>> /\ ask[i] = "writing" /\ ask' = [ask EXCEPT ![i] = "waiting"]
    BY <1>5 DEF AskWritten, Continue
  <2>2. Open' = Open
    BY <2>1 DEF Inv, TypeOK, Open
  <2> QED
    BY <2>1, <2>2 DEF Inv, TurnShape
<1>6. ASSUME NEW i \in Asks, AskEnds(i) \/ AskTimesOut(i)
      PROVE  TurnShape'
  <2>1. i \in Open /\ ask' = [ask EXCEPT ![i] = "over"] /\ UNCHANGED <<conn, started>>
        /\ phase' = IF phase = "asking" THEN "working" ELSE phase
    BY <1>6 DEF AskEnds, AskNotWritten, AskAnswered, AskCancelled, AskTimesOut, EndAsk, Continue, Open
  <2>2. Open' = Open \ {i}
    BY <2>1 DEF Inv, TypeOK, Open
  <2> QED
    BY <2>1, <2>2 DEF Inv, TurnShape
<1> QED
  BY <1>1, <1>2, <1>3, <1>4, <1>5, <1>6, StepKinds DEF TurnStep

(* What stops a turn was sent after its message, or is its own deadline. *)
LEMMA StaleCancelKept ==
  ASSUME Inv, Next, KeptQueue, TypeOK'
  PROVE  NoStaleCancel'
<1>1. /\ started \in Seq(1 .. MaxFrames) /\ started' \in Seq(1 .. MaxFrames)
      /\ Len(started) \in Nat /\ Len(started') \in Nat /\ lastStop \in Nat /\ lastStop' \in Nat
  <2>1. started \in Seq(1 .. MaxFrames) /\ started' \in Seq(1 .. MaxFrames)
    BY DEF Inv, TypeOK
  <2>2. Counts
    BY TypesCount DEF Inv
  <2>3. lastStop' \in Nat
    BY DeskAssumption DEF DeskAssumption, TypeOK
  <2> QED
    BY <2>1, <2>2, <2>3 DEF Counts
<1>2. conn = "turn" => Turn = Len(started) /\ Len(started) > 0
  <2>1. ASSUME conn = "turn" PROVE Len(started) > 0
    BY <2>1 DEF Inv, TurnShape
  <2>2. ASSUME Len(started) > 0 PROVE Turn = Len(started)
    BY <1>1, <2>2 DEF Inv, OrderKept, Turn, Last
  <2> QED
    BY <2>1, <2>2
<1>3. CASE FrontendStep
  <2>1. UNCHANGED <<conn, stop, fired, started>>
    BY <1>3 DEF FrontendStep, SendSubmit, SendCancel, SendGoodbye, Close, SendAnswer, Send, deadline
  <2>2. lastStop' \in {lastStop, submitted} /\ lastStop <= submitted
    BY <1>3 DEF FrontendStep, SendSubmit, SendCancel, SendGoodbye, Close, SendAnswer, Inv, TypeOK
  <2>3. Turn' = Turn /\ conn' = conn /\ stop' = stop /\ fired' = fired /\ lastStop' >= lastStop
    BY <1>1, <2>1, <2>2 DEF Turn, Inv, TypeOK
  <2> QED
    BY <1>1, <1>2, <2>3 DEF Inv, NoStaleCancel
<1>4. CASE ServeDeferred \/ ServeNext
  <2>1. conn = "serving" /\ (conn' = "turn" => stop' = FALSE)
    BY <1>4 DEF ServeDeferred, ServeNext, Serve, StartTurn
  <2> QED
    BY <2>1 DEF NoStaleCancel
<1>5. CASE DriveFrame
  <2>1. UNCHANGED <<conn, fired, started, lastStop>> /\ conn = "turn" /\ wire # <<>>
    BY <1>5 DEF DriveFrame, deadline, frontend
  <2>2. Turn' = Turn /\ fired' = fired /\ lastStop' = lastStop
    BY <2>1 DEF Turn
  <2>3. CASE Head(wire).kind = "cancel"
    <3>1. wire[1].kind = "cancel" /\ 1 \in Positions(wire)
      BY <2>1, <2>3 DEF Inv, TypeOK, Positions
    <3>2. Len(started) <= lastStop
      BY <3>1 DEF Inv, StopShape, IsCancel
    <3> QED
      BY <1>1, <1>2, <2>1, <2>2, <3>2 DEF NoStaleCancel
  <2>4. CASE Head(wire).kind # "cancel"
    <3>1. stop' = stop
      BY <1>5, <2>4 DEF DriveFrame
    <3> QED
      BY <2>1, <2>2, <3>1 DEF Inv, NoStaleCancel
  <2> QED
    BY <2>3, <2>4
<1>6. CASE DriveClosed
  <2>1. gone /\ UNCHANGED <<started, lastStop>> /\ conn = "turn"
    BY <1>6 DEF DriveClosed, frontend
  <2>2. Turn' = Turn /\ lastStop = submitted /\ Len(started) <= submitted
    BY <2>1 DEF Turn, Inv, StopShape, QueueShape
  <2> QED
    BY <1>1, <1>2, <2>1, <2>2 DEF NoStaleCancel
<1>7. CASE DeadlineFires
  BY <1>7 DEF DeadlineFires, NoStaleCancel
<1>8. CASE Leave \/ SpecialistsReturn \/ TurnStops \/ TurnCompletes
           \/ \E i \in Asks : Asking(i) \/ SpecialistAsks(i) \/ AskWritten(i) \/ AskEnds(i) \/ AskTimesOut(i)
  <2>1. UNCHANGED <<stop, fired, started, lastStop>> /\ (conn' = "turn" => conn = "turn")
    BY <1>8 DEF Leave, SpecialistsReturn, TurnStops, TurnCompletes, EndTurn, Asking, SpecialistAsks,
       AskWritten, AskEnds, AskNotWritten, AskAnswered, AskCancelled, AskTimesOut, EndAsk, Continue,
       deadline, frontend
  <2>2. Turn' = Turn
    BY <2>1 DEF Turn
  <2> QED
    BY <2>1, <2>2 DEF Inv, NoStaleCancel
<1> QED
  BY <1>3, <1>4, <1>5, <1>6, <1>7, <1>8, StepKinds DEF TurnStep, HandleStep

-----------------------------------------------------------------------------
(* Answers *)

(* An answer that is sent joins those on their way. *)
LEMMA AnswersSent ==
  ASSUME Inv, FrontendStep
  PROVE  AnswerShape'
<1>1. UNCHANGED <<ask, waiting, slot>>
  BY DEF FrontendStep, SendSubmit, SendCancel, SendGoodbye, Close, SendAnswer, Send, desk
<1>2. CASE Close
  <2>1. UNCHANGED <<wire, said>>
    BY <1>2 DEF Close
  <2> QED
    BY <1>1, <1>2, <2>1 DEF Inv, AnswerShape, Close, First, IsAnswer
<1>3. ASSUME NEW f \in Frames, Send(f), ~gone
      PROVE  /\ Grown(wire, wire', f) /\ gone' = gone
             /\ \A a \in Asks : (\E p \in Positions(wire) : First(a, p) /\ said[a] = Told(wire[p].yes))
                  => \E p \in Positions(wire') : First(a, p)' /\ said[a] = Told(wire'[p].yes)
  <2>1. Grown(wire, wire', f) /\ gone' = gone
    BY <1>3, AppendGrows DEF Send, Inv, TypeOK
  <2> DEFINE l == Len(wire) + 1
  <2>2. /\ Positions(wire') = Positions(wire) \cup {l}
        /\ \A i \in Positions(wire) : wire'[i] = wire[i] /\ i \in Nat /\ i < l /\ l \in Nat
    BY <2>1 DEF Grown
  <2> HIDE DEF l
  <2>3. ASSUME NEW a \in Asks, NEW p \in Positions(wire), First(a, p), said[a] = Told(wire[p].yes)
        PROVE  p \in Positions(wire') /\ First(a, p)' /\ said[a] = Told(wire'[p].yes)
    BY <2>2, <2>3 DEF First, IsAnswer
  <2> QED
    BY <2>1, <2>3
<1>4. ASSUME NEW f \in Frames, Send(f), ~gone, f.kind # "answer", said' = said
      PROVE  AnswerShape'
  <2>1. /\ Grown(wire, wire', f) /\ gone' = gone
        /\ \A a \in Asks : (\E p \in Positions(wire) : First(a, p) /\ said[a] = Told(wire[p].yes))
             => \E p \in Positions(wire') : First(a, p)' /\ said[a] = Told(wire'[p].yes)
    BY <1>3, <1>4
  <2>2. \A a \in Asks : (\A p \in Positions(wire) : ~IsAnswer(wire, p, a)) => \A p \in Positions(wire') : ~IsAnswer(wire', p, a)
    BY <1>4, <2>1 DEF Grown, IsAnswer
  <2> QED
    BY <1>1, <1>4, <2>1, <2>2 DEF Inv, AnswerShape
<1>5. ASSUME NEW i \in Asks, NEW yes \in BOOLEAN, SendAnswer(i, yes)
      PROVE  AnswerShape'
  <2> DEFINE f == Answer(i, yes)
  <2>1. f \in Frames /\ f.kind = "answer" /\ f.n = i /\ f.yes = yes
    BY DeskAssumption DEF DeskAssumption, Answer, Frame, Frames, Asks
  <2>2. Send(f) /\ ~gone /\ ask[i] \in {"waiting", "over"}
        /\ said' = [said EXCEPT ![i] = IF @ # "none" THEN @ ELSE Told(yes)]
    BY <1>5 DEF SendAnswer, Send, Told
  <2> HIDE DEF f
  <2>3. /\ Grown(wire, wire', f) /\ gone' = gone
        /\ \A a \in Asks : (\E p \in Positions(wire) : First(a, p) /\ said[a] = Told(wire[p].yes))
             => \E p \in Positions(wire') : First(a, p)' /\ said[a] = Told(wire'[p].yes)
    BY <1>3, <2>1, <2>2
  <2>4. \A a \in Asks : a # i => said'[a] = said[a]
    BY <2>2 DEF Inv, TypeOK
  <2>5. /\ said[i] # "none" => said'[i] = said[i]
        /\ said[i] = "none" => said'[i] = Told(yes)
        /\ said'[i] # "none"
    BY <2>2 DEF Inv, TypeOK, Told
  <2>6. ASSUME NEW a \in Asks, said'[a] = "none" PROVE \A p \in Positions(wire') : ~IsAnswer(wire', p, a)
    <3>1. a # i /\ said[a] = "none"
      BY <2>4, <2>5, <2>6
    <3>2. \A p \in Positions(wire) : ~IsAnswer(wire, p, a)
      BY <3>1 DEF Inv, AnswerShape
    <3> QED
      BY <2>1, <2>3, <3>1, <3>2 DEF Grown, IsAnswer
  <2>7. ASSUME said[i] = "none"
        PROVE  \E p \in Positions(wire') : First(i, p)' /\ said'[i] = Told(wire'[p].yes)
    <3>1. PICK l \in Positions(wire') :
            wire'[l] = f /\ \A q \in Positions(wire') : q < l => q \in Positions(wire) /\ wire'[q] = wire[q]
      <4>1. Len(wire) + 1 \in Positions(wire')
        BY <2>3 DEF Grown
      <4> QED
        BY <2>3, <4>1 DEF Grown
    <3>2. \A p \in Positions(wire) : ~IsAnswer(wire, p, i)
      BY <2>7 DEF Inv, AnswerShape
    <3>3. First(i, l)' /\ said'[i] = Told(wire'[l].yes)
      BY <2>1, <2>5, <2>7, <3>1, <3>2 DEF First, IsAnswer
    <3> QED
      BY <3>1, <3>3
  <2>8. ASSUME NEW a \in Asks
        PROVE  /\ ask[a] \in {"none", "writing"} => said'[a] = "none"
               /\ a \in waiting /\ said'[a] # "none" =>
                    \E p \in Positions(wire') : First(a, p)' /\ said'[a] = Told(wire'[p].yes)
               /\ slot[a] = "yes" => said'[a] = "yes"
               /\ slot[a] = "no" => said'[a] = "no" \/ gone
    <3>1. CASE a = i
      BY <2>2, <2>3, <2>5, <2>7, <3>1 DEF Inv, AnswerShape
    <3>2. CASE a # i
      BY <2>3, <2>4, <3>2 DEF Inv, AnswerShape
    <3> QED
      BY <3>1, <3>2
  <2> QED
    BY <1>1, <2>3, <2>6, <2>8 DEF Inv, AnswerShape
<1>6. CASE SendSubmit
  <2>1. Submit(submitted + 1) \in Frames /\ Submit(submitted + 1).kind # "answer"
    BY <1>6, DeskAssumption DEF DeskAssumption, Submit, Frame, Frames, SendSubmit, Send, Inv, TypeOK
  <2> QED
    BY <1>4, <1>6, <2>1 DEF SendSubmit, Send
<1>7. CASE SendCancel \/ SendGoodbye
  <2>1. /\ Cancel \in Frames /\ Cancel.kind # "answer"
        /\ Goodbye \in Frames /\ Goodbye.kind # "answer"
    BY DeskAssumption DEF DeskAssumption, Cancel, Goodbye, Frame, Frames
  <2> QED
    BY <1>4, <1>7, <2>1 DEF SendCancel, SendGoodbye, Send
<1> QED
  BY <1>2, <1>5, <1>6, <1>7 DEF FrontendStep

(* Outside a turn no prompt waits. *)
LEMMA NoneWaits == ASSUME Inv, phase \in {"none", "working"} PROVE waiting = {} /\ Open = {}
BY DEF Inv, TypeOK, TurnShape

(* A handler gives a prompt the first answer that names it. *)
LEMMA AnswersHandled ==
  ASSUME Inv, HandleStep
  PROVE  AnswerShape'
<1>1. UNCHANGED <<ask, said>> /\ gone' = gone
  BY DEF HandleStep, ServeDeferred, ServeNext, DriveFrame, desk, frontend
<1>2. CASE ServeDeferred
  <2>1. UNCHANGED <<wire, waiting, slot>>
    BY <1>2 DEF ServeDeferred, desk
  <2> QED
    BY <1>1, <2>1 DEF Inv, AnswerShape, First, IsAnswer
<1>3. ASSUME wire # <<>>, wire' = Tail(wire)
      PROVE  Shrunk(wire, wire') /\ Head(wire) = wire[1]
             /\ \A a : (\A p \in Positions(wire) : ~IsAnswer(wire, p, a)) => \A p \in Positions(wire') : ~IsAnswer(wire', p, a)
  <2>1. Shrunk(wire, wire') /\ Head(wire) = wire[1]
    BY <1>3, TailShrinks DEF Inv, TypeOK
  <2>2. \A p \in Positions(wire') : p + 1 \in Positions(wire) /\ wire'[p] = wire[p + 1]
    BY <2>1 DEF Shrunk
  <2> QED
    BY <2>1, <2>2 DEF IsAnswer
<1>4. CASE ServeNext
  <2>1. UNCHANGED <<waiting, slot>> /\ wire # <<>> /\ wire' = Tail(wire) /\ conn = "serving"
    BY <1>4 DEF ServeNext, desk
  <2>2. waiting = {}
    BY <2>1, NoneWaits DEF Inv, TurnShape
  <2> QED
    BY <1>1, <1>3, <2>1, <2>2 DEF Inv, AnswerShape
<1>5. CASE DriveFrame
  <2>1. wire # <<>> /\ wire' = Tail(wire)
        /\ \/ wire[1].kind # "answer" /\ UNCHANGED <<waiting, slot>>
           \/ wire[1].kind = "answer" /\ ResolveAsk(wire[1].n, wire[1].yes)
    BY <1>3, <1>5 DEF DriveFrame
  <2>2. Shrunk(wire, wire') /\ 1 \in Positions(wire)
        /\ \A a : (\A p \in Positions(wire) : ~IsAnswer(wire, p, a)) => \A p \in Positions(wire') : ~IsAnswer(wire', p, a)
    BY <1>3, <2>1 DEF Shrunk
  <2>3. ASSUME NEW a \in Asks, ~IsAnswer(wire, 1, a), NEW p \in Positions(wire), First(a, p)
        PROVE  p - 1 \in Positions(wire') /\ First(a, p - 1)' /\ wire'[p - 1] = wire[p]
    <3>1. p # 1
      BY <2>3 DEF First
    <3>2. p \in Nat /\ p - 1 \in Positions(wire') /\ wire'[p - 1] = wire[p]
      BY <2>2, <3>1 DEF Shrunk
    <3>3. ASSUME NEW q \in Positions(wire'), q < p - 1 PROVE ~IsAnswer(wire', q, a)
      <4>1. q \in Nat /\ q + 1 \in Positions(wire) /\ wire'[q] = wire[q + 1]
        BY <2>2 DEF Shrunk
      <4>2. ~IsAnswer(wire, q + 1, a)
        BY <2>3, <3>2, <3>3, <4>1 DEF First
      <4> QED
        BY <4>1, <4>2 DEF IsAnswer
    <3> QED
      BY <2>3, <3>2, <3>3 DEF First, IsAnswer
  <2>4. ASSUME NEW a \in Asks, ~IsAnswer(wire, 1, a), waiting' \subseteq waiting, slot'[a] = slot[a]
        PROVE  /\ a \in waiting' => slot'[a] = "empty"
               /\ a \in waiting' /\ said[a] # "none" =>
                    \E p \in Positions(wire') : First(a, p)' /\ said[a] = Told(wire'[p].yes)
    <3>1. ASSUME a \in waiting', said[a] # "none"
          PROVE  \E p \in Positions(wire') : First(a, p)' /\ said[a] = Told(wire'[p].yes)
      <4>1. PICK p \in Positions(wire) : First(a, p) /\ said[a] = Told(wire[p].yes)
        BY <2>4, <3>1 DEF Inv, AnswerShape
      <4>2. p - 1 \in Positions(wire') /\ First(a, p - 1)' /\ wire'[p - 1] = wire[p]
        BY <2>3, <2>4, <4>1
      <4> QED
        BY <4>1, <4>2
    <3> QED
      BY <2>4, <3>1 DEF Inv, AnswerShape
  <2>5. CASE wire[1].kind # "answer" /\ UNCHANGED <<waiting, slot>>
    <3>1. \A a \in Asks : ~IsAnswer(wire, 1, a)
      BY <2>5 DEF IsAnswer
    <3> QED
      BY <1>1, <2>2, <2>4, <2>5, <3>1 DEF Inv, AnswerShape
  <2>6. CASE wire[1].kind = "answer" /\ ResolveAsk(wire[1].n, wire[1].yes)
    <3> DEFINE i == wire[1].n
               told == Told(wire[1].yes)
    <3>1. /\ waiting' = waiting \ {i}
          /\ \A a \in Asks : slot'[a] = IF a = i /\ i \in waiting THEN told ELSE slot[a]
      BY <2>6 DEF ResolveAsk, Told
    <3>2. \A a \in Asks : a # i => ~IsAnswer(wire, 1, a)
      BY DEF IsAnswer
    <3>3. ASSUME i \in waiting, i \in Asks PROVE said[i] = told
      <4>1. IsAnswer(wire, 1, i)
        BY <2>2, <2>6 DEF IsAnswer
      <4>2. said[i] # "none"
        BY <2>2, <3>3, <4>1 DEF Inv, AnswerShape
      <4>3. PICK p \in Positions(wire) : First(i, p) /\ said[i] = Told(wire[p].yes)
        BY <3>3, <4>2 DEF Inv, AnswerShape
      <4>4. p = 1
        <5>1. p \in Nat /\ p >= 1
          BY DEF Positions
        <5> QED
          BY <2>2, <4>1, <4>3, <5>1 DEF First
      <4> QED
        BY <4>3, <4>4
    <3> HIDE DEF i, told
    <3>4. told \in {"yes", "no"}
      BY DEF told, Told
    <3>5. ASSUME NEW a \in Asks
          PROVE  /\ ask[a] \in {"none", "writing"} => said[a] = "none"
                 /\ ask[a] = "none" => slot'[a] = "empty"
                 /\ a \in waiting' => slot'[a] = "empty"
                 /\ said[a] = "none" => \A p \in Positions(wire') : ~IsAnswer(wire', p, a)
                 /\ a \in waiting' /\ said[a] # "none" =>
                      \E p \in Positions(wire') : First(a, p)' /\ said[a] = Told(wire'[p].yes)
                 /\ slot'[a] = "yes" => said[a] = "yes"
                 /\ slot'[a] = "no" => said[a] = "no" \/ gone
      <4>1. CASE a = i
        <5>1. a \in waiting => ask[a] # "none"
          BY DEF Inv, TypeOK, Open
        <5> QED
          BY <2>2, <3>1, <3>3, <3>4, <4>1, <5>1 DEF Inv, AnswerShape
      <4>2. CASE a # i
        <5>1. slot'[a] = slot[a] /\ waiting' \subseteq waiting /\ ~IsAnswer(wire, 1, a)
          BY <3>1, <3>2, <4>2
        <5> QED
          BY <2>2, <2>4, <5>1 DEF Inv, AnswerShape
      <4> QED
        BY <4>1, <4>2
    <3> QED
      BY <1>1, <3>5 DEF AnswerShape
  <2> QED
    BY <2>1, <2>5, <2>6
<1> QED
  BY <1>2, <1>4, <1>5 DEF HandleStep

(* The turn closes a prompt with its answer or with a reason. *)
LEMMA AnswersInTurn ==
  ASSUME Inv, TurnStep
  PROVE  AnswerShape'
<1>1. UNCHANGED <<wire, said>> /\ gone' = gone
  BY DEF TurnStep, DriveClosed, Leave, SpecialistsReturn, DeadlineFires, TurnStops, TurnCompletes,
     EndTurn, Asking, SpecialistAsks, AskWritten, AskEnds, AskNotWritten, AskAnswered, AskCancelled,
     AskTimesOut, EndAsk, Continue, frontend
<1>2. \A a, p : First(a, p)' <=> First(a, p)
  BY <1>1 DEF First, IsAnswer
<1>3. CASE Leave \/ SpecialistsReturn \/ DeadlineFires \/ TurnStops \/ TurnCompletes
  <2>1. UNCHANGED <<ask, waiting, slot>>
    BY <1>3 DEF Leave, SpecialistsReturn, DeadlineFires, TurnStops, TurnCompletes, EndTurn, Continue, desk
  <2> QED
    BY <1>1, <1>2, <2>1 DEF Inv, AnswerShape
<1>4. CASE DriveClosed
  <2>1. /\ gone /\ ask' = ask /\ waiting' = {}
        /\ \A a \in Asks : slot'[a] = IF a \in waiting THEN "no" ELSE slot[a]
    BY <1>4 DEF DriveClosed, DenyAll
  <2>2. \A a \in waiting : ask[a] # "none"
    BY DEF Inv, TypeOK, Open
  <2> QED
    BY <1>1, <1>2, <2>1, <2>2 DEF Inv, AnswerShape
<1>5. ASSUME NEW i \in Asks, Asking(i) \/ SpecialistAsks(i)
      PROVE  AnswerShape'
  <2>1. /\ ask[i] = "none" /\ ask' = [ask EXCEPT ![i] = "writing"] /\ waiting' = waiting \cup {i}
        /\ slot' = slot
    BY <1>5 DEF Asking, SpecialistAsks, OpenAsk, Continue
  <2>2. said[i] = "none" /\ slot[i] = "empty"
    BY <2>1 DEF Inv, AnswerShape
  <2> QED
    BY <1>1, <1>2, <2>1, <2>2 DEF Inv, AnswerShape, TypeOK
<1>6. ASSUME NEW i \in Asks, AskWritten(i) \/ AskEnds(i) \/ AskTimesOut(i)
      PROVE  AnswerShape'
  <2>1. /\ ask[i] # "none" /\ \E k \in {"waiting", "over"} : ask' = [ask EXCEPT ![i] = k]
        /\ waiting' \subseteq waiting /\ slot' = slot
    BY <1>6 DEF AskWritten, AskEnds, AskNotWritten, AskAnswered, AskCancelled, AskTimesOut, EndAsk, Continue
  <2> QED
    BY <1>1, <1>2, <2>1 DEF Inv, AnswerShape, TypeOK
<1> QED
  BY <1>3, <1>4, <1>5, <1>6 DEF TurnStep

-----------------------------------------------------------------------------
(* Every step keeps the invariant *)

(* A prompt that is told no was answered no, or is being stopped or left. *)
Declined == \A i \in Asks : result[i] = "none" /\ result'[i] = "denied" => said[i] = "no" \/ stop \/ gone

(* The first answer decides a prompt, and a decline has its reason. *)
LEMMA ResultsKept ==
  ASSUME Inv, Next
  PROVE  FirstAnswerDecides' /\ Declined
<1>1. \A a \in Asks : said'[a] = said[a] \/ said[a] = "none"
  <2>1. said' = said \/ \E i \in Asks, yes \in BOOLEAN : SendAnswer(i, yes)
    BY DEF Next, SendSubmit, SendCancel, SendGoodbye, Close, ServeDeferred, ServeNext, Leave, DriveFrame,
       DriveClosed, SpecialistsReturn, DeadlineFires, TurnStops, TurnCompletes, EndTurn, Asking,
       SpecialistAsks, AskWritten, AskEnds, AskNotWritten, AskAnswered, AskCancelled, AskTimesOut,
       EndAsk, Continue, frontend
  <2>2. ASSUME NEW i \in Asks, NEW yes \in BOOLEAN, SendAnswer(i, yes), NEW a \in Asks
        PROVE  said'[a] = said[a] \/ said[a] = "none"
    BY <2>2 DEF SendAnswer, Inv, TypeOK
  <2> QED
    BY <2>1, <2>2
<1>2. CASE result' = result
  BY <1>1, <1>2 DEF Inv, FirstAnswerDecides, Declined
<1>3. ASSUME NEW i \in Asks, NEW r, EndAsk(i, r), r = "approved" => said[i] = "yes",
             r = "denied" => said[i] = "no" \/ stop \/ gone
      PROVE  FirstAnswerDecides' /\ Declined
  <2>1. \A a \in Asks : result'[a] = IF a = i THEN r ELSE result[a]
    BY <1>3 DEF EndAsk, Inv, TypeOK
  <2> QED
    BY <1>1, <1>3, <2>1 DEF Inv, FirstAnswerDecides, Declined
<1>4. ASSUME NEW i \in Asks, AskEnds(i) \/ AskTimesOut(i)
      PROVE  FirstAnswerDecides' /\ Declined
  <2>1. CASE AskNotWritten(i)
    BY <1>3, <2>1 DEF AskNotWritten
  <2>2. CASE AskAnswered(i)
    <3>1. slot[i] \in {"yes", "no"} /\ EndAsk(i, IF slot[i] = "yes" THEN "approved" ELSE "denied")
      BY <2>2 DEF AskAnswered, Inv, TypeOK
    <3>2. (slot[i] = "yes" => said[i] = "yes") /\ (slot[i] = "no" => said[i] = "no" \/ gone)
      BY DEF Inv, AnswerShape
    <3> QED
      BY <1>3, <3>1, <3>2
  <2>3. CASE AskCancelled(i)
    BY <1>3, <2>3 DEF AskCancelled
  <2>4. CASE AskTimesOut(i)
    BY <1>3, <2>4 DEF AskTimesOut
  <2> QED
    BY <1>4, <2>1, <2>2, <2>3, <2>4 DEF AskEnds
<1>5. result' = result \/ \E i \in Asks : AskEnds(i) \/ AskTimesOut(i)
  BY DEF Next, SendSubmit, SendCancel, SendGoodbye, Close, SendAnswer, Send, ServeDeferred, ServeNext, Leave,
     DriveFrame, DriveClosed, SpecialistsReturn, DeadlineFires, TurnStops, TurnCompletes, EndTurn,
     Asking, SpecialistAsks, OpenAsk, AskWritten, Continue, desk
<1> QED
  BY <1>2, <1>4, <1>5

(* A fresh connection satisfies the invariant. *)
LEMMA StartsInv == ASSUME Init PROVE Inv
<1>1. TypeOK
  <2>1. wire \in Seq(Frames) /\ deferred \in Seq(Frames) /\ started \in Seq(1 .. MaxFrames)
    BY DEF Init
  <2>2. sent \in 0 .. MaxFrames /\ submitted \in 0 .. sent /\ lastStop \in 0 .. submitted
    BY DeskAssumption DEF DeskAssumption, Init
  <2> QED
    BY <2>1, <2>2 DEF Init, TypeOK, Open
<1>2. Len(<<>>) = 0 /\ Positions(<<>>) = {}
  BY DEF Positions
<1>3. QueueShape /\ StopShape
  <2>1. \A n \in Nat : ~Queued(n) /\ ~(Len(started) < n /\ n <= submitted)
    BY <1>2 DEF Init, Queued
  <2> QED
    BY <1>2, <2>1 DEF Init, QueueShape, StopShape, Ordered
<1>4. TurnShape /\ AnswerShape
  BY <1>2 DEF Init, TurnShape, AnswerShape, Open
<1>5. OrderKept /\ NoStaleCancel /\ FirstAnswerDecides
  BY <1>2 DEF Init, OrderKept, NoStaleCancel, FirstAnswerDecides
<1> QED
  BY <1>1, <1>3, <1>4, <1>5 DEF Inv

(* Every step of the connection keeps the invariant. *)
LEMMA StepKeeps == ASSUME Inv, Next PROVE Inv'
<1>1. Queue /\ TypeOK /\ Counts
  BY TypesCount DEF Inv, Queue
<1>2. KeptQueue /\ TypeOK' /\ AnswerShape'
  <2>1. CASE FrontendStep
    BY <1>1, <2>1, SendsQueue, CloseQueue, SendsTyped, AnswersSent DEF FrontendStep
  <2>2. CASE HandleStep
    BY <1>1, <2>2, HandlesQueue, HandlesTyped, AnswersHandled DEF HandleStep, Queue
  <2>3. CASE TurnStep
    BY <1>1, <2>3, TurnStepQueue, TurnStepsTyped, AnswersInTurn
  <2> QED
    BY <2>1, <2>2, <2>3, StepKinds
<1> QED
  BY <1>2, TurnShapeKept, StaleCancelKept, ResultsKept DEF Inv, KeptQueue

(* A stutter keeps it and declines nothing. *)
LEMMA StutterKeeps == ASSUME Inv, UNCHANGED vars PROVE Inv' /\ Declined
<1>1. /\ UNCHANGED <<wire, gone, deferred, conn, open, phase, stop, armed, fired, ask, waiting, slot,
                     result, sent, submitted, said, started, lastStop>>
  BY DEF vars, deadline, desk, frontend
<1>2. TypeOK'
  BY <1>1 DEF Inv, TypeOK, Open
<1>3. KeptQueue
  <2>1. Queue
    BY DEF Inv, Queue
  <2> QED
    BY <1>1, <2>1, QueueUnchanged
<1>4. TurnShape' /\ AnswerShape'
  BY <1>1 DEF Inv, TurnShape, AnswerShape, Open, First, IsAnswer
<1>5. NoStaleCancel' /\ FirstAnswerDecides' /\ Declined
  BY <1>1 DEF Inv, NoStaleCancel, FirstAnswerDecides, Declined, Turn
<1> QED
  BY <1>2, <1>3, <1>4, <1>5 DEF Inv, KeptQueue

(* The invariant holds in every reachable state. *)
LEMMA Inductive == Spec => []Inv
<1>1. Init => Inv
  BY StartsInv
<1>2. Inv /\ [Next]_vars => Inv'
  BY StepKeeps, StutterKeeps
<1> QED
  BY <1>1, <1>2, PTL DEF Spec

(* Every variable keeps its type. *)
THEOREM TypeCorrect == Spec => []TypeOK
<1>1. Inv => TypeOK
  BY DEF Inv
<1> QED
  BY <1>1, Inductive, PTL

(* Messages get their turns in the order they were sent, none left out,
   whatever is deferred while turns run (serve_connection, drive_turn). *)
THEOREM MessagesInOrder == Spec => []OrderKept
<1>1. Inv => OrderKept
  BY DEF Inv
<1> QED
  BY <1>1, Inductive, PTL

(* What stopped an earlier turn never stops a later one: a turn is stopped by
   its own deadline, or by what was sent after its message (rotate_cancel). *)
THEOREM CancelsAreTimely == Spec => []NoStaleCancel
<1>1. Inv => NoStaleCancel
  BY DEF Inv
<1> QED
  BY <1>1, Inductive, PTL

(* A call is approved by the first answer to its own prompt (resolve). *)
THEOREM FirstAnswerCounts == Spec => []FirstAnswerDecides
<1>1. Inv => FirstAnswerDecides
  BY DEF Inv
<1> QED
  BY <1>1, Inductive, PTL

(* A turn is told no for a reason: a no, a stop or a frontend that is gone,
   never for want of an answer (seek_approval, deny_all). *)
THEOREM DeclinesHaveReasons == Spec => DeclinedForAReason
<1>1. Inv /\ [Next]_vars => Declined
  BY ResultsKept, StutterKeeps
<1>2. Inv /\ [Next]_vars => [\A i \in Asks : result[i] = "none" /\ result'[i] = "denied"
                               => said[i] = "no" \/ stop \/ gone]_vars
  BY <1>1 DEF Declined
<1> QED
  BY <1>2, Inductive, PTL DEF Spec, DeclinedForAReason

=============================================================================
