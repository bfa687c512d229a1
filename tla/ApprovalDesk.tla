---------------------------- MODULE ApprovalDesk ----------------------------
(***************************************************************************)
(* One connection of the daemon: the frames its frontend sends, the turn   *)
(* it runs (drive_turn), the approval prompts that turn opens on the desk, *)
(* its cancellation token and its deadline.  Turn, prompts and frame       *)
(* handling are polled by one task, so a step is what that task does       *)
(* between two awaits; the frontend, the reader and the deadline run on    *)
(* their own.                                                              *)
(*                                                                         *)
(* A frame is a submitted message, a cancel, an answer to a prompt or a    *)
(* goodbye.  The work of a turn is reduced to the prompts it opens, itself *)
(* or through the specialists it delegates to.                             *)
(***************************************************************************)
EXTENDS Naturals, Sequences, SequencesExt, FiniteSets

CONSTANTS MaxFrames,   \* bound: frames the frontend sends
          MaxAsks      \* bound: prompts opened

ASSUME DeskAssumption == MaxFrames \in Nat /\ MaxAsks \in Nat

VARIABLES
  wire,      \* frames read and not yet handled
  gone,      \* the frontend has closed its end
  deferred,  \* frames kept for after the turn
  conn,      \* "serving", in a "turn", or "over"
  open,      \* drive_turn still reads frames
  phase,     \* what the turn is doing
  stop,      \* the channel's token is cancelled
  armed,     \* the turn's deadline is running
  fired,     \* the turn's deadline has passed
  ask,       \* prompt -> where it is
  waiting,   \* prompts the desk can still answer
  slot,      \* prompt -> answer the desk sent it
  result,    \* prompt -> what the turn was told
  sent, submitted,   \* frames and messages sent so far
  said,      \* prompt -> the first answer the frontend sent
  started,   \* messages whose turn was started, in order
  lastStop   \* messages submitted before the last cancel or goodbye

frontend == <<sent, submitted, said, lastStop>>
desk     == <<ask, waiting, slot, result>>
deadline == <<armed, fired>>
vars == <<wire, gone, deferred, conn, open, phase, stop, deadline, desk,
          frontend, started>>

-----------------------------------------------------------------------------

Asks  == 1 .. MaxAsks
Frame(kind, n, yes) == [kind |-> kind, n |-> n, yes |-> yes]
Submit(n)      == Frame("submit", n, FALSE)
Cancel         == Frame("cancel", 0, FALSE)
Answer(i, yes) == Frame("answer", i, yes)
Goodbye        == Frame("goodbye", 0, FALSE)

Open == {i \in Asks : ask[i] \in {"writing", "waiting"}}
Turn == Last(started)

Init ==
  /\ wire = <<>> /\ deferred = <<>> /\ gone = FALSE
  /\ conn = "serving" /\ open = FALSE /\ phase = "none"
  /\ stop = FALSE /\ armed = FALSE /\ fired = FALSE
  /\ ask = [i \in Asks |-> "none"] /\ waiting = {}
  /\ slot = [i \in Asks |-> "empty"] /\ result = [i \in Asks |-> "none"]
  /\ sent = 0 /\ submitted = 0 /\ said = [i \in Asks |-> "none"]
  /\ started = <<>> /\ lastStop = 0

-----------------------------------------------------------------------------
(* The frontend *)

Send(frame) ==
  /\ ~gone /\ sent < MaxFrames
  /\ sent' = sent + 1
  /\ wire' = Append(wire, frame)
  /\ UNCHANGED <<gone, deferred, conn, open, phase, stop, deadline, desk, started>>

SendSubmit == /\ Send(Submit(submitted + 1))
              /\ submitted' = submitted + 1
              /\ UNCHANGED <<said, lastStop>>

SendCancel == /\ Send(Cancel)
              /\ lastStop' = submitted
              /\ UNCHANGED <<submitted, said>>

(* It answers prompts it was shown, as often and as late as it likes. *)
SendAnswer(i, yes) ==
  /\ ask[i] \in {"waiting", "over"}
  /\ Send(Answer(i, yes))
  /\ said' = [said EXCEPT ![i] = IF @ # "none" THEN @
                                 ELSE IF yes THEN "yes" ELSE "no"]
  /\ UNCHANGED <<submitted, lastStop>>

SendGoodbye == /\ Send(Goodbye)
               /\ lastStop' = submitted
               /\ UNCHANGED <<submitted, said>>

Close == /\ ~gone
         /\ gone' = TRUE
         /\ lastStop' = submitted
         /\ UNCHANGED <<wire, deferred, conn, open, phase, stop, deadline, desk,
                        sent, submitted, said, started>>

-----------------------------------------------------------------------------
(* The connection loop, between turns *)

Mut_NoRotation(n) ==
  /\ conn' = "turn" /\ open' = TRUE /\ phase' = "working"
  /\ armed' = TRUE /\ fired' = FALSE
  /\ started' = Append(started, n)
  /\ UNCHANGED stop

(* The token is rotated, the desk is new, the deadline starts. *)
StartTurn(n) ==
  /\ conn' = "turn" /\ open' = TRUE /\ phase' = "working"
  /\ stop' = FALSE /\ armed' = TRUE /\ fired' = FALSE
  /\ started' = Append(started, n)

Serve(frame) ==
  \/ frame.kind = "submit" /\ StartTurn(frame.n)
  \/ /\ frame.kind = "cancel"
     /\ stop' = TRUE
     /\ UNCHANGED <<conn, open, phase, deadline, started>>
  \/ /\ frame.kind = "answer"
     /\ UNCHANGED <<conn, open, phase, stop, deadline, started>>
  \/ /\ frame.kind = "goodbye"
     /\ conn' = "over"
     /\ UNCHANGED <<open, phase, stop, deadline, started>>

ServeDeferred ==
  /\ conn = "serving" /\ deferred # <<>>
  /\ deferred' = Tail(deferred)
  /\ Serve(Head(deferred))
  /\ UNCHANGED <<wire, gone, desk, frontend>>

Mut_WireFirst ==
  /\ conn = "serving" /\ wire # <<>>
  /\ wire' = Tail(wire)
  /\ Serve(Head(wire))
  /\ UNCHANGED <<gone, deferred, desk, frontend>>

ServeNext ==
  /\ conn = "serving" /\ deferred = <<>> /\ wire # <<>>
  /\ wire' = Tail(wire)
  /\ Serve(Head(wire))
  /\ UNCHANGED <<gone, deferred, desk, frontend>>

(* The frontend is gone, or the daemon shuts down. *)
Leave ==
  /\ conn = "serving" /\ deferred = <<>>
  /\ conn' = "over"
  /\ UNCHANGED <<wire, gone, deferred, open, phase, stop, deadline, desk,
                 frontend, started>>

-----------------------------------------------------------------------------
(* drive_turn: frames that arrive while the turn runs *)

(* resolve: the prompt is taken off the desk and told; others are ignored. *)
ResolveAsk(i, yes) ==
  /\ waiting' = waiting \ {i}
  /\ slot' = [j \in Asks |-> IF j = i /\ i \in waiting
                             THEN IF yes THEN "yes" ELSE "no" ELSE slot[j]]

(* deny_all *)
DenyAll ==
  /\ waiting' = {}
  /\ slot' = [j \in Asks |-> IF j \in waiting THEN "no" ELSE slot[j]]

DriveFrame ==
  /\ conn = "turn" /\ open /\ wire # <<>>
  /\ wire' = Tail(wire)
  /\ LET frame == Head(wire)
     IN \/ /\ frame.kind = "cancel"
           /\ stop' = TRUE
           /\ UNCHANGED <<deferred, waiting, slot>>
        \/ /\ frame.kind = "answer"
           /\ ResolveAsk(frame.n, frame.yes)
           /\ UNCHANGED <<deferred, stop>>
        \/ /\ frame.kind \in {"submit", "goodbye"}
           /\ deferred' = Append(deferred, frame)
           /\ UNCHANGED <<stop, waiting, slot>>
  /\ UNCHANGED <<gone, conn, open, phase, deadline, ask, result, frontend, started>>

DriveClosed ==
  /\ conn = "turn" /\ open /\ wire = <<>> /\ gone
  /\ open' = FALSE
  /\ DenyAll
  /\ stop' = TRUE
  /\ UNCHANGED <<wire, gone, deferred, conn, phase, deadline, ask, result,
                 frontend, started>>

-----------------------------------------------------------------------------
(* The turn *)

Continue(p) == phase' = p /\ UNCHANGED <<wire, gone, deferred, conn, open, stop,
                                         fired, slot, frontend, started>>

OpenAsk(i) == /\ ask[i] = "none" /\ \A j \in Asks : j < i => ask[j] # "none"
              /\ ask' = [ask EXCEPT ![i] = "writing"]
              /\ waiting' = waiting \cup {i}
              /\ UNCHANGED result

(* seek_approval: the deadline is paused while the turn itself asks. *)
Asking(i) ==
  /\ phase = "working"
  /\ OpenAsk(i)
  /\ armed' = FALSE
  /\ Continue("asking")

(* In a call that delegates, specialists run and ask through the lead: each *)
(* pauses its own deadline, not the lead's.                                *)
SpecialistAsks(i) ==
  /\ phase \in {"working", "delegating"}
  /\ OpenAsk(i)
  /\ Continue("delegating")
  /\ UNCHANGED armed

SpecialistsReturn ==
  /\ phase = "delegating" /\ Open = {}
  /\ Continue("working")
  /\ UNCHANGED <<armed, ask, waiting, result>>

(* The prompt is over: its entry goes, and the asker's deadline resumes. *)
EndAsk(i, r) ==
  /\ ask' = [ask EXCEPT ![i] = "over"]
  /\ result' = [result EXCEPT ![i] = r]
  /\ waiting' = waiting \ {i}
  /\ IF phase = "asking" THEN Continue("working") /\ armed' = TRUE
                         ELSE Continue(phase) /\ UNCHANGED armed

AskWritten(i) ==
  /\ ask[i] = "writing"
  /\ ask' = [ask EXCEPT ![i] = "waiting"]
  /\ Continue(phase)
  /\ UNCHANGED <<armed, waiting, result>>

AskNotWritten(i) == ask[i] = "writing" /\ gone /\ EndAsk(i, "denied")

AskAnswered(i) ==
  /\ ask[i] = "waiting" /\ slot[i] # "empty"
  /\ EndAsk(i, IF slot[i] = "yes" THEN "approved" ELSE "denied")

Mut_TimeoutDenies(i) == ask[i] = "waiting" /\ EndAsk(i, "denied")

AskTimesOut(i) == ask[i] = "waiting" /\ EndAsk(i, "timed_out")

Mut_CancelNotWatched(i) == AskAnswered(i)

AskCancelled(i) == ask[i] = "waiting" /\ stop /\ EndAsk(i, "denied")

(* The deadline task, while it is armed. *)
DeadlineFires ==
  /\ conn = "turn" /\ armed
  /\ fired' = TRUE /\ stop' = TRUE /\ armed' = FALSE
  /\ UNCHANGED <<wire, gone, deferred, conn, open, phase, desk, frontend, started>>

(* The turn is over and its outcome is written, unless nobody reads it. *)
EndTurn ==
  /\ phase = "working"
  /\ phase' = "none" /\ armed' = FALSE /\ open' = FALSE
  /\ conn' \in {"serving"} \cup (IF gone THEN {"over"} ELSE {})
  /\ UNCHANGED <<wire, gone, deferred, stop, fired, desk, frontend, started>>

TurnStops     == stop /\ EndTurn
TurnCompletes == ~stop /\ EndTurn

-----------------------------------------------------------------------------

AskEnds(i) == \/ AskNotWritten(i) \/ AskAnswered(i) \/ AskCancelled(i)

Next ==
  \/ SendSubmit \/ SendCancel \/ SendGoodbye \/ Close
  \/ ServeDeferred \/ ServeNext \/ Leave \/ DriveFrame \/ DriveClosed
  \/ SpecialistsReturn \/ DeadlineFires
  \/ TurnStops \/ TurnCompletes
  \/ \E i \in Asks : \/ \E yes \in BOOLEAN : SendAnswer(i, yes)
                     \/ Asking(i) \/ SpecialistAsks(i) \/ AskWritten(i)
                     \/ AskEnds(i) \/ AskTimesOut(i)

Spec == Init /\ [][Next]_vars

(* Frames are handled, prompts are written or found undeliverable, a       *)
(* stopped turn ends; nobody has to answer and no timeout has to fire.     *)
FairSpec ==
  /\ Spec
  /\ WF_vars(ServeDeferred) /\ WF_vars(ServeNext)
  /\ WF_vars(Leave /\ gone /\ wire = <<>>)
  /\ WF_vars(DriveFrame) /\ WF_vars(DriveClosed)
  /\ WF_vars(SpecialistsReturn) /\ WF_vars(TurnStops)
  /\ \A i \in Asks : WF_vars(AskWritten(i)) /\ WF_vars(AskEnds(i))

-----------------------------------------------------------------------------
(* Properties *)

Frames == [kind : {"submit", "cancel", "answer", "goodbye"},
           n : 0 .. MaxFrames + MaxAsks, yes : BOOLEAN]

TypeOK ==
  /\ wire \in Seq(Frames) /\ deferred \in Seq(Frames)
  /\ gone \in BOOLEAN /\ open \in BOOLEAN /\ stop \in BOOLEAN
  /\ armed \in BOOLEAN /\ fired \in BOOLEAN
  /\ conn \in {"serving", "turn", "over"}
  /\ phase \in {"none", "working", "asking", "delegating"}
  /\ ask \in [Asks -> {"none", "writing", "waiting", "over"}]
  /\ waiting \subseteq Open
  /\ slot \in [Asks -> {"empty", "yes", "no"}]
  /\ result \in [Asks -> {"none", "approved", "denied", "timed_out"}]
  /\ sent \in 0 .. MaxFrames /\ submitted \in 0 .. sent
  /\ said \in [Asks -> {"none", "yes", "no"}]
  /\ started \in Seq(1 .. MaxFrames) /\ lastStop \in 0 .. submitted

(* A call is approved by the first answer to its own prompt and by nothing *)
(* else: not by an answer to another prompt, not by a second thought.      *)
FirstAnswerDecides ==
  \A i \in Asks : result[i] = "approved" => said[i] = "yes"

(* A turn is told that the operator declined only if he did, went away, or *)
(* the turn is being stopped (by him or by its deadline): no answer in     *)
(* time is told apart from a no.                                           *)
DeclinedForAReason ==
  [][\A i \in Asks : result[i] = "none" /\ result'[i] = "denied"
       => said[i] = "no" \/ stop \/ gone]_vars

(* Messages get their turns in the order they were sent, none left out,    *)
(* although they arrive while earlier turns run.                           *)
OrderKept == \A k \in 1 .. Len(started) : started[k] = k

(* A turn that is stopped ran out of time, or a cancel, goodbye or hangup  *)
(* was sent after its message: what stopped an earlier turn never stops it.*)
NoStaleCancel ==
  conn = "turn" /\ stop /\ ~fired => lastStop >= Turn

(* A stopped turn ends, whatever prompts it has open, without an answer    *)
(* and without waiting for a prompt's timeout.                             *)
StoppedTurnEnds == (conn = "turn" /\ stop) ~> (conn # "turn")

(* A frontend that goes away leaves nothing running: the open prompts are  *)
(* denied, the turn ends, and so do the turns of its deferred messages.    *)
GoneEnds == gone ~> (conn = "over")

(* Nothing that was stopped or left goes on, not even inside a prompt.     *)
AbandonedEnds == StoppedTurnEnds /\ GoneEnds

(* "Paused while an approval prompt waits": the turn's deadline does not   *)
(* pass while one of its prompts waits for the operator.                   *)
PausedWhilePrompting ==
  [][~fired /\ fired' => \A i \in Asks : ask[i] # "waiting"]_vars

=============================================================================
