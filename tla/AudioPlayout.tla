----------------------------- MODULE AudioPlayout -----------------------------
(***************************************************************************)
(* The audio of one session on its way from the server's capture to the    *)
(* renderer: frames leave the server at the pace of the capture, cross a   *)
(* network that loses, duplicates, reorders and holds them up, and pass    *)
(* through the client's jitter buffer, whose slots the client loop polls.  *)
(*                                                                         *)
(* One unit of time is FrameDuration milliseconds divided by whatever the  *)
(* instance sets it to. A fault is anything but a frame that arrives in    *)
(* the instant it is sent and a slot that is polled in the instant it is   *)
(* due; a behaviour has at most MaxFaults.                                 *)
(***************************************************************************)
EXTENDS JitterBuffer

CONSTANTS
  MaxTime,     (* bound: the length of a behaviour                           *)
  MaxFaults    (* bound: how many faults it has                              *)

ASSUME PlayoutBoundsAssumption == MaxTime \in Nat /\ MaxFaults \in Nat

VARIABLES
  now,       (* elapsed milliseconds                                         *)
  sent,      (* the sequence of the server's next frame                      *)
  flight,    (* the frames on the network                                    *)
  heldUp,    (* whether the network currently delivers nothing               *)
  buf,       (* the jitter buffer                                            *)
  heard,     (* history: the audible frames since the buffer was last empty, *)
             (* in the order they were rendered                              *)
  dueFrames, (* history: the frames queued with their slot still to come     *)
  faults

vars == <<now, sent, flight, heldUp, buf, heard, dueFrames, faults>>

(* The first frame a buffer sees may be any: it is cleared and refilled in *)
(* the middle of a session when a heartbeat Ack restores that session.     *)
Init ==
  /\ now = 0
  /\ sent \in Sequence
  /\ flight = {}
  /\ heldUp = FALSE
  /\ buf = EmptyBuffer
  /\ heard = <<>>
  /\ dueFrames = {}
  /\ faults = 0

Spend(n) ==
  /\ faults + n <= MaxFaults
  /\ faults' = faults + n

One(condition) == IF condition THEN 1 ELSE 0

(* One frame time passes and the server sends a frame, unless the capture  *)
(* pauses. Leaving a frame undelivered or a due slot unpolled is a fault;  *)
(* a network that is held up was paid for when it stopped.                 *)
Tick ==
  /\ now + FrameDuration <= MaxTime
  /\ now' = now + FrameDuration
  /\ \E pause \in BOOLEAN :
       /\ sent' = IF pause THEN sent ELSE Successor(sent)
       /\ flight' = IF pause THEN flight ELSE flight \cup {sent}
       /\ Spend(One(pause) + One(flight # {} /\ ~heldUp) + One(PollReady(buf, now)))
  /\ UNCHANGED <<heldUp, buf, heard, dueFrames>>

HoldUp ==
  /\ ~heldUp
  /\ heldUp' = TRUE
  /\ Spend(1)
  /\ UNCHANGED <<now, sent, flight, buf, heard, dueFrames>>

Resume ==
  /\ heldUp
  /\ heldUp' = FALSE
  /\ UNCHANGED <<now, sent, flight, buf, heard, dueFrames, faults>>

Lose(s) ==
  /\ flight' = flight \ {s}
  /\ Spend(1)
  /\ UNCHANGED <<now, sent, heldUp, buf, heard, dueFrames>>

(* The frames of the flight in the order they were sent.                   *)
Overtakes(s) == \E t \in flight : Distance(t, s) \in 1..(Half - 1)

(* The loop receives one datagram and pushes it.                           *)
Deliver(s) ==
  /\ ~heldUp
  /\ \E again \in BOOLEAN :
       /\ flight' = IF again THEN flight ELSE flight \ {s}
       /\ Spend(One(again) + One(Overtakes(s)))
  /\ LET pushed == Push(buf, s, now)
     IN  /\ buf' = pushed.to
         /\ dueFrames' =
              CASE pushed.outcome = "Duplicate" -> dueFrames
                [] pushed.to.anchor # buf.anchor -> {s}
                [] s \in Resident(pushed.to) /\ Distance(pushed.to.next, s) < Half ->
                     dueFrames \cup {s}
                [] OTHER -> dueFrames
  /\ UNCHANGED <<now, sent, heldUp, heard>>

(* The loop renders the due slot, as audio or as a concealed gap.          *)
Play ==
  /\ PollReady(buf, now)
  /\ buf' = Poll(buf)
  /\ heard' = IF PlaysAudio(buf) THEN Append(heard, buf.next) ELSE heard
  /\ dueFrames' = dueFrames \ {buf.next}
  /\ UNCHANGED <<now, sent, flight, heldUp, faults>>

(* The control plane leaves or replaces the session.                       *)
Clear ==
  /\ buf # EmptyBuffer
  /\ buf' = EmptyBuffer
  /\ heard' = <<>>
  /\ dueFrames' = {}
  /\ Spend(1)
  /\ UNCHANGED <<now, sent, flight, heldUp>>

Next ==
  \/ Tick
  \/ HoldUp
  \/ Resume
  \/ \E s \in flight : Lose(s) \/ Deliver(s)
  \/ Play
  \/ Clear

Spec == Init /\ [][Next]_vars

-----------------------------------------------------------------------------
(* Properties.                                                             *)

TypeOK ==
  /\ now \in 0..MaxTime
  /\ sent \in Sequence
  /\ flight \subseteq Sequence
  /\ heldUp \in BOOLEAN
  /\ buf \in BufferRecord
  /\ heard \in Seq(Sequence)
  /\ dueFrames \subseteq Sequence
  /\ faults \in 0..MaxFaults

(* The FIFO is bounded, and strictly ordered by when its frames come up,   *)
(* so that no frame is resident twice and pop_front takes the front slot.  *)
FifoOrdered ==
  /\ Len(buf.frames) <= MaxBufferedFrames
  /\ \A i, j \in DOMAIN buf.frames :
       i < j => Distance(buf.next, buf.frames[i]) < Distance(buf.next, buf.frames[j])

(* No frame waits further ahead than the buffer is long: its slot comes up *)
(* before the ceiling of the delay has passed twice.                       *)
ResidentsInWindow ==
  \A s \in Resident(buf) :
    Distance(buf.next, s) < Half => Distance(buf.next, s) < MaxBufferedFrames

(* The delay the buffer adds, from the paced arrival of a frame to its     *)
(* slot, stays within the declared floor and ceiling.                      *)
PlayoutDelayInRange ==
  buf.next # None =>
    LET paced == buf.anchor.at + Distance(buf.anchor.seq, buf.next) * FrameDuration
    IN  buf.playout - paced \in MinTargetDelay..MaxTargetDelay

(* The types, and with them the range of the target delay, and the delay   *)
(* that really is added.                                                   *)
PlayoutInv == TypeOK /\ PlayoutDelayInRange

(* Audio only moves forward: no frame is rendered twice or after a later   *)
(* one, whatever was duplicated, delayed, evicted or skipped.              *)
AudioMovesForward ==
  \A i, j \in DOMAIN heard : i < j => Distance(heard[i], heard[j]) \in 1..(Half - 1)

(* PlayoutKind::Gap, types.rs: "The slot is missing and must be concealed  *)
(* by the renderer." A slot whose frame was queued in time is not missing. *)
GapMeansMissing ==
  PollReady(buf, now) /\ ~PlaysAudio(buf) => buf.next \notin dueFrames

=============================================================================
