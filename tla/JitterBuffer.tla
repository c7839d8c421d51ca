----------------------------- MODULE JitterBuffer -----------------------------
(***************************************************************************)
(* The adaptive jitter buffer of wifimic_client (jitter.rs and its modules *)
(* buffer, adaptation and types) and the wrapping sequence classification  *)
(* of the protocol crate (sequence.rs), as functions of the buffer's state *)
(* b. A frame is its sequence number; all times are milliseconds since the *)
(* client's origin. The session identifier is left out: WifimicSession     *)
(* shows that every frame pushed belongs to the session the buffer holds.  *)
(*                                                                         *)
(* arrival_anchor and first_arrival_ms are assigned together everywhere,   *)
(* so the record has one field `anchor` for both.                          *)
(***************************************************************************)
EXTENDS Integers, Sequences

CONSTANTS
  None,
  SequenceRange,      (* 2^32, the wrapping sequence space                   *)
  FrameDuration,      (* FRAME_DURATION_MS         5                         *)
  MinTargetDelay,     (* MIN_TARGET_DELAY_MS      40                         *)
  MaxTargetDelay,     (* MAX_TARGET_DELAY_MS     200                         *)
  GrowthThreshold,    (* GROWTH_THRESHOLD_FRAMES   3                         *)
  StablePeriod,       (* STABLE_PERIOD_FRAMES     20                         *)
  GrowthStep,         (* TARGET_GROWTH_STEP_MS    20                         *)
  DecayStep,          (* TARGET_DECAY_STEP_MS      5                         *)
  MaxBufferedFrames   (* MAX_BUFFERED_FRAMES      41                         *)

ASSUME NoSequenceIsNone == None \notin Int

ASSUME SequenceAssumption ==
  /\ SequenceRange \in Nat
  /\ SequenceRange > 2 * MaxBufferedFrames

ASSUME JitterConstantsAssumption ==
  /\ FrameDuration \in Nat \ {0}
  /\ MinTargetDelay \in Nat
  /\ MaxTargetDelay \in Nat
  /\ MinTargetDelay <= MaxTargetDelay
  /\ GrowthThreshold \in Nat \ {0}
  /\ StablePeriod \in Nat \ {0}
  /\ GrowthStep \in Nat
  /\ DecayStep \in Nat
  /\ MaxBufferedFrames \in Nat \ {0}

-----------------------------------------------------------------------------
Sequence == 0..(SequenceRange - 1)

Half == SequenceRange \div 2

(* to.wrapping_sub(from)                                                   *)
Distance(from, to) == (to - from) % SequenceRange

Successor(s) == (s + 1) % SequenceRange

ClassifySequence(lastSeen, s) ==
  LET advance == Distance(lastSeen, s)
  IN  IF advance = 1 THEN "InOrder"
      ELSE IF advance > 1 /\ advance < Half THEN "Gap"
      ELSE "LateOrDuplicate"

-----------------------------------------------------------------------------
(* next is None in the empty buffer, before the first frame of a session.  *)
BufferRecord ==
  [ frames     : Seq(Sequence),
    next       : Sequence \cup {None},
    latest     : Sequence \cup {None},
    lastPlayed : Sequence \cup {None},
    anchor     : [seq : Sequence, at : Nat],
    playout    : Nat,
    target     : MinTargetDelay..MaxTargetDelay,
    adverse    : 0..(GrowthThreshold - 1),
    stable     : 0..(StablePeriod - 1) ]

(* new() and clear()                                                       *)
EmptyBuffer ==
  [ frames |-> <<>>, next |-> None, latest |-> None, lastPlayed |-> None,
    anchor |-> [seq |-> 0, at |-> 0], playout |-> 0,
    target |-> MinTargetDelay, adverse |-> 0, stable |-> 0 ]

Resident(b) == {b.frames[i] : i \in DOMAIN b.frames}

IsDuplicate(b, s) == b.lastPlayed = s \/ s \in Resident(b)

IsFuture(b, s) == Distance(b.next, s) \in 1..(Half - 1)

(* Mutant: one frame too many fits the window.                             *)
IsBeyondWindow(b, s) == Distance(b.next, s) \in (MaxBufferedFrames + 1)..(Half - 1)

IsOutsideWindow(b, s) == Distance(b.next, s) \in MaxBufferedFrames..(Half - 1)

(* By how many frames s is behind the pace set by the anchor; a delay of   *)
(* at most one frame is tolerated.                                         *)
LateFrames(b, s, at) ==
  LET distance == Distance(b.anchor.seq, s)
      lateBy   == at - (b.anchor.at + distance * FrameDuration)
  IN  IF distance >= Half \/ lateBy <= FrameDuration THEN 0 ELSE lateBy \div FrameDuration

(* Mutant: the deadline is extended from itself.                           *)
ExtendDeadlineAgain(b) == [b EXCEPT !.playout = @ + b.target]

(* extend_start_deadline: growth delays a playout that has not got far.    *)
ExtendStartDeadline(b) ==
  [b EXCEPT !.playout = IF b.anchor.at + b.target > @ THEN b.anchor.at + b.target ELSE @]

RegisterAdverse(b, n) ==
  LET total == b.adverse + n
      grown == b.target + (total \div GrowthThreshold) * GrowthStep
  IN  ExtendStartDeadline([b EXCEPT !.stable = 0,
                                    !.adverse = total % GrowthThreshold,
                                    !.target = IF grown < MaxTargetDelay THEN grown
                                               ELSE MaxTargetDelay])

RegisterStable(b) ==
  IF b.stable + 1 < StablePeriod
  THEN [b EXCEPT !.adverse = 0, !.stable = @ + 1]
  ELSE [b EXCEPT !.adverse = 0, !.stable = 0,
                 !.target = IF @ - DecayStep > MinTargetDelay THEN @ - DecayStep
                            ELSE MinTargetDelay]

-----------------------------------------------------------------------------
(* The FIFO, kept in the order in which its frames come up from `next`.    *)
Inserted(frames, p, s) ==
  [i \in 1..(Len(frames) + 1) |->
     IF i < p THEN frames[i] ELSE IF i = p THEN s ELSE frames[i - 1]]

Removed(frames, p) ==
  [i \in 1..(Len(frames) - 1) |-> IF i < p THEN frames[i] ELSE frames[i + 1]]

(* Before the first frame that comes up later than s, else at the back.    *)
IsPosition(b, frames, s, p) ==
  /\ p \in 1..(Len(frames) + 1)
  /\ \A i \in 1..(p - 1) : Distance(b.next, frames[i]) <= Distance(b.next, s)
  /\ p <= Len(frames) => Distance(b.next, frames[p]) > Distance(b.next, s)

Room(frames) ==
  IF Len(frames) >= MaxBufferedFrames THEN Removed(frames, 1) ELSE frames

(* Mutant: every frame goes to the back.                                   *)
QueueAtBack(b, s) == [b EXCEPT !.frames = Append(Room(b.frames), s)]

QueueFrame(b, s) ==
  LET frames == Room(b.frames)
      p == CHOOSE p \in 1..(Len(frames) + 1) : IsPosition(b, frames, s, p)
  IN  [b EXCEPT !.frames = Inserted(frames, p, s)]

ResetPlayoutWindow(b, s, at) ==
  [b EXCEPT !.frames = <<>>,
            !.next = s,
            !.lastPlayed = None,
            !.anchor = [seq |-> s, at |-> at],
            !.playout = at + b.target]

(* A frame too far ahead starts a new window.                              *)
Queue(b, s, at) ==
  QueueFrame(IF IsOutsideWindow(b, s) THEN ResetPlayoutWindow(b, s, at) ELSE b, s)

-----------------------------------------------------------------------------
Pushed(to, outcome) == [to |-> to, outcome |-> outcome]

PushFirst(b, s, at) ==
  Pushed([b EXCEPT !.next = s, !.latest = s,
                   !.anchor = [seq |-> s, at |-> at],
                   !.playout = at + b.target,
                   !.frames = Append(@, s)], "FirstFrame")

PushInOrder(b, s, at, late) ==
  LET seen == [b EXCEPT !.latest = s]
  IN  IF late > 0
      THEN Pushed(Queue(RegisterAdverse(seen, late), s, at), "Late")
      ELSE Pushed(Queue(RegisterStable(seen), s, at), "InOrder")

PushGap(b, s, at, late) ==
  LET seen    == [b EXCEPT !.latest = s]
      missed  == RegisterAdverse(seen, Distance(b.latest, s) - 1)
      delayed == IF late > 0 THEN RegisterAdverse(missed, late) ELSE missed
  IN  Pushed(Queue(delayed, s, at), "Gap")

(* Mutant: a frame whose slot has passed starts a new window.              *)
PushBehindRestarts(b, s, at, late) ==
  IF IsFuture(b, s)
  THEN Pushed(Queue(IF late > 0 THEN RegisterAdverse(b, late) ELSE b, s, at), "Reordered")
  ELSE Pushed(QueueFrame(ResetPlayoutWindow(b, s, at), s), "Late")

(* Behind the newest frame: taken while its slot is still to come, which   *)
(* the slot of `next` itself does not count as.                            *)
PushBehind(b, s, at, late) ==
  IF IsFuture(b, s)
  THEN Pushed(Queue(IF late > 0 THEN RegisterAdverse(b, late) ELSE b, s, at), "Reordered")
  ELSE Pushed(RegisterAdverse(b, 1), "Late")

Push(b, s, at) ==
  LET late == LateFrames(b, s, at)
  IN  IF b.next = None THEN PushFirst(b, s, at)
      ELSE IF IsDuplicate(b, s) THEN Pushed(b, "Duplicate")
      ELSE CASE ClassifySequence(b.latest, s) = "InOrder" -> PushInOrder(b, s, at, late)
             [] ClassifySequence(b.latest, s) = "Gap" -> PushGap(b, s, at, late)
             [] OTHER -> PushBehind(b, s, at, late)

(* poll: one slot per call, the frame of `next` if it is resident.         *)
PollReady(b, now) == b.next # None /\ now >= b.playout

PlaysAudio(b) == b.next \in Resident(b)

Poll(b) ==
  [b EXCEPT !.next = Successor(@),
            !.playout = @ + FrameDuration,
            !.lastPlayed = b.next,
            !.frames = IF PlaysAudio(b)
                       THEN Removed(@, CHOOSE i \in DOMAIN @ : @[i] = b.next)
                       ELSE @]

=============================================================================
