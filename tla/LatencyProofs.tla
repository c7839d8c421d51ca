----------------------------- MODULE LatencyProofs -----------------------------
(***************************************************************************)
(* Proofs about ClockCalibration and LatencyDiagnostic, for every interval,*)
(* limit, number of probes, range of sequences, clock step and number of   *)
(* faults.                                                                 *)
(***************************************************************************)
EXTENDS LatencyDiagnostic, SequenceTheorems, TLAPS

(* There is an attempt left whenever a probe is to be sent.                *)
AttemptLeft == phase = "probe" => attempt < MaxAttempts

(* If no clock was stepped since, a probe was sent before now, and the     *)
(* server read its clock between the probe's time and now.                 *)
ProbesTimely ==
  \A p \in probes :
    /\ p.steps <= steps
    /\ p.steps = steps => p.t1 <= ClientTime

RepliesTimely ==
  \A r \in replies :
    /\ r.steps <= steps
    /\ r.steps = steps => r.t1 + TrueOffset <= r.t2 /\ r.t2 <= ServerTime

(* A sample of an exchange without a step is within its bound.             *)
Trusted(s) == s # None /\ s.steady => Within(s, s.offset - s.truth)

(* The warning compares the two latest samples.                            *)
WarnedByDifference ==
  applied # None /\ previous # None =>
    applied.warning = (Difference(previous.offset, applied.offset) > Threshold)

(* A sample is not newer than the clocks, and its truth holds until one of *)
(* them is stepped.                                                        *)
Fresh(s) ==
  s # None =>
    /\ s.steps <= steps
    /\ s.steady /\ s.steps = steps => s.truth = TrueOffset

CalibrationInv ==
  /\ TypeOK
  /\ AttemptLeft
  /\ ProbesTimely
  /\ RepliesTimely
  /\ Trusted(applied) /\ Trusted(previous)
  /\ WarnedByDifference
  /\ Fresh(applied)

-----------------------------------------------------------------------------
(* Arithmetic.                                                             *)

LEMMA Halving ==
  ASSUME NEW d \in Nat
  PROVE  /\ d \div 2 \in Nat
         /\ 2 * (d \div 2) <= d
         /\ d <= 2 * (d \div 2) + 1
  BY SMT

LEMMA Quotient ==
  ASSUME NEW a \in Int, NEW b \in Nat \ {0}
  PROVE  a \div b \in Int
  BY SMT

LEMMA Remainder ==
  ASSUME NEW a \in Nat, NEW b \in Nat \ {0}
  PROVE  a % b \in 0..(b - 1)
  BY SMT

-----------------------------------------------------------------------------
(* What is received was in the network, and what is left of it still is.   *)
LEMMA TakenReply ==
  ASSUME CalibrationAssumption, TypeOK, NEW r, Taken(replies, r)
  PROVE  replies' \subseteq replies /\ faults' \in 0..MaxFaults /\ faults <= faults'
  BY DEF Taken, Fault, TypeOK, CalibrationAssumption

(* The sample of a valid reply that was timely is within its bound.        *)
LEMMA SampleTrusted ==
  ASSUME CalibrationAssumption, CalibrationInv,
         NEW r \in replies, Valid(r), Update(r), UNCHANGED clocks
  PROVE  /\ applied' \in Sample
         /\ previous' \in Sample \cup {None}
         /\ Trusted(applied)' /\ Trusted(previous)' /\ Fresh(applied)'
         /\ WarnedByDifference'
  <1> DEFINE d == ClientTime - r.t1
  <1>1. r \in Reply /\ d \in Nat /\ ClientTime \in Int /\ ServerTime \in Int
    BY DEF CalibrationInv, TypeOK, Valid, InOrder, RoundTrip, Reply, ClientTime, ServerTime,
           CalibrationAssumption
  <1>2. d \div 2 \in Nat /\ 2 * (d \div 2) <= d /\ d <= 2 * (d \div 2) + 1
    BY <1>1, Halving
  <1>3. Bound(r) = d \div 2 /\ OffsetOf(r) = r.t2 - (r.t1 + d \div 2) /\ OffsetOf(r) \in Int
    BY <1>1, <1>2 DEF Bound, RoundTrip, OffsetOf, Reply
  <1>4. applied' = [offset |-> OffsetOf(r), bound |-> d \div 2, warning |-> Unstable(r),
                    steps |-> r.steps, steady |-> r.steps = steps, truth |-> TrueOffset]
    BY <1>3 DEF Update, SampleOf
  <1>5. TrueOffset \in Int /\ Unstable(r) \in BOOLEAN
    BY DEF CalibrationInv, TypeOK, TrueOffset, Unstable
  <1>6. applied' \in Sample
    BY <1>1, <1>2, <1>3, <1>4, <1>5 DEF Sample, Reply
  <1>7. previous' = applied
    BY DEF Update
  <1>8. Trusted(applied)'
    <2>1. SUFFICES ASSUME r.steps = steps
                   PROVE  Within(applied', applied'.offset - applied'.truth)
      BY <1>4 DEF Trusted, Within
    <2>2. r.t1 + TrueOffset <= r.t2 /\ r.t2 <= ServerTime
      BY <2>1 DEF CalibrationInv, RepliesTimely
    <2>3. ServerTime = ClientTime + TrueOffset
      BY DEF CalibrationInv, TypeOK, ServerTime, ClientTime, TrueOffset
    <2> QED
      BY <1>1, <1>2, <1>3, <1>4, <1>5, <2>2, <2>3 DEF Within, Reply
  <1>9. WarnedByDifference'
    BY <1>3, <1>4, <1>7 DEF WarnedByDifference, Unstable, Difference
  <1>10. Fresh(applied)'
    BY <1>1, <1>4 DEF CalibrationInv, TypeOK, RepliesTimely, Fresh, TrueOffset, clocks
  <1> QED
    BY <1>6, <1>7, <1>8, <1>9, <1>10 DEF CalibrationInv, TypeOK, Trusted, Within

-----------------------------------------------------------------------------
(* Every step of the calibration keeps its invariant.                      *)

LEMMA SendTimely ==
  ASSUME CalibrationAssumption, CalibrationInv, NEW s \in Nat, Send(s), UNCHANGED clocks
  PROVE  probes' \subseteq Probe /\ ProbesTimely'
  BY DEF Send, CalibrationInv, TypeOK, ProbesTimely, Probe, ClientTime, clocks,
         CalibrationAssumption

LEMMA SendProbeStep ==
  ASSUME CalibrationAssumption, CalibrationInv, SendProbe
  PROVE  CalibrationInv'
  <1>1. probes' \subseteq Probe /\ ProbesTimely'
    BY SendTimely DEF SendProbe, CalibrationInv, TypeOK, CalibrationAssumption
  <1>2. TypeOK'
    BY <1>1 DEF SendProbe, CalibrationInv, TypeOK, AttemptLeft, Phases, clocks, plane, tracker,
                CalibrationAssumption
  <1> QED
    BY <1>1, <1>2 DEF SendProbe, CalibrationInv, AttemptLeft, RepliesTimely, Trusted, Within, Fresh,
                      WarnedByDifference, clocks, tracker, ServerTime, TrueOffset

LEMMA RecalibrateStep ==
  ASSUME CalibrationAssumption, CalibrationInv, Recalibrate
  PROVE  CalibrationInv'
  <1>1. probes' \subseteq Probe /\ ProbesTimely'
    BY SendTimely DEF Recalibrate, CalibrationInv, TypeOK, CalibrationAssumption
  <1>2. nextSequence' \in 0..(Sequences - 1)
    <2>1. nextSequence + 1 \in Nat /\ Sequences \in Nat \ {0}
      BY DEF CalibrationInv, TypeOK, CalibrationAssumption
    <2>2. (nextSequence + 1) % Sequences \in 0..(Sequences - 1)
      BY <2>1, Remainder
    <2> QED
      BY <2>2 DEF Recalibrate
  <1>3. TypeOK'
    BY <1>1, <1>2 DEF Recalibrate, CalibrationInv, TypeOK, Phases, clocks, probing, tracker,
                CalibrationAssumption
  <1> QED
    BY <1>1, <1>3 DEF Recalibrate, CalibrationInv, AttemptLeft, RepliesTimely, Trusted, Within,
                      Fresh,
                      WarnedByDifference, clocks, tracker, probing, ServerTime, TrueOffset

LEMMA NextProbeTyped ==
  ASSUME CalibrationAssumption, TypeOK, NextProbe
  PROVE  /\ phase' \in Phases /\ sequence' \in 0..(ProbeCount - 1)
         /\ attempt' \in 0..MaxAttempts /\ AttemptLeft'
  BY DEF NextProbe, TypeOK, Phases, AttemptLeft, CalibrationAssumption

LEMMA ReceiveReplyStep ==
  ASSUME CalibrationAssumption, CalibrationInv, ReceiveReply
  PROVE  CalibrationInv'
  <1>1. PICK r \in replies :
          /\ Taken(replies, r)
          /\ \/ Valid(r) /\ Update(r) /\ NextProbe
             \/ /\ phase' = IF AttemptsLeft(attempt) THEN "probe" ELSE "failed"
                /\ UNCHANGED <<sequence, attempt, tracker>>
             \/ phase' = "failed" /\ UNCHANGED <<sequence, attempt, tracker>>
    BY DEF ReceiveReply
  <1>2. replies' \subseteq replies /\ faults' \in 0..MaxFaults /\ faults <= faults'
    BY <1>1, TakenReply DEF CalibrationInv
  <1>3. UNCHANGED <<clocks, probes, program, plane>> /\ waitUntil' = 0
    BY DEF ReceiveReply
  <1>4. UNCHANGED clocks
    BY <1>3
  <1>5. /\ applied' \in Sample \cup {None} /\ previous' \in Sample \cup {None}
        /\ Trusted(applied)' /\ Trusted(previous)' /\ Fresh(applied)' /\ WarnedByDifference'
    <2>1. CASE Valid(r) /\ Update(r)
      BY <2>1, <1>4, SampleTrusted
    <2>2. CASE UNCHANGED tracker
      BY <2>2, <1>4 DEF clocks, tracker, CalibrationInv, TypeOK, Trusted, Within, Fresh,
                        TrueOffset, WarnedByDifference
    <2> QED
      BY <1>1, <2>1, <2>2
  <1>6. /\ phase' \in Phases /\ sequence' \in 0..(ProbeCount - 1)
        /\ attempt' \in 0..MaxAttempts /\ AttemptLeft'
    <2>1. CASE NextProbe
      BY <2>1, NextProbeTyped DEF CalibrationInv
    <2>2. CASE phase' = (IF AttemptsLeft(attempt) THEN "probe" ELSE "failed")
               /\ UNCHANGED <<sequence, attempt>>
      BY <2>2 DEF AttemptsLeft, AttemptLeft, CalibrationInv, TypeOK, Phases
    <2>3. CASE phase' = "failed" /\ UNCHANGED <<sequence, attempt>>
      BY <2>3 DEF AttemptLeft, CalibrationInv, TypeOK, Phases
    <2> QED
      BY <1>1, <2>1, <2>2, <2>3
  <1>7. TypeOK'
    BY <1>2, <1>3, <1>5, <1>6 DEF CalibrationInv, TypeOK, clocks, plane, CalibrationAssumption
  <1> QED
    BY <1>2, <1>3, <1>5, <1>6, <1>7
       DEF CalibrationInv, ProbesTimely, RepliesTimely, clocks, ClientTime, ServerTime, TrueOffset

LEMMA ReceiveCalibrationStep ==
  ASSUME CalibrationAssumption, CalibrationInv, ReceiveCalibration
  PROVE  CalibrationInv'
  <1>1. PICK r \in replies :
          /\ Taken(replies, r)
          /\ outstanding' \in {outstanding, None}
          /\ (Valid(r) /\ Update(r)) \/ UNCHANGED tracker
    BY DEF ReceiveCalibration
  <1>2. replies' \subseteq replies /\ faults' \in 0..MaxFaults /\ faults <= faults'
    BY <1>1, TakenReply DEF CalibrationInv
  <1>3. UNCHANGED <<clocks, probes, program, probing, nextSequence, due>>
    BY DEF ReceiveCalibration
  <1>4. UNCHANGED clocks
    BY <1>3
  <1>5. /\ applied' \in Sample \cup {None} /\ previous' \in Sample \cup {None}
        /\ Trusted(applied)' /\ Trusted(previous)' /\ Fresh(applied)' /\ WarnedByDifference'
    <2>1. CASE Valid(r) /\ Update(r)
      BY <2>1, <1>4, SampleTrusted
    <2>2. CASE UNCHANGED tracker
      BY <2>2, <1>4 DEF clocks, tracker, CalibrationInv, TypeOK, Trusted, Within, Fresh,
                        TrueOffset, WarnedByDifference
    <2> QED
      BY <1>1, <2>1, <2>2
  <1>6. TypeOK'
    BY <1>1, <1>2, <1>3, <1>5 DEF CalibrationInv, TypeOK, clocks, probing, CalibrationAssumption
  <1> QED
    BY <1>2, <1>3, <1>5, <1>6
       DEF CalibrationInv, AttemptLeft, ProbesTimely, RepliesTimely, clocks, probing,
           ClientTime, ServerTime, TrueOffset
LEMMA AnswerProbeStep ==
  ASSUME CalibrationAssumption, CalibrationInv, AnswerProbe
  PROVE  CalibrationInv'
  <1>1. PICK p \in probes :
          /\ Taken(probes, p)
          /\ replies' = replies \cup
               {[sequence |-> p.sequence, t1 |-> p.t1, t2 |-> ServerTime, steps |-> p.steps]}
    BY DEF AnswerProbe
  <1>2. UNCHANGED <<clocks, program, probing, plane, tracker>>
    BY DEF AnswerProbe
  <1>3. probes' \subseteq probes /\ faults' \in 0..MaxFaults /\ faults <= faults'
    BY <1>1 DEF Taken, Fault, CalibrationInv, TypeOK, CalibrationAssumption
  <1>4. p \in Probe /\ ServerTime \in Int /\ ServerTime = ClientTime + TrueOffset
    BY DEF CalibrationInv, TypeOK, ServerTime, ClientTime, TrueOffset, CalibrationAssumption
  <1>5. TypeOK'
    BY <1>1, <1>2, <1>3, <1>4
       DEF CalibrationInv, TypeOK, Probe, Reply, clocks, probing, plane, tracker,
           CalibrationAssumption
  <1>6. ProbesTimely'
    BY <1>2, <1>3 DEF CalibrationInv, ProbesTimely, ClientTime, clocks
  <1>7. RepliesTimely'
    <2>1. ServerTime' = ServerTime /\ TrueOffset' = TrueOffset /\ steps' = steps
      BY <1>2 DEF clocks, ServerTime, TrueOffset
    <2>2. /\ p.steps <= steps
          /\ p.steps = steps => p.t1 + TrueOffset <= ServerTime /\ ServerTime <= ServerTime
      BY <1>4 DEF CalibrationInv, ProbesTimely, Probe, TypeOK, ClientTime, TrueOffset,
                  CalibrationAssumption
    <2> QED
      BY <1>1, <2>1, <2>2 DEF CalibrationInv, RepliesTimely
  <1> QED
    BY <1>2, <1>5, <1>6, <1>7
       DEF CalibrationInv, AttemptLeft, Trusted, Within, Fresh, TrueOffset, WarnedByDifference,
           clocks, probing, tracker

(* Time passes for both clocks alike.                                      *)
LEMMA TickStep ==
  ASSUME CalibrationAssumption, CalibrationInv, Tick
  PROVE  CalibrationInv'
  <1>1. TypeOK'
    BY DEF CalibrationInv, TypeOK, Tick, network, probing, plane, tracker, CalibrationAssumption
  <1>2. ProbesTimely'
    BY DEF CalibrationInv, TypeOK, ProbesTimely, Probe, ClientTime, Tick, network,
           CalibrationAssumption
  <1>3. RepliesTimely'
    BY DEF CalibrationInv, TypeOK, RepliesTimely, Reply, ServerTime, TrueOffset, Tick, network,
           CalibrationAssumption
  <1> QED
    BY <1>1, <1>2, <1>3
       DEF CalibrationInv, AttemptLeft, Trusted, Within, Fresh, TrueOffset, WarnedByDifference,
           Tick, probing, tracker

(* After a step of a clock nothing that is in flight counts any more.      *)
LEMMA StepClockStep ==
  ASSUME CalibrationAssumption, CalibrationInv, StepClock
  PROVE  CalibrationInv'
  <1>1. TypeOK'
    BY DEF CalibrationInv, TypeOK, StepClock, Fault, network, probing, plane, tracker,
           CalibrationAssumption
  <1>2. ProbesTimely'
    BY DEF CalibrationInv, TypeOK, ProbesTimely, Probe, StepClock, Fault, network,
           CalibrationAssumption
  <1>3. RepliesTimely'
    BY DEF CalibrationInv, TypeOK, RepliesTimely, Reply, StepClock, Fault, network,
           CalibrationAssumption
  <1>4. Fresh(applied)'
    BY DEF CalibrationInv, TypeOK, Fresh, Sample, StepClock, Fault, tracker, CalibrationAssumption
  <1> QED
    BY <1>1, <1>2, <1>3, <1>4
       DEF CalibrationInv, AttemptLeft, Trusted, Within, WarnedByDifference, StepClock, probing,
           tracker

(* The steps of a session: they move the next calibration.                 *)
SessionStep == FirstSession \/ NewSession \/ Restart \/ StartAgain

LEMMA SessionStepLeaves ==
  ASSUME CalibrationAssumption, CalibrationInv, SessionStep
  PROVE  /\ UNCHANGED <<clocks, network, program, probing, nextSequence, tracker>>
         /\ faults' \in 0..MaxFaults /\ faults <= faults'
         /\ due' \in Nat \cup {None}
         /\ outstanding' \in {outstanding, None}
  BY DEF SessionStep, FirstSession, NewSession, AcceptStart, Restart, StartAgain, Fault, plane,
         CalibrationInv, TypeOK, CalibrationAssumption

(* The other steps leave the clocks, the network and the samples alone, or *)
(* forget the samples.                                                     *)
LEMMA OtherStep ==
  ASSUME CalibrationAssumption, CalibrationInv,
         \/ ReceiveStranger \/ ReadTimesOut \/ Proceed \/ SessionStep \/ Relaunch
         \/ UNCHANGED calibration
  PROVE  CalibrationInv'
  <1>1. UNCHANGED <<now, clientClock, serverClock, steps, probes, replies, program, sequence,
  attempt>>
    BY SessionStepLeaves
       DEF ReceiveStranger, ReadTimesOut, Proceed, Relaunch, calibration, clocks, network, probing
  <1>2. /\ phase' \in Phases /\ AttemptLeft'
        /\ waitUntil' \in Nat
        /\ due' \in Nat \cup {None}
        /\ nextSequence' \in 0..(Sequences - 1)
        /\ outstanding' \in 0..(Sequences - 1) \cup {None}
    BY SessionStepLeaves
       DEF CalibrationInv, TypeOK, AttemptLeft, ReceiveStranger, ReadTimesOut, Proceed, Relaunch,
           calibration, probing, plane, Phases, CalibrationAssumption
  <1>3. faults' \in 0..MaxFaults /\ faults <= faults'
    BY SessionStepLeaves
       DEF CalibrationInv, TypeOK, ReceiveStranger, ReadTimesOut, Proceed, Relaunch, Fault,
           calibration, CalibrationAssumption
  <1>4. UNCHANGED tracker \/ (applied' = None /\ previous' = None)
    BY SessionStepLeaves
       DEF ReceiveStranger, ReadTimesOut, Proceed, Relaunch, calibration, tracker
  <1>5. TypeOK'
    BY <1>1, <1>2, <1>3, <1>4 DEF CalibrationInv, TypeOK, tracker, CalibrationAssumption
  <1>6. ProbesTimely' /\ RepliesTimely'
    BY <1>1 DEF CalibrationInv, ProbesTimely, RepliesTimely, ClientTime, ServerTime, TrueOffset
  <1>7. Trusted(applied)' /\ Trusted(previous)' /\ Fresh(applied)' /\ WarnedByDifference'
    BY <1>1, <1>4 DEF CalibrationInv, Trusted, Within, Fresh, TrueOffset, WarnedByDifference,
                      tracker
  <1> QED
    BY <1>2, <1>5, <1>6, <1>7 DEF CalibrationInv

LEMMA CalibrationInitially ==
  ASSUME CalibrationAssumption, Init
  PROVE  CalibrationInv
  BY DEF Init, CalibrationInit, CalibrationInv, TypeOK, Phases, AttemptLeft, ProbesTimely,
         RepliesTimely, Trusted, Fresh, WarnedByDifference, CalibrationAssumption

LEMMA CalibrationStepKeeps ==
  ASSUME CalibrationAssumption, CalibrationInv, [Next]_vars
  PROVE  CalibrationInv'
  <1>1. CASE CalibrationStep
    BY <1>1, SendProbeStep, ReceiveReplyStep, RecalibrateStep, ReceiveCalibrationStep,
       AnswerProbeStep,
       TickStep, StepClockStep, OtherStep
       DEF CalibrationStep, ProbingStep, Environment, SessionStep
  <1>2. CASE DiagnosticStep
    <2>1. Proceed \/ SessionStep \/ UNCHANGED calibration
      BY <1>2 DEF SessionStep, DiagnosticStep, Calibrated, Open, Connected, NotConnected, RunFails,
                  CaptureFrame, Reconnect,
                  RenderBetween, BeginMeasure, Service, Read, Finish
    <2> QED
      BY <2>1, OtherStep
  <1>3. CASE UNCHANGED vars
    BY <1>3, OtherStep DEF vars
  <1> QED
    BY <1>1, <1>2, <1>3 DEF Next

-----------------------------------------------------------------------------
(* The offset of the tracker, however the replies were delayed, reordered, *)
(* repeated or taken for another's, is wrong by no more than its bound,    *)
(* unless a clock was stepped during the exchange.                         *)
THEOREM OffsetIsWithinBound == Spec => []OffsetWithinBound
  <1>1. Init => CalibrationInv
    BY CalibrationAssumption, CalibrationInitially
  <1>2. CalibrationInv /\ [Next]_vars => CalibrationInv'
    BY CalibrationAssumption, CalibrationStepKeeps
  <1>3. CalibrationInv => OffsetWithinBound
    BY DEF CalibrationInv, OffsetWithinBound, Trusted
  <1> QED
    BY <1>1, <1>2, <1>3, PTL DEF Spec

(* Two samples within their bounds differ from the change of the true      *)
(* offset by less than the slack.                                          *)
LEMMA WarnedOfChanges ==
  ASSUME CalibrationAssumption, CalibrationInv
  PROVE  ChangesAreWarned
  <1> SUFFICES ASSUME applied # None, previous # None, applied.steady, previous.steady
               PROVE  LET change == Difference(applied.truth, previous.truth)
                          slack == applied.bound + previous.bound + 1
                      IN  /\ change > Threshold + slack => applied.warning
                          /\ applied.warning => change + slack > Threshold
    BY DEF ChangesAreWarned
  <1>1. /\ applied.offset \in Int /\ applied.truth \in Int /\ applied.bound \in Nat
        /\ previous.offset \in Int /\ previous.truth \in Int /\ previous.bound \in Nat
        /\ Threshold \in Nat
    BY DEF CalibrationInv, TypeOK, Sample, CalibrationAssumption
  <1>2. /\ Within(applied, applied.offset - applied.truth)
        /\ Within(previous, previous.offset - previous.truth)
    BY DEF CalibrationInv, Trusted
  <1>3. applied.warning = (Difference(previous.offset, applied.offset) > Threshold)
    BY DEF CalibrationInv, WarnedByDifference
  <1> DEFINE change == Difference(applied.truth, previous.truth)
             found == Difference(previous.offset, applied.offset)
             slack == applied.bound + previous.bound + 1
  <1>4. change \in Int /\ found \in Int /\ slack \in Int
    BY <1>1 DEF Difference
  <1>5. change <= found + slack /\ found <= change + slack
    BY <1>1, <1>2 DEF Within, Difference
  <1>6. change > Threshold + slack => found > Threshold
    BY <1>1, <1>4, <1>5
  <1>7. found > Threshold => change + slack > Threshold
    BY <1>1, <1>4, <1>5
  <1> QED
    BY <1>3, <1>6, <1>7

(* A warning is raised exactly when the clocks have changed by more than   *)
(* the threshold, as far as two samples can tell.                          *)
THEOREM WarningsAreOfChanges == Spec => []ChangesAreWarned
  <1>1. Init => CalibrationInv
    BY CalibrationAssumption, CalibrationInitially
  <1>2. CalibrationInv /\ [Next]_vars => CalibrationInv'
    BY CalibrationAssumption, CalibrationStepKeeps
  <1>3. CalibrationInv => ChangesAreWarned
    BY CalibrationAssumption, WarnedOfChanges
  <1> QED
    BY <1>1, <1>2, <1>3, PTL DEF Spec

-----------------------------------------------------------------------------
(* What the diagnostic keeps.                                              *)

StampsOf(queue) == {queue[i] : i \in DOMAIN queue}

Measuring == stage \in {"service", "read"}

DiagnosticTyped ==
  /\ stage \in Stages
  /\ captured \in Nat /\ next \in Nat
  /\ lines \subseteq Stamp
  /\ baseline \in Stamp \cup {None}
  /\ Measuring => measure \in Measurement
  /\ used \in Sample \cup {None}

(* Nothing is captured, rendered or reported before the calibration is     *)
(* used, which happens once.                                               *)
Opened ==
  /\ stage # "off" => phase = "running"
  /\ stage = "off" => captured = 0 /\ baseline = None /\ report = None

(* Every frame of the session has its line, of no later than now.          *)
FramesPrinted ==
  Steady => \A s \in 0..(captured - 1) :
              \E l \in lines : l.sequence = s /\ l.at <= ServerTime

(* A frame that was rendered at some time of the client's clock had been   *)
(* captured by the same time of the server's.                              *)
Printed(h) == \E l \in lines : l.sequence = h.sequence /\ l.at <= h.at + TrueOffset

StampsPrinted ==
  Steady => /\ baseline # None => Printed(baseline)
            /\ Measuring => \A h \in StampsOf(measure.queue) : Printed(h)

DiagnosticInv ==
  /\ CalibrationInv
  /\ DiagnosticTyped
  /\ Opened
  /\ Trusted(used) /\ Fresh(used)
  /\ FramesPrinted
  /\ StampsPrinted
  /\ LatencyIsCausal

(* The queue gains the frame, and may lose its oldest.                     *)
LEMMA ObservedStamps ==
  ASSUME DiagnosticAssumption, NEW q \in Seq(Stamp), NEW h \in Stamp
  PROVE  /\ Observed(q, h) \in Seq(Stamp)
         /\ StampsOf(Observed(q, h)) \subseteq StampsOf(q) \cup {h}
  <1> DEFINE rest == IF Len(q) = Capacity THEN Tail(q) ELSE q
  <1>1. Len(q) = Capacity => q # <<>>
    BY EmptySeq DEF DiagnosticAssumption
  <1>2. rest \in Seq(Stamp) /\ StampsOf(rest) \subseteq StampsOf(q)
    <2>1. CASE Len(q) = Capacity
      <3>1. Tail(q) \in Seq(Stamp) /\ Len(Tail(q)) = Len(q) - 1
        BY <1>1, <2>1, HeadTailProperties
      <3>2. \A i \in 1..Len(Tail(q)) : Tail(q)[i] = q[i + 1]
        BY <1>1, <2>1, HeadTailProperties
      <3>3. \A i \in DOMAIN Tail(q) : i + 1 \in DOMAIN q /\ Tail(q)[i] = q[i + 1]
        BY <3>1, <3>2, LenProperties
      <3> QED
        BY <2>1, <3>1, <3>3 DEF StampsOf
    <2>2. CASE Len(q) # Capacity
      BY <2>2 DEF StampsOf
    <2> QED
      BY <2>1, <2>2
  <1>3. Append(rest, h) \in Seq(Stamp) /\ Len(Append(rest, h)) = Len(rest) + 1
    BY <1>2, AppendProperties
  <1>4. /\ \A i \in 1..Len(rest) : Append(rest, h)[i] = rest[i]
        /\ Append(rest, h)[Len(rest) + 1] = h
    BY <1>2, AppendProperties
  <1>5. \A i \in DOMAIN Append(rest, h) : Append(rest, h)[i] \in StampsOf(rest) \cup {h}
    <2> SUFFICES ASSUME NEW i \in DOMAIN Append(rest, h)
                 PROVE  Append(rest, h)[i] \in StampsOf(rest) \cup {h}
      OBVIOUS
    <2>1. i \in 1..(Len(rest) + 1) /\ Len(rest) \in Nat
      BY <1>2, <1>3, LenProperties
    <2>2. CASE i = Len(rest) + 1
      BY <1>4, <2>2
    <2>3. CASE i \in 1..Len(rest)
      BY <1>2, <1>4, <2>3, LenProperties DEF StampsOf
    <2> QED
      BY <2>1, <2>2, <2>3
  <1>6. Observed(q, h) = Append(rest, h)
    BY DEF Observed
  <1> HIDE DEF rest
  <1>7. StampsOf(Append(rest, h)) \subseteq StampsOf(rest) \cup {h}
    BY <1>5 DEF StampsOf
  <1> QED
    BY <1>2, <1>3, <1>6, <1>7

-----------------------------------------------------------------------------
(* Clocks, and what depends on them.                                       *)

ClocksMove ==
  \/ steps' = steps + 1
  \/ UNCHANGED <<clientClock, serverClock, steps>> /\ now <= now'

LEMMA ClocksMoveOnly ==
  ASSUME CalibrationAssumption, CalibrationInv, Next
  PROVE  ClocksMove
  <1>1. now \in Int
    BY DEF CalibrationInv, TypeOK, CalibrationAssumption
  <1>2. CASE CalibrationStep
    <2>1. StepClock \/ Tick \/ UNCHANGED clocks
      BY <1>2 DEF CalibrationStep, ProbingStep, Environment, SendProbe, ReceiveReply,
                  ReceiveStranger,
                  ReadTimesOut, Recalibrate, ReceiveCalibration, FirstSession, NewSession,
                  AcceptStart, Restart, Relaunch, AnswerProbe
    <2> QED
      BY <1>1, <2>1 DEF StepClock, Tick, clocks, ClocksMove
  <1>3. CASE DiagnosticStep
    <2>1. UNCHANGED clocks
      BY <1>3 DEF DiagnosticStep, Calibrated, Proceed, Open, Connected, NotConnected, RunFails,
                  CaptureFrame,
                  Reconnect, FirstSession, NewSession, AcceptStart, StartAgain, RenderBetween,
                  BeginMeasure, Service, Read, Finish, calibration
    <2> QED
      BY <1>1, <2>1 DEF clocks, ClocksMove
  <1> QED
    BY <1>2, <1>3 DEF Next

(* The sample in use stays what it was, and counts for less and less.      *)
LEMMA UsedStays ==
  ASSUME CalibrationAssumption, DiagnosticInv, ClocksMove, used' = used,
         steps' \in Nat
  PROVE  /\ Trusted(used)' /\ Fresh(used)'
         /\ Steady' => Steady /\ TrueOffset' = TrueOffset
  <1>1. used # None => used.steps \in Nat /\ used.steps <= steps /\ steps \in Nat
    BY DEF DiagnosticInv, DiagnosticTyped, CalibrationInv, TypeOK, Sample, Fresh,
           CalibrationAssumption
  <1>2. used # None /\ used.steps = steps' => steps' = steps /\ TrueOffset' = TrueOffset
    BY <1>1 DEF ClocksMove, TrueOffset
  <1> QED
    BY <1>1, <1>2 DEF DiagnosticInv, Trusted, Within, Fresh, Steady, ClocksMove, TrueOffset

(* What has been printed stays printed.                                    *)
LEMMA PrintedStays ==
  ASSUME CalibrationAssumption, DiagnosticInv, ClocksMove, UNCHANGED <<used, report>>,
         steps' \in Nat, lines \subseteq lines'
  PROVE  /\ LatencyIsCausal'
         /\ Steady' => \A h \in Stamp : Printed(h) => Printed(h)'
  <1>1. Steady' => Steady /\ TrueOffset' = TrueOffset
    BY UsedStays
  <1>2. LatencyIsCausal'
    BY <1>1 DEF DiagnosticInv, LatencyIsCausal
  <1>3. ASSUME Steady', NEW h \in Stamp, Printed(h)
        PROVE  Printed(h)'
    BY <1>1, <1>3 DEF Printed
  <1> QED
    BY <1>2, <1>3

(* A frame that is rendered now has been printed.                          *)
LEMMA RenderedPrinted ==
  ASSUME CalibrationAssumption, DiagnosticInv, Steady,
         NEW s \in next..(captured - 1)
  PROVE  Printed([sequence |-> s, at |-> ClientTime])
  <1>1. s \in 0..(captured - 1)
    BY DEF DiagnosticInv, DiagnosticTyped
  <1>2. PICK l \in lines : l.sequence = s /\ l.at <= ServerTime
    BY <1>1 DEF DiagnosticInv, FramesPrinted
  <1>3. ServerTime = ClientTime + TrueOffset
    BY DEF DiagnosticInv, CalibrationInv, TypeOK, ServerTime, ClientTime, TrueOffset,
           CalibrationAssumption
  <1> QED
    BY <1>2, <1>3 DEF Printed

-----------------------------------------------------------------------------
(* Every step of the diagnostic keeps its invariant.                       *)

(* What a step has to show besides, when it leaves the sample, the report  *)
(* and the lines.                                                          *)
LEMMA KeepsRest ==
  ASSUME CalibrationAssumption, DiagnosticInv, CalibrationInv', ClocksMove,
         DiagnosticTyped', Opened', UNCHANGED <<used, report>>, lines \subseteq lines',
         Steady /\ Steady' => FramesPrinted' /\ StampsPrinted'
  PROVE  DiagnosticInv'
  <1>1. steps' \in Nat
    BY DEF CalibrationInv, TypeOK, CalibrationAssumption
  <1>2. Trusted(used)' /\ Fresh(used)' /\ (Steady' => Steady)
    BY <1>1, UsedStays
  <1>3. LatencyIsCausal'
    BY <1>1, PrintedStays
  <1>4. FramesPrinted' /\ StampsPrinted'
    BY <1>2 DEF FramesPrinted, StampsPrinted
  <1> QED
    BY <1>2, <1>3, <1>4 DEF DiagnosticInv

(* Between two steps of its clock the server's time does not run back.     *)
LEMMA LaterIsMore ==
  ASSUME NEW a \in Int, NEW b \in Int, NEW c \in Int, a <= b
  PROVE  a + c \in Int /\ b + c \in Int /\ a + c <= b + c
  OBVIOUS

LEMMA ServerTimeGrows ==
  ASSUME now \in Int, now' \in Int, serverClock \in Int,
         serverClock' = serverClock, now <= now'
  PROVE  ServerTime \in Int /\ ServerTime' \in Int /\ ServerTime <= ServerTime'
  <1>1. ServerTime = now + serverClock /\ ServerTime' = now' + serverClock
    BY DEF ServerTime
  <1>2. now + serverClock \in Int /\ now' + serverClock \in Int
    OBVIOUS
  <1>3. now + serverClock <= now' + serverClock
    BY LaterIsMore
  <1> QED
    BY <1>1, <1>2, <1>3

(* Steps that capture, render and measure nothing.                         *)
LEMMA QuietStep ==
  ASSUME CalibrationAssumption, DiagnosticInv, CalibrationInv', ClocksMove,
         UNCHANGED <<used, report, lines, baseline>>,
         captured' \in {captured, 0}, next' \in {next, 0},
         Measuring' => Measuring /\ UNCHANGED measure,
         DiagnosticTyped', Opened'
  PROVE  DiagnosticInv'
  <1>1. steps' \in Nat /\ now \in Int /\ now' \in Int /\ serverClock \in Int
    BY DEF DiagnosticInv, CalibrationInv, TypeOK, CalibrationAssumption
  <1>2. Steady' => Steady /\ TrueOffset' = TrueOffset
    BY <1>1, UsedStays
  <1>3. \A h \in Stamp : Steady' /\ Printed(h) => Printed(h)'
    BY <1>1, PrintedStays
  <1>4. ASSUME Steady'
        PROVE  FramesPrinted' /\ StampsPrinted'
    <2>1. UNCHANGED <<clientClock, serverClock, steps>> /\ now <= now'
      BY <1>1, <1>2, <1>4 DEF ClocksMove, Steady, DiagnosticInv, DiagnosticTyped, Fresh, Sample,
                              CalibrationInv, TypeOK, CalibrationAssumption
    <2>2. FramesPrinted'
      <3>0. serverClock' = serverClock /\ now <= now'
        BY <2>1
      <3>1. ServerTime \in Int /\ ServerTime' \in Int /\ ServerTime <= ServerTime'
        BY <1>1, <3>0, ServerTimeGrows
      <3> SUFFICES ASSUME NEW s \in 0..(captured' - 1)
                   PROVE  \E l \in lines : l.sequence = s /\ l.at <= ServerTime'
        BY DEF FramesPrinted
      <3>2. s \in 0..(captured - 1)
        <4>1. captured \in Nat /\ captured' \in Nat
          BY DEF DiagnosticInv, DiagnosticTyped
        <4>2. CASE captured' = captured
          BY <4>2
        <4>3. CASE captured' = 0
          BY <4>3
        <4> QED
          BY <4>2, <4>3
      <3>3. PICK l \in lines : l.sequence = s /\ l.at <= ServerTime
        BY <1>2, <1>4, <3>2 DEF DiagnosticInv, FramesPrinted
      <3>4. l.at \in Int
        BY DEF DiagnosticInv, DiagnosticTyped, Stamp
      <3> QED
        BY <3>1, <3>3, <3>4
    <2>3. baseline' # None => Printed(baseline)'
      BY <1>2, <1>3, <1>4 DEF DiagnosticInv, DiagnosticTyped, StampsPrinted
    <2>4. Measuring' => \A h \in StampsOf(measure.queue)' : Printed(h)'
      <3> SUFFICES ASSUME Measuring', NEW h \in StampsOf(measure.queue)
                   PROVE  Printed(h)'
        OBVIOUS
      <3>1. measure.queue \in Seq(Stamp)
        BY DEF DiagnosticInv, DiagnosticTyped, Measurement
      <3>2. h \in Stamp
        BY <3>1, ElementOfSeq DEF StampsOf
      <3> QED
        BY <1>2, <1>3, <1>4, <3>2 DEF DiagnosticInv, StampsPrinted
    <2> QED
      BY <2>2, <2>3, <2>4 DEF StampsPrinted
  <1> QED
    BY <1>4, KeepsRest

LEMMA CalibratedStep ==
  ASSUME CalibrationAssumption, DiagnosticInv, CalibrationInv', Calibrated
  PROVE  DiagnosticInv'
  <1>1. stage = "off" /\ phase' # "calibrated" /\ UNCHANGED <<stage, until, audio, listening,
  clocks>>
    BY DEF Calibrated, Proceed, DiagnosticInv, Opened
  <1>2. used' \in {used, applied}
    BY DEF Calibrated
  <1>3. DiagnosticTyped'
    BY <1>1, <1>2 DEF DiagnosticInv, DiagnosticTyped, Measuring, CalibrationInv, TypeOK, audio,
                      listening
  <1>4. Opened'
    BY <1>1 DEF DiagnosticInv, Opened, audio, listening
  <1>5. Trusted(used)' /\ Fresh(used)'
    BY <1>1, <1>2 DEF DiagnosticInv, CalibrationInv, Trusted, Within, Fresh, TrueOffset, clocks
  <1>6. FramesPrinted'
    BY <1>1 DEF DiagnosticInv, Opened, FramesPrinted, audio
  <1>7. StampsPrinted' /\ LatencyIsCausal'
    BY <1>1 DEF DiagnosticInv, Opened, StampsPrinted, Measuring, LatencyIsCausal, listening
  <1> QED
    BY <1>3, <1>4, <1>5, <1>6, <1>7 DEF DiagnosticInv

LEMMA CaptureFrameStep ==
  ASSUME CalibrationAssumption, DiagnosticAssumption, DiagnosticInv, CalibrationInv', ClocksMove,
         CaptureFrame
  PROVE  DiagnosticInv'
  <1> DEFINE line == [sequence |-> captured, at |-> ServerTime]
  <1>1. UNCHANGED <<calibration, stage, until, next, history, listening, used>>
    BY DEF CaptureFrame
  <1>2. captured' = captured + 1 /\ lines' = lines \cup {line} /\ stage # "off"
    BY DEF CaptureFrame, InSession
  <1>3. captured \in Nat /\ ServerTime \in Int
    BY DEF DiagnosticInv, DiagnosticTyped, CalibrationInv, TypeOK, ServerTime, CalibrationAssumption
  <1>4. DiagnosticTyped'
    BY <1>1, <1>2, <1>3 DEF DiagnosticInv, DiagnosticTyped, Measuring, Stamp, listening
  <1>5. Opened'
    BY <1>1, <1>2 DEF DiagnosticInv, Opened, calibration, probing, listening
  <1>6. ASSUME Steady
        PROVE  FramesPrinted' /\ StampsPrinted'
    <2>1. ServerTime' = ServerTime /\ TrueOffset' = TrueOffset
      BY <1>1 DEF calibration, clocks, ServerTime, TrueOffset
    <2>2. FramesPrinted'
      <3> SUFFICES ASSUME NEW s \in 0..captured
                   PROVE  \E l \in lines' : l.sequence = s /\ l.at <= ServerTime
        BY <1>2, <1>3, <2>1 DEF FramesPrinted
      <3>1. CASE s = captured
        <4>1. line \in lines' /\ line.sequence = s /\ line.at <= ServerTime
          BY <1>2, <1>3, <3>1
        <4> QED
          BY <4>1
      <3>2. CASE s \in 0..(captured - 1)
        BY <1>2, <1>6, <3>2 DEF DiagnosticInv, FramesPrinted
      <3> QED
        BY <1>3, <3>1, <3>2
    <2>3. StampsPrinted'
      BY <1>1, <1>2, <1>6, <2>1 DEF DiagnosticInv, StampsPrinted, Printed, Measuring, listening
    <2> QED
      BY <2>2, <2>3
  <1> QED
    BY <1>1, <1>2, <1>4, <1>5, <1>6, KeepsRest DEF listening

LEMMA RenderBetweenStep ==
  ASSUME CalibrationAssumption, DiagnosticInv, CalibrationInv', ClocksMove, RenderBetween
  PROVE  DiagnosticInv'
  <1>1. PICK s \in next..(captured - 1) :
          Renders(s) /\ baseline' = [sequence |-> s, at |-> ClientTime]
    BY DEF RenderBetween
  <1>2. UNCHANGED <<calibration, stage, until, nextMeasure, measure, report,
  used>> /\ stage = "idle"
    BY DEF RenderBetween
  <1>3. s \in Nat /\ UNCHANGED <<captured, lines>> /\ next' = s + 1
    BY <1>1 DEF Renders, DiagnosticInv, DiagnosticTyped
  <1>4. baseline' \in Stamp
    BY <1>1, <1>3 DEF Stamp, ClientTime, DiagnosticInv, CalibrationInv, TypeOK,
                      CalibrationAssumption
  <1>5. DiagnosticTyped'
    BY <1>2, <1>3, <1>4 DEF DiagnosticInv, DiagnosticTyped, Measuring
  <1>6. Opened'
    BY <1>2 DEF DiagnosticInv, Opened, calibration, probing
  <1>7. ASSUME Steady
        PROVE  FramesPrinted' /\ StampsPrinted'
    <2>1. UNCHANGED <<ServerTime, TrueOffset>>
      BY <1>2 DEF calibration, clocks, ServerTime, TrueOffset
    <2>2. FramesPrinted'
      BY <1>3, <1>7, <2>1 DEF DiagnosticInv, FramesPrinted
    <2>3. Printed([sequence |-> s, at |-> ClientTime])
      BY <1>7, RenderedPrinted
    <2>4. StampsPrinted'
      BY <1>1, <1>2, <1>3, <2>1, <2>3 DEF StampsPrinted, Printed, Measuring
    <2> QED
      BY <2>2, <2>4
  <1> QED
    BY <1>2, <1>3, <1>5, <1>6, <1>7, KeepsRest

LEMMA BeginMeasureStep ==
  ASSUME CalibrationAssumption, DiagnosticAssumption, DiagnosticInv, CalibrationInv', ClocksMove,
         BeginMeasure
  PROVE  DiagnosticInv'
  <1>1. /\ UNCHANGED <<calibration, until, audio, baseline, used>> /\ stage # "off"
        /\ stage' = "service" /\ report' = None
        /\ measure' = [deadline |-> now + ToneTimeout, first |-> None, windows |-> 0, queue |-> <<>>]
    BY DEF BeginMeasure
  <1>2. <<>> \in Seq(Stamp) /\ StampsOf(<<>>) = {}
    BY EmptySeq, LenProperties DEF StampsOf
  <1>3. measure' \in Measurement /\ StampsOf(measure'.queue) = {}
    <2>1. now + ToneTimeout \in Nat
      BY DEF DiagnosticInv, CalibrationInv, TypeOK, CalibrationAssumption, DiagnosticAssumption
    <2>2. measure' \in Measurement
      BY <1>1, <1>2, <2>1 DEF Measurement
    <2>3. measure'.queue = <<>>
      BY <1>1
    <2> QED
      BY <1>2, <2>2, <2>3
  <1>4. DiagnosticTyped'
    BY <1>1, <1>3 DEF DiagnosticInv, DiagnosticTyped, Stages, Measuring, audio
  <1>5. Opened'
    BY <1>1 DEF DiagnosticInv, Opened, calibration, probing
  <1>6. UNCHANGED <<steps, ServerTime, TrueOffset, Steady, lines, captured>>
    BY <1>1 DEF calibration, clocks, audio, ServerTime, TrueOffset, Steady
  <1>7. FramesPrinted'
    BY <1>6 DEF DiagnosticInv, FramesPrinted
  <1>8. StampsPrinted'
    BY <1>1, <1>3, <1>6 DEF DiagnosticInv, StampsPrinted, Printed
  <1>9. Trusted(used)' /\ Fresh(used)'
    BY <1>1, <1>6 DEF DiagnosticInv, Trusted, Within, Fresh
  <1> QED
    BY <1>1, <1>4, <1>5, <1>7, <1>8, <1>9 DEF DiagnosticInv, LatencyIsCausal

LEMMA ServiceStep ==
  ASSUME CalibrationAssumption, DiagnosticAssumption, DiagnosticInv, CalibrationInv', ClocksMove,
  Service
  PROVE  DiagnosticInv'
  <1>1. /\ UNCHANGED <<calibration, until, baseline, nextMeasure, report, used>>
        /\ stage = "service" /\ stage' = "read"
    BY DEF Service
  <1>2. Opened'
    BY <1>1 DEF DiagnosticInv, Opened, calibration, probing
  <1>3. measure \in Measurement /\ measure.queue \in Seq(Stamp) /\ Measuring
    BY <1>1 DEF DiagnosticInv, DiagnosticTyped, Measuring, Measurement
  <1>4. CASE UNCHANGED <<measure, audio>>
    <2>1. DiagnosticTyped'
      BY <1>1, <1>3, <1>4 DEF DiagnosticInv, DiagnosticTyped, Stages, audio
    <2> QED
      BY <1>1, <1>2, <1>3, <1>4, <2>1, QuietStep DEF audio
  <1>5. CASE \E s \in next..(captured - 1) :
               /\ Renders(s)
               /\ measure' = [measure EXCEPT !.queue = Observed(@, [sequence |-> s, at |-> ClientTime])]
    <2>1. PICK s \in next..(captured - 1) :
            /\ Renders(s)
            /\ measure' = [measure EXCEPT !.queue = Observed(@, [sequence |-> s, at |-> ClientTime])]
      BY <1>5
    <2> DEFINE h == [sequence |-> s, at |-> ClientTime]
    <2>2. s \in Nat /\ UNCHANGED <<captured, lines>> /\ next' = s + 1
      BY <2>1 DEF Renders, DiagnosticInv, DiagnosticTyped
    <2>3. h \in Stamp
      BY <2>2 DEF Stamp, ClientTime, DiagnosticInv, CalibrationInv, TypeOK, CalibrationAssumption
    <2> HIDE DEF h
    <2>4. /\ Observed(measure.queue, h) \in Seq(Stamp)
          /\ StampsOf(Observed(measure.queue, h)) \subseteq StampsOf(measure.queue) \cup {h}
      BY <1>3, <2>3, ObservedStamps
    <2>5. measure' \in Measurement /\ measure'.queue = Observed(measure.queue, h)
      BY <1>3, <2>1, <2>4 DEF Measurement, h
    <2>6. DiagnosticTyped'
      BY <1>1, <2>2, <2>5 DEF DiagnosticInv, DiagnosticTyped, Stages
    <2>7. ASSUME Steady
          PROVE  FramesPrinted' /\ StampsPrinted'
      <3>1. UNCHANGED <<ServerTime, TrueOffset>>
        BY <1>1 DEF calibration, clocks, ServerTime, TrueOffset
      <3>2. FramesPrinted'
        BY <2>2, <2>7, <3>1 DEF DiagnosticInv, FramesPrinted
      <3>3. Printed(h)
        BY <2>7, RenderedPrinted DEF h
      <3>4. \A g \in StampsOf(measure'.queue) : Printed(g)
        BY <1>3, <2>4, <2>5, <2>7, <3>3 DEF DiagnosticInv, StampsPrinted
      <3>5. StampsPrinted'
        BY <1>1, <2>2, <2>7, <3>1, <3>4 DEF DiagnosticInv, StampsPrinted, Printed
      <3> QED
        BY <3>2, <3>5
    <2> QED
      BY <1>1, <1>2, <2>2, <2>6, <2>7, KeepsRest
  <1> QED
    BY <1>4, <1>5 DEF Service

(* A frame that fits an onset was rendered at or before it.                *)
LEMMA Fits ==
  ASSUME NEW onset \in Int, NEW h \in ForOnset(onset)
  PROVE  /\ h.at <= onset
         /\ h \in StampsOf(measure.queue) \/ (h = baseline /\ baseline # None)
  BY DEF ForOnset, AtOrBefore, StampsOf

LEMMA FoundStep ==
  ASSUME CalibrationAssumption, DiagnosticInv, CalibrationInv', ClocksMove,
         UNCHANGED <<calibration, until, audio, used>>, stage = "read",
         NEW onset \in Int, Found(onset)
  PROVE  DiagnosticInv'
  <1>1. CASE stage' = "failed" /\ UNCHANGED listening
    <2>1. DiagnosticTyped' /\ Opened'
      BY <1>1 DEF DiagnosticInv, DiagnosticTyped, Opened, Stages, Measuring, listening, audio,
                  calibration, probing
    <2> QED
      BY <1>1, <2>1, QuietStep DEF Measuring, listening, audio
  <1>2. CASE \E h \in ForOnset(onset) :
               /\ report' = [frame |-> h, onset |-> onset, server |-> TranslateToServer(onset),
                             passed |-> {g \in history : h.at < g.at /\ g.at <= onset}]
               /\ stage' = "idle" /\ baseline' = None
    <2>1. PICK h \in ForOnset(onset) :
            /\ report' = [frame |-> h, onset |-> onset, server |-> TranslateToServer(onset),
                          passed |-> {g \in history : h.at < g.at /\ g.at <= onset}]
            /\ stage' = "idle" /\ baseline' = None
      BY <1>2
    <2>2. DiagnosticTyped' /\ Opened'
      BY <2>1 DEF DiagnosticInv, DiagnosticTyped, Opened, Stages, Measuring, audio, calibration,
                  probing
    <2>3. UNCHANGED <<steps, ServerTime, TrueOffset, lines, captured, used, Steady>>
      BY DEF calibration, clocks, audio, ServerTime, TrueOffset, Steady
    <2>4. FramesPrinted' /\ StampsPrinted'
      BY <2>1, <2>3 DEF DiagnosticInv, FramesPrinted, StampsPrinted, Measuring
    <2>5. Trusted(used)' /\ Fresh(used)'
      BY <2>3 DEF DiagnosticInv, Trusted, Within, Fresh
    <2>6. LatencyIsCausal'
      <3> SUFFICES ASSUME Steady
                   PROVE  \E l \in lines : /\ l.sequence = h.sequence
                                           /\ l.at <= onset + used.offset + used.bound
        BY <2>1, <2>3 DEF LatencyIsCausal, TranslateToServer
      <3>1. h.at <= onset /\ Printed(h) /\ h \in Stamp
        <4>1. h.at <= onset /\ (h \in StampsOf(measure.queue) \/ (h = baseline /\ baseline # None))
          BY Fits
        <4>2. measure.queue \in Seq(Stamp) /\ Measuring
          BY DEF DiagnosticInv, DiagnosticTyped, Measuring, Measurement
        <4>3. h \in Stamp
          BY <4>1, <4>2, ElementOfSeq DEF DiagnosticInv, DiagnosticTyped, StampsOf
        <4> QED
          BY <4>1, <4>2, <4>3 DEF DiagnosticInv, StampsPrinted
      <3>2. PICK l \in lines : l.sequence = h.sequence /\ l.at <= h.at + TrueOffset
        BY <3>1 DEF Printed
      <3>3. used.truth = TrueOffset /\ used \in Sample /\ - used.bound <= used.offset - used.truth
        BY DEF DiagnosticInv, DiagnosticTyped, Steady, Trusted, Within, Fresh
      <3>4. /\ l.at \in Int /\ h.at \in Int /\ TrueOffset \in Int
            /\ used.offset \in Int /\ used.bound \in Nat
        BY <3>1, <3>3 DEF DiagnosticInv, DiagnosticTyped, CalibrationInv, TypeOK, Stamp, Sample,
                          TrueOffset
      <3> QED
        BY <3>1, <3>2, <3>3, <3>4
    <2> QED
      BY <2>2, <2>4, <2>5, <2>6 DEF DiagnosticInv
  <1> QED
    BY <1>1, <1>2 DEF Found

(* The onset of the tone that Read finds is a time.                        *)
LEMMA OnsetIsTime ==
  ASSUME CalibrationAssumption, DiagnosticAssumption, DiagnosticInv, stage = "read",
         NEW n \in Nat, NEW w \in 0..(n - 1),
         NEW first, first = IF measure.first = None /\ n > 0 THEN ClientTime ELSE measure.first
  PROVE  OnsetOf(first, w) \in Int
  <1>1. measure \in Measurement
    BY DEF DiagnosticInv, DiagnosticTyped, Measuring
  <1>2. ClientTime \in Int
    BY DEF DiagnosticInv, CalibrationInv, TypeOK, ClientTime, CalibrationAssumption
  <1>3. measure.first \in Int \cup {None} /\ measure.windows \in Nat
    BY <1>1 DEF Measurement
  <1>4. n > 0 /\ w \in Nat
    OBVIOUS
  <1>5. first \in Int
    BY <1>2, <1>3, <1>4
  <1>6. WindowTime \in Int /\ measure.windows + w \in Int
    BY <1>3, <1>4 DEF DiagnosticAssumption
  <1>7. (measure.windows + w) * WindowTime \in Int
    BY <1>6
  <1> QED
    BY <1>5, <1>7 DEF OnsetOf

LEMMA ReadStep ==
  ASSUME CalibrationAssumption, DiagnosticAssumption, DiagnosticInv, CalibrationInv', ClocksMove,
  Read
  PROVE  DiagnosticInv'
  <1>1. UNCHANGED <<calibration, until, audio, used>> /\ stage = "read"
    BY DEF Read
  <1> DEFINE First(n) == IF measure.first = None /\ n > 0 THEN ClientTime ELSE measure.first
  <1>2. measure \in Measurement /\ measure.windows \in Nat /\ ClientTime \in Int /\ Elapsed \in Int
    <2>1. measure \in Measurement
      BY <1>1 DEF DiagnosticInv, DiagnosticTyped, Measuring
    <2>2. measure.windows \in Nat /\ measure.deadline \in Nat
      BY <2>1 DEF Measurement
    <2>3. now \in Int /\ ClientTime \in Int
      BY DEF DiagnosticInv, CalibrationInv, TypeOK, ClientTime, CalibrationAssumption
    <2>4. WindowTime \in Nat \ {0} /\ ToneTimeout \in Nat
      BY DEF DiagnosticAssumption
    <2>5. now - (measure.deadline - ToneTimeout) \in Int
      BY <2>2, <2>3, <2>4
    <2>6. Elapsed \in Int
      BY <2>4, <2>5, Quotient DEF Elapsed
    <2> QED
      BY <2>1, <2>2, <2>3, <2>6
  <1>3. PICK n \in 0..(Elapsed - measure.windows) :
          \/ NoTone(n, First(n))
          \/ \E w \in 0..(n - 1) : Found(OnsetOf(First(n), w))
    BY DEF Read
  <1>4. First(n) \in Int \cup {None} /\ (n > 0 => First(n) \in Int) /\ n \in Nat
    BY <1>2 DEF Measurement
  <1> HIDE DEF First
  <1>5. CASE NoTone(n, First(n))
    <2>1. CASE stage' = "failed" /\ UNCHANGED listening
      <3>1. DiagnosticTyped' /\ Opened'
        BY <1>1, <2>1 DEF DiagnosticInv, DiagnosticTyped, Opened, Stages, Measuring, listening,
                          audio,
                          calibration, probing
      <3> QED
        BY <1>1, <2>1, <3>1, QuietStep DEF Measuring, listening, audio
    <2>2. CASE /\ stage' = "service"
               /\ measure' = [measure EXCEPT !.windows = @ + n, !.first = First(n)]
               /\ UNCHANGED <<baseline, nextMeasure, report>>
      <3>1. measure' \in Measurement /\ measure'.queue = measure.queue
        <4>1. measure.windows + n \in Nat
          BY <1>2, <1>4
        <4> QED
          BY <1>2, <1>4, <2>2, <4>1 DEF Measurement
      <3>2. DiagnosticTyped'
        BY <1>1, <2>2, <3>1 DEF DiagnosticInv, DiagnosticTyped, Stages, audio
      <3>3. Opened'
        BY <1>1, <2>2 DEF DiagnosticInv, Opened, calibration, probing
      <3>4. UNCHANGED <<ServerTime, TrueOffset, lines, captured>>
        BY <1>1 DEF calibration, clocks, audio, ServerTime, TrueOffset
      <3>5. Steady => FramesPrinted' /\ StampsPrinted'
        BY <1>1, <2>2, <3>1, <3>4 DEF DiagnosticInv, FramesPrinted, StampsPrinted, Printed,
                                      Measuring
      <3> QED
        BY <1>1, <2>2, <3>2, <3>3, <3>4, <3>5, KeepsRest
    <2> QED
      BY <1>5, <2>1, <2>2 DEF NoTone
  <1>6. CASE \E w \in 0..(n - 1) : Found(OnsetOf(First(n), w))
    <2>1. PICK w \in 0..(n - 1) : Found(OnsetOf(First(n), w))
      BY <1>6
    <2>2. OnsetOf(First(n), w) \in Int
      BY <1>1, <1>4, OnsetIsTime DEF First
    <2> QED
      BY <1>1, <2>1, <2>2, FoundStep
  <1> QED
    BY <1>3, <1>5, <1>6

LEMMA OtherDiagnosticStep ==
  ASSUME CalibrationAssumption, DiagnosticInv, CalibrationInv', ClocksMove,
         \/ CalibrationStep
         \/ Open \/ Connected \/ NotConnected \/ RunFails \/ Reconnect \/ Finish
         \/ UNCHANGED vars
  PROVE  DiagnosticInv'
  <1>1. UNCHANGED <<used, report, lines, baseline>>
    BY DEF CalibrationStep, Open, OpenCapture, Connected, NotConnected, RunFails, InSession,
           Reconnect, Finish, vars, diagnostic, audio,
           listening
  <1>2. captured' \in {captured, 0} /\ next' \in {next, 0} /\ measure' = measure
    BY DEF CalibrationStep, Open, OpenCapture, Connected, NotConnected, RunFails, InSession,
           Reconnect, Finish, vars, diagnostic, audio,
           listening
  <1>3. stage' = stage \/ (stage' \in Stages \ {"off", "service", "read"} /\ phase = "running")
    BY DEF CalibrationStep, Open, OpenCapture, Connected, NotConnected, RunFails, InSession,
           Reconnect, Finish, vars, diagnostic, Stages,
           DiagnosticInv, Opened
  <1>4. phase = "running" => phase' = "running"
    BY DEF CalibrationStep, ProbingStep, Environment, SendProbe, ReceiveReply, ReceiveStranger,
           ReadTimesOut, Recalibrate, ReceiveCalibration, FirstSession, NewSession, AcceptStart,
           Restart, StartAgain, Relaunch, AnswerProbe, Tick,
           StepClock, Open, OpenCapture, Connected, NotConnected, RunFails, InSession,
           Reconnect, Finish, vars, calibration, probing
  <1>5. DiagnosticTyped'
    BY <1>1, <1>2, <1>3 DEF DiagnosticInv, DiagnosticTyped, Measuring, Stages
  <1>6. Opened'
    BY <1>1, <1>2, <1>3, <1>4 DEF DiagnosticInv, Opened, Stages
  <1>7. Measuring' => Measuring /\ UNCHANGED measure
    BY <1>2, <1>3 DEF Measuring
  <1> QED
    BY <1>1, <1>2, <1>5, <1>6, <1>7, QuietStep

LEMMA DiagnosticInitially ==
  ASSUME CalibrationAssumption, Init
  PROVE  DiagnosticInv
  BY CalibrationInitially
     DEF Init, DiagnosticInv, DiagnosticTyped, Opened, Stages, Measuring, Trusted, Fresh,
         FramesPrinted, StampsPrinted, LatencyIsCausal, Steady

LEMMA DiagnosticKeeps ==
  ASSUME CalibrationAssumption, DiagnosticAssumption, DiagnosticInv, [Next]_vars
  PROVE  DiagnosticInv'
  <1>1. CalibrationInv'
    BY CalibrationStepKeeps DEF DiagnosticInv
  <1>2. ClocksMove
    <2>1. CASE Next
      BY <2>1, ClocksMoveOnly DEF DiagnosticInv
    <2>2. CASE UNCHANGED vars
      BY <2>2 DEF vars, calibration, clocks, ClocksMove, DiagnosticInv, CalibrationInv, TypeOK,
                  CalibrationAssumption
    <2> QED
      BY <2>1, <2>2
  <1> QED
    BY <1>1, <1>2, CalibratedStep, CaptureFrameStep, RenderBetweenStep, BeginMeasureStep,
       ServiceStep,
       ReadStep, OtherDiagnosticStep
       DEF Next, DiagnosticStep

(* The two outputs never show a frame heard before it was captured by more *)
(* than the error bound of the one calibration they are compared with,     *)
(* unless a clock was stepped since that was made.                         *)
THEOREM LatencyStaysCausal == Spec => []LatencyIsCausal
  <1>1. Init => DiagnosticInv
    BY CalibrationAssumption, DiagnosticInitially
  <1>2. DiagnosticInv /\ [Next]_vars => DiagnosticInv'
    BY CalibrationAssumption, DiagnosticAssumption, DiagnosticKeeps
  <1>3. DiagnosticInv => LatencyIsCausal
    BY DEF DiagnosticInv
  <1> QED
    BY <1>1, <1>2, <1>3, PTL DEF Spec

-----------------------------------------------------------------------------
(* What the diagnostic remembers of the frames it rendered.                *)

(* Every frame of the session was printed, and the queue holds no more than*)
(* a measurement can render.                                               *)
Counted ==
  /\ until \in Nat /\ nextMeasure \in Nat
  /\ printed \in 0..MaxFrames
  /\ captured \in 0..printed /\ next \in 0..captured
  /\ Measuring => Len(measure.queue) <= MaxRendered

(* The diagnostic does not begin without a sample.                         *)
SampleTaken ==
  /\ program = "client" => phase = "running"
  /\ phase = "calibrated" => applied \in Sample
  /\ program = "diagnose" /\ phase = "running" => used \in Sample
  /\ stage # "off" => used \in Sample

Reported ==
  /\ history \subseteq Stamp
  /\ report # None => report \in Report

(* Between measurements the baseline is the last frame that was rendered,  *)
(* if there is one. During a measurement a rendered frame is in the queue, *)
(* or it was rendered before all that are, and before the baseline.        *)
Precedes(g) ==
  /\ baseline # None => g.at <= baseline.at
  /\ \A q \in StampsOf(measure.queue) : g.at <= q.at

Remembered ==
  /\ stage \in {"off", "connecting"} => history = {}
  /\ Steady =>
       /\ \A g \in history : g.at <= ClientTime
       /\ stage = "idle" /\ baseline # None => \A g \in history : g.at <= baseline.at
       /\ Measuring => \A g \in history : g \in StampsOf(measure.queue) \/ Precedes(g)

OnsetNamedInv ==
  /\ DiagnosticInv
  /\ Counted
  /\ SampleTaken
  /\ Reported
  /\ Remembered
  /\ OnsetNamesLastRendered

(* A queue that is not full keeps what it holds.                           *)
LEMMA ObservedKeepsAll ==
  ASSUME DiagnosticAssumption, NEW q \in Seq(Stamp), NEW h \in Stamp, Len(q) < Capacity
  PROVE  /\ Len(Observed(q, h)) = Len(q) + 1
         /\ StampsOf(Observed(q, h)) = StampsOf(q) \cup {h}
  <1>1. Observed(q, h) = Append(q, h)
    <2>1. Len(q) # Capacity
      BY LenProperties DEF DiagnosticAssumption
    <2> QED
      BY <2>1 DEF Observed
  <1>2. Append(q, h) \in Seq(Stamp) /\ Len(Append(q, h)) = Len(q) + 1
    BY AppendProperties
  <1>3. /\ \A i \in 1..Len(q) : Append(q, h)[i] = q[i]
        /\ Append(q, h)[Len(q) + 1] = h
    BY AppendProperties
  <1>4. /\ Len(q) \in Nat
        /\ DOMAIN q = 1..Len(q)
        /\ DOMAIN Append(q, h) = 1..(Len(q) + 1)
    BY <1>2, LenProperties
  <1>5. StampsOf(q) \cup {h} \subseteq StampsOf(Append(q, h))
    BY <1>3, <1>4 DEF StampsOf
  <1>6. StampsOf(Observed(q, h)) \subseteq StampsOf(q) \cup {h}
    BY ObservedStamps
  <1> QED
    BY <1>1, <1>2, <1>5, <1>6

(* A frame that is rendered is stamped with a number and a time.           *)
LEMMA RenderedStamp ==
  ASSUME CalibrationAssumption, DiagnosticInv, NEW s \in next..(captured - 1)
  PROVE  [sequence |-> s, at |-> ClientTime] \in Stamp /\ ClientTime \in Int
  BY DEF DiagnosticInv, DiagnosticTyped, CalibrationInv, TypeOK, Stamp, ClientTime,
         CalibrationAssumption

LEMMA Limits ==
  ASSUME DiagnosticAssumption
  PROVE  MaxRendered \in Nat /\ Capacity \in Nat /\ MaxRendered <= Capacity
  BY DEF DiagnosticAssumption

LEMMA RoomFor ==
  ASSUME DiagnosticAssumption, NEW l \in Nat, l < MaxRendered
  PROVE  l < Capacity /\ l + 1 <= MaxRendered
  BY Limits

(* What Service does when a frame is rendered.                             *)
ObservedInService(s) ==
  /\ Len(measure.queue) < MaxRendered
  /\ Renders(s)
  /\ measure' = [measure EXCEPT !.queue = Observed(@, [sequence |-> s, at |-> ClientTime])]

(* The queue has room for the frame.                                       *)
LEMMA QueueGrows ==
  ASSUME CalibrationAssumption, DiagnosticAssumption, DiagnosticInv, Measuring,
         NEW s \in next..(captured - 1), ObservedInService(s)
  PROVE  /\ Len(measure'.queue) <= MaxRendered
         /\ StampsOf(measure'.queue) =
              StampsOf(measure.queue) \cup {[sequence |-> s, at |-> ClientTime]}
  <1> DEFINE h == [sequence |-> s, at |-> ClientTime]
  <1>1. measure \in Measurement /\ measure.queue \in Seq(Stamp)
    BY DEF DiagnosticInv, DiagnosticTyped, Measurement
  <1>2. h \in Stamp
    BY RenderedStamp
  <1>3. Len(measure.queue) < MaxRendered /\ measure'.queue = Observed(measure.queue, h)
    BY <1>1 DEF ObservedInService, Measurement
  <1> HIDE DEF h
  <1>4. Len(measure.queue) \in Nat
    BY <1>1, LenProperties
  <1>5. Len(measure.queue) < Capacity /\ Len(measure.queue) + 1 <= MaxRendered
    BY <1>3, <1>4, RoomFor
  <1>6. /\ Len(Observed(measure.queue, h)) = Len(measure.queue) + 1
        /\ StampsOf(Observed(measure.queue, h)) = StampsOf(measure.queue) \cup {h}
    BY <1>1, <1>2, <1>5, ObservedKeepsAll
  <1>7. Len(measure'.queue) <= MaxRendered
    BY <1>3, <1>5, <1>6
  <1>8. StampsOf(measure'.queue) = StampsOf(measure.queue) \cup {h}
    BY <1>3, <1>6
  <1> QED
    BY <1>7, <1>8 DEF h

-----------------------------------------------------------------------------
(* Every step keeps the counts.                                            *)

LEMMA OneMore ==
  ASSUME NEW n \in Nat, NEW c \in Nat, NEW p \in Nat, NEW m \in Nat, n <= c, c <= p, p < m
  PROVE  p + 1 \in 0..m /\ c + 1 \in 0..(p + 1) /\ n \in 0..(c + 1)
  OBVIOUS

LEMMA CountedInService ==
  ASSUME CalibrationAssumption, DiagnosticAssumption, DiagnosticInv, Counted, Service
  PROVE  Counted'
  <1>1. UNCHANGED <<calibration, until, nextMeasure>> /\ Measuring
    BY DEF Service, Measuring
  <1>2. CASE UNCHANGED <<measure, audio>>
    BY <1>1, <1>2 DEF Counted, audio
  <1>3. CASE \E s \in next..(captured - 1) : ObservedInService(s)
    <2>1. PICK s \in next..(captured - 1) : ObservedInService(s)
      BY <1>3
    <2>2. Len(measure'.queue) <= MaxRendered
      BY <1>1, <2>1, QueueGrows
    <2>3. next' = s + 1 /\ UNCHANGED <<captured, printed>>
      BY <2>1 DEF ObservedInService, Renders
    <2>4. captured \in Nat /\ next \in Nat
      BY DEF Counted
    <2>5. next' \in 0..captured
      BY <2>3, <2>4
    <2> QED
      BY <1>1, <2>2, <2>3, <2>5 DEF Counted
  <1> QED
    BY <1>2, <1>3 DEF Service, ObservedInService

LEMMA CountedInRead ==
  ASSUME DiagnosticInv, Counted, Read
  PROVE  Counted'
  <1>1. UNCHANGED <<calibration, until, audio, used>> /\ Measuring
    BY DEF Read, Measuring
  <1>2. measure \in Measurement
    BY <1>1 DEF DiagnosticInv, DiagnosticTyped
  <1>3. nextMeasure' = nextMeasure
    BY DEF Read, NoTone, Found, listening
  <1>4. Measuring' => measure'.queue = measure.queue
    <2>1. PICK n, first : NoTone(n, first) \/ \E onset : Found(onset)
      BY DEF Read
    <2>2. CASE NoTone(n, first)
      BY <1>2, <2>2 DEF NoTone, Measuring, listening, Measurement
    <2>3. CASE \E onset : Found(onset)
      BY <2>3 DEF Found, Measuring
    <2> QED
      BY <2>1, <2>2, <2>3
  <1> QED
    BY <1>1, <1>3, <1>4 DEF Counted, audio

LEMMA CountedKeeps ==
  ASSUME CalibrationAssumption, DiagnosticAssumption, DiagnosticInv, Counted, [Next]_vars
  PROVE  Counted'
  <1>1. /\ now \in Nat
        /\ {SessionTimeout, Duration, MeasureInterval, MaxFrames, MaxRendered} \subseteq Nat
    BY DEF DiagnosticInv, CalibrationInv, TypeOK, CalibrationAssumption, DiagnosticAssumption
  <1>2. now + SessionTimeout \in Nat /\ now + Duration \in Nat /\ now + MeasureInterval \in Nat
    BY <1>1
  <1>3. /\ until \in Nat /\ nextMeasure \in Nat /\ MaxFrames \in Nat
        /\ captured \in Nat /\ next \in Nat /\ next <= captured
        /\ printed \in Nat /\ printed <= MaxFrames /\ captured <= printed
        /\ Measuring => Len(measure.queue) <= MaxRendered
    BY <1>1 DEF Counted
  <1>4. CASE CalibrationStep \/ Calibrated \/ UNCHANGED vars
    BY <1>4 DEF CalibrationStep, Calibrated, vars, diagnostic, audio, listening, Counted, Measuring
  <1>5. CASE Open \/ Connected
    <2>1. stage' \notin {"service", "read"} /\ UNCHANGED audio
      BY <1>5 DEF Open, OpenCapture, Connected
    <2>2. until' \in Nat /\ nextMeasure' \in Nat
      <3>1. CASE Open
        BY <1>2, <1>3, <3>1 DEF Open, listening
      <3>2. CASE Connected
        BY <1>1, <1>2, <3>2 DEF Connected
      <3> QED
        BY <1>5, <3>1, <3>2
    <2> QED
      BY <2>1, <2>2 DEF Counted, Measuring, audio
  <1>6. CASE NotConnected \/ RunFails \/ Finish
    BY <1>6 DEF NotConnected, RunFails, Finish, audio, listening, Counted, Measuring
  <1>7. CASE CaptureFrame
    <2>1. /\ printed < MaxFrames /\ printed' = printed + 1 /\ captured' = captured + 1
          /\ UNCHANGED <<stage, until, next, measure, nextMeasure>>
      BY <1>7 DEF CaptureFrame, listening
    <2>2. /\ printed + 1 \in 0..MaxFrames
          /\ captured + 1 \in 0..(printed + 1)
          /\ next \in 0..(captured + 1)
      BY <1>3, <2>1, OneMore
    <2>3. /\ printed' \in 0..MaxFrames /\ captured' \in 0..printed' /\ next' \in 0..captured'
      BY <2>1, <2>2
    <2> QED
      BY <1>3, <2>1, <2>3 DEF Counted, Measuring
  <1>8. CASE Reconnect
    <2>1. /\ captured' = 0 /\ next' = 0
          /\ UNCHANGED <<stage, until, printed, measure, nextMeasure>>
      BY <1>8 DEF Reconnect, listening
    <2>2. printed \in 0..MaxFrames /\ 0 \in 0..printed /\ 0 \in 0..0
      BY <1>3
    <2> QED
      BY <1>3, <2>1, <2>2 DEF Counted, Measuring
  <1>9. CASE RenderBetween
    <2>1. stage = "idle" /\ UNCHANGED <<stage, until, nextMeasure>>
      BY <1>9 DEF RenderBetween
    <2>2. \E s \in next..(captured - 1) : next' = s + 1 /\ UNCHANGED <<captured, printed>>
      BY <1>9 DEF RenderBetween, Renders
    <2>3. next' \in 0..captured
      BY <1>3, <2>2
    <2> QED
      BY <2>1, <2>2, <2>3 DEF Counted, Measuring
  <1>10. CASE BeginMeasure
    <2>1. /\ nextMeasure' = now + MeasureInterval /\ measure'.queue = <<>>
          /\ UNCHANGED <<until, captured, printed, next>>
      BY <1>10 DEF BeginMeasure, audio
    <2>2. Len(<<>>) <= MaxRendered
      BY <1>1
    <2> QED
      BY <1>2, <2>1, <2>2 DEF Counted
  <1> QED
    BY <1>4, <1>5, <1>6, <1>7, <1>8, <1>9, <1>10, CountedInService, CountedInRead
       DEF Next, DiagnosticStep

-----------------------------------------------------------------------------
(* Every step keeps the sample that is taken, and the types of the report. *)

LEMMA SampleTakenKeeps ==
  ASSUME CalibrationAssumption, DiagnosticInv, SampleTaken, [Next]_vars
  PROVE  SampleTaken'
  <1>1. /\ program' = program /\ phase \in Phases
        /\ program = "client" => phase = "running"
        /\ phase = "calibrated" => applied \in Sample
        /\ program = "diagnose" /\ phase = "running" => used \in Sample
        /\ stage # "off" => used \in Sample
    <2>1. program' = program
      BY DEF Next, CalibrationStep, ProbingStep, Environment, SendProbe, ReceiveReply,
             ReceiveStranger, ReadTimesOut, Recalibrate, ReceiveCalibration, FirstSession,
             NewSession, AcceptStart, Restart, StartAgain, Relaunch, AnswerProbe, Tick, StepClock, DiagnosticStep, Calibrated, Proceed, Open, Connected,
             NotConnected, RunFails, CaptureFrame, Reconnect, RenderBetween, BeginMeasure, Service,
             Read, Finish, calibration, vars
    <2> QED
      BY <2>1 DEF SampleTaken, DiagnosticInv, CalibrationInv, TypeOK
  <1>2. CASE CalibrationStep /\ ReceiveReply
    <2>1. phase = "wait" /\ UNCHANGED <<stage, used>>
      BY <1>2 DEF CalibrationStep, ReceiveReply, diagnostic
    <2>2. PICK r \in replies :
            \/ Valid(r) /\ Update(r) /\ NextProbe
            \/ phase' = IF AttemptsLeft(attempt) THEN "probe" ELSE "failed"
            \/ phase' = "failed"
      BY <1>2 DEF ReceiveReply
    <2>3. CASE Valid(r) /\ Update(r) /\ NextProbe
      <3>1. UNCHANGED clocks
        BY <1>2 DEF ReceiveReply, clocks
      <3>2. applied' \in Sample
        BY <2>3, <3>1, SampleTrusted DEF DiagnosticInv
      <3>3. phase' # "running"
        BY <2>3 DEF NextProbe
      <3> QED
        BY <1>1, <2>1, <3>2, <3>3 DEF SampleTaken
    <2>4. CASE phase' \in {"probe", "failed"}
      BY <1>1, <2>1, <2>4 DEF SampleTaken
    <2> QED
      BY <2>2, <2>3, <2>4
  <1>3. CASE CalibrationStep /\ (ReceiveCalibration \/ Relaunch)
    <2>1. phase = "running" /\ UNCHANGED <<phase, stage, used>>
      BY <1>1, <1>3 DEF CalibrationStep, ReceiveCalibration, Relaunch, probing, diagnostic
    <2> QED
      BY <1>1, <2>1 DEF SampleTaken
  <1>4. CASE CalibrationStep /\ (SendProbe \/ ReceiveStranger \/ ReadTimesOut)
    <2>1. /\ phase # "running" /\ phase' \in {"wait", "failed"} /\ UNCHANGED <<stage, used>>
      BY <1>4 DEF CalibrationStep, SendProbe, ReceiveStranger, ReadTimesOut, diagnostic
    <2> QED
      BY <1>1, <2>1 DEF SampleTaken
  <1>5. CASE CalibrationStep /\ (Recalibrate \/ FirstSession \/ NewSession \/ Restart \/ Environment)
    <2>1. UNCHANGED <<phase, applied, stage, used>>
      BY <1>5 DEF CalibrationStep, Recalibrate, FirstSession, NewSession, AcceptStart, Restart,
                  Environment, AnswerProbe, Tick,
                  StepClock, probing, tracker, diagnostic
    <2> QED
      BY <1>1, <2>1 DEF SampleTaken
  <1>6. CASE Calibrated
    <2>1. phase = "calibrated" /\ stage' = stage /\ phase' \in {"ended", "running"}
      BY <1>6 DEF Calibrated, Proceed
    <2>2. stage = "off"
      BY <2>1 DEF DiagnosticInv, Opened
    <2>3. program = "diagnose" => used' = applied
      BY <1>6 DEF Calibrated
    <2> QED
      BY <1>1, <2>1, <2>2, <2>3 DEF SampleTaken
  <1>7. CASE Open
    <2>1. program = "diagnose" /\ phase = "running" /\ UNCHANGED <<phase, applied, used>>
      BY <1>7 DEF Open, calibration, probing, tracker
    <2> QED
      BY <1>1, <2>1 DEF SampleTaken
  <1>8. CASE \/ Connected \/ NotConnected \/ RunFails \/ CaptureFrame \/ Reconnect
             \/ RenderBetween \/ BeginMeasure \/ Service \/ Read \/ Finish
    <2>1. stage # "off" /\ UNCHANGED <<phase, applied, used>>
      BY <1>8 DEF Connected, NotConnected, RunFails, InSession, CaptureFrame, Reconnect,
                  FirstSession, NewSession, AcceptStart, StartAgain, RenderBetween, BeginMeasure,
                  Service, Read, Finish, calibration,
                  probing, tracker
    <2> QED
      BY <1>1, <2>1 DEF SampleTaken
  <1>9. CASE UNCHANGED vars
    BY <1>1, <1>9 DEF SampleTaken, vars, calibration, probing, tracker, diagnostic
  <1> QED
    BY <1>2, <1>3, <1>4, <1>5, <1>6, <1>7, <1>8, <1>9
       DEF Next, CalibrationStep, ProbingStep, DiagnosticStep

LEMMA ReadFinds ==
  ASSUME CalibrationAssumption, DiagnosticAssumption, DiagnosticInv, Read
  PROVE  (\E n, first : NoTone(n, first)) \/ (\E onset \in Int : Found(onset))
  <1> DEFINE First(n) == IF measure.first = None /\ n > 0 THEN ClientTime ELSE measure.first
  <1>1. PICK n \in 0..(Elapsed - measure.windows) :
          NoTone(n, First(n)) \/ \E w \in 0..(n - 1) : Found(OnsetOf(First(n), w))
    BY DEF Read
  <1>2. \A w \in 0..(n - 1) : OnsetOf(First(n), w) \in Int
    BY OnsetIsTime DEF Read
  <1> QED
    BY <1>1, <1>2

(* A frame that fits is one that the diagnostic remembers.                 *)
LEMMA FittingStamp ==
  ASSUME DiagnosticInv, stage = "read", NEW onset \in Int, NEW h \in ForOnset(onset)
  PROVE  h \in Stamp /\ (h \in StampsOf(measure.queue) \/ (h = baseline /\ baseline # None))
  <1>1. h \in StampsOf(measure.queue) \/ (h = baseline /\ baseline # None)
    BY Fits
  <1>2. measure.queue \in Seq(Stamp)
    BY DEF DiagnosticInv, DiagnosticTyped, Measuring, Measurement
  <1>3. h \in StampsOf(measure.queue) => h \in Stamp
    BY <1>2, ElementOfSeq DEF StampsOf
  <1> QED
    BY <1>1, <1>3 DEF DiagnosticInv, DiagnosticTyped

LEMMA ReportedKeeps ==
  ASSUME CalibrationAssumption, DiagnosticAssumption, DiagnosticInv, SampleTaken, Reported,
         [Next]_vars
  PROVE  Reported'
  <1>1. CASE \/ CalibrationStep \/ Calibrated \/ Open \/ Connected \/ NotConnected \/ RunFails
             \/ CaptureFrame \/ Reconnect \/ BeginMeasure \/ Finish \/ UNCHANGED vars
    <2>1. history' = history /\ report' \in {report, None}
      BY <1>1 DEF CalibrationStep, Calibrated, Open, Connected, NotConnected, RunFails,
                  CaptureFrame, Reconnect, BeginMeasure, Finish, vars, diagnostic, audio, listening
    <2> QED
      BY <2>1 DEF Reported
  <1>2. CASE RenderBetween \/ Service
    <2>1. report' = report
      BY <1>2 DEF RenderBetween, Service
    <2>2. history' = history \/ \E s \in next..(captured - 1) : Renders(s)
      BY <1>2 DEF RenderBetween, Service, audio
    <2>3. history' \subseteq Stamp
      BY <2>2, RenderedStamp DEF Renders, Reported
    <2> QED
      BY <2>1, <2>3 DEF Reported
  <1>3. CASE Read
    <2>1. history' = history /\ stage = "read" /\ used \in Sample
      BY <1>3 DEF Read, audio, SampleTaken
    <2>2. CASE \E n, first : NoTone(n, first)
      BY <2>1, <2>2 DEF NoTone, listening, Reported
    <2>3. CASE \E onset \in Int : Found(onset)
      <3>1. PICK onset \in Int : Found(onset)
        BY <2>3
      <3>2. CASE UNCHANGED listening
        BY <2>1, <3>2 DEF listening, Reported
      <3>3. CASE \E h \in ForOnset(onset) :
                   report' = [frame |-> h, onset |-> onset, server |-> TranslateToServer(onset),
                              passed |-> {g \in history : h.at < g.at /\ g.at <= onset}]
        <4>1. TranslateToServer(onset) \in Int
          BY <2>1 DEF TranslateToServer, Sample
        <4>2. \A h \in ForOnset(onset) : h \in Stamp
          BY <2>1, FittingStamp
        <4> QED
          BY <2>1, <3>3, <4>1, <4>2 DEF Report, Reported
      <3> QED
        BY <3>1, <3>2, <3>3 DEF Found
    <2> QED
      BY <1>3, <2>2, <2>3, ReadFinds
  <1> QED
    BY <1>1, <1>2, <1>3 DEF Next, DiagnosticStep

-----------------------------------------------------------------------------
(* Every step keeps what is remembered.                                    *)

LEMMA SteadyClock ==
  ASSUME CalibrationAssumption, DiagnosticInv, CalibrationInv', ClocksMove, used' = used, Steady'
  PROVE  Steady /\ ClientTime \in Int /\ ClientTime' \in Int /\ ClientTime <= ClientTime'
  <1>1. /\ now \in Int /\ now' \in Int /\ clientClock \in Int /\ clientClock' \in Int
        /\ steps \in Nat /\ steps' \in Nat
    BY DEF DiagnosticInv, CalibrationInv, TypeOK, CalibrationAssumption
  <1>2. Steady
    BY <1>1, UsedStays
  <1>3. steps' = steps
    BY <1>2 DEF Steady
  <1>4. clientClock' = clientClock /\ now <= now'
    BY <1>1, <1>3 DEF ClocksMove
  <1>5. ClientTime = now + clientClock /\ ClientTime' = now' + clientClock
    BY <1>4 DEF ClientTime
  <1>6. /\ now + clientClock \in Int /\ now' + clientClock \in Int
        /\ now + clientClock <= now' + clientClock
    BY <1>1, <1>4, LaterIsMore
  <1> QED
    BY <1>2, <1>5, <1>6

LEMMA NotLater ==
  ASSUME NEW a \in Int, NEW b \in Int, NEW c \in Int, a <= b, b <= c
  PROVE  a <= c
  OBVIOUS

(* Steps that render and report nothing.                                   *)
LEMMA RememberedStays ==
  ASSUME CalibrationAssumption, DiagnosticInv, CalibrationInv', ClocksMove,
         Reported, Remembered, OnsetNamesLastRendered,
         UNCHANGED <<used, history, baseline>>, report' \in {report, None},
         Measuring' => Measuring /\ measure'.queue = measure.queue,
         stage' \in {"off", "connecting"} => stage \in {"off", "connecting"},
         stage' = "idle" => stage \in {"idle", "connecting"}
  PROVE  Remembered' /\ OnsetNamesLastRendered'
  <1>1. stage' \in {"off", "connecting"} => history' = {}
    BY DEF Remembered
  <1>2. ASSUME Steady'
        PROVE  /\ Steady
               /\ \A g \in history' : g.at <= ClientTime'
               /\ stage' = "idle" /\ baseline' # None => \A g \in history' : g.at <= baseline'.at
               /\ Measuring' =>
                    \A g \in history' : g \in StampsOf(measure'.queue) \/ Precedes(g)'
    <2>1. Steady /\ ClientTime \in Int /\ ClientTime' \in Int /\ ClientTime <= ClientTime'
      BY <1>2, SteadyClock
    <2>2. \A g \in history : g.at \in Int /\ g.at <= ClientTime
      BY <2>1 DEF Remembered, Reported, Stamp
    <2>3. \A g \in history : g.at <= ClientTime'
      BY <2>1, <2>2, NotLater
    <2>4. stage' = "idle" /\ baseline # None => \A g \in history : g.at <= baseline.at
      BY <2>1 DEF Remembered
    <2>5. Measuring' => \A g \in history : g \in StampsOf(measure'.queue) \/ Precedes(g)'
      BY <2>1 DEF Remembered, Precedes
    <2> QED
      BY <2>1, <2>3, <2>4, <2>5
  <1>3. Remembered'
    BY <1>1, <1>2 DEF Remembered
  <1>4. OnsetNamesLastRendered'
    BY <1>2 DEF OnsetNamesLastRendered
  <1> QED
    BY <1>3, <1>4

(* A frame that is rendered is the last of all.                            *)
LEMMA RememberedInRenderBetween ==
  ASSUME CalibrationAssumption, DiagnosticInv, Reported, Remembered, OnsetNamesLastRendered,
         RenderBetween
  PROVE  Remembered' /\ OnsetNamesLastRendered'
  <1>1. PICK s \in next..(captured - 1) :
          Renders(s) /\ baseline' = [sequence |-> s, at |-> ClientTime]
    BY DEF RenderBetween
  <1>2. UNCHANGED <<calibration, stage, report, used>> /\ stage = "idle"
    BY DEF RenderBetween
  <1>3. UNCHANGED <<Steady, ClientTime>>
    BY <1>2 DEF calibration, clocks, Steady, ClientTime
  <1>4. ClientTime \in Int /\ baseline'.at = ClientTime
    <2>1. ClientTime \in Int
      BY RenderedStamp
    <2>2. baseline'.at = ClientTime
      BY <1>1
    <2> QED
      BY <2>1, <2>2
  <1>5. history' = history \cup {[sequence |-> s, at |-> ClientTime]}
    BY <1>1 DEF Renders
  <1>6. Steady => \A g \in history' : g.at <= ClientTime
    BY <1>4, <1>5 DEF Remembered
  <1>7. Remembered'
    BY <1>2, <1>3, <1>4, <1>6 DEF Remembered, Measuring
  <1>8. OnsetNamesLastRendered'
    BY <1>2, <1>3 DEF OnsetNamesLastRendered
  <1> QED
    BY <1>7, <1>8

LEMMA RememberedInService ==
  ASSUME CalibrationAssumption, DiagnosticAssumption, DiagnosticInv, Reported, Remembered,
         OnsetNamesLastRendered, NEW s \in next..(captured - 1), ObservedInService(s),
         Measuring, Measuring', UNCHANGED <<calibration, baseline, report, used>>
  PROVE  Remembered' /\ OnsetNamesLastRendered'
  <1> DEFINE h == [sequence |-> s, at |-> ClientTime]
  <1>1. h \in Stamp /\ ClientTime \in Int
    BY RenderedStamp
  <1>2. history' = history \cup {h}
    BY DEF ObservedInService, Renders
  <1>3. h.at = ClientTime
    OBVIOUS
  <1>4. StampsOf(measure'.queue) = StampsOf(measure.queue) \cup {h}
    BY QueueGrows
  <1> HIDE DEF h
  <1>5. UNCHANGED <<Steady, ClientTime>>
    BY DEF calibration, clocks, Steady, ClientTime
  <1>6. ASSUME Steady
        PROVE  /\ \A g \in history' : g.at <= ClientTime
               /\ \A g \in history' : g \in StampsOf(measure'.queue) \/ Precedes(g)'
    <2>1. \A g \in history : g.at <= ClientTime
      BY <1>6 DEF Remembered
    <2>2. \A g \in history' : g.at <= ClientTime
      BY <1>1, <1>2, <1>3, <2>1
    <2>3. \A g \in history : g \in StampsOf(measure.queue) \/ Precedes(g)
      BY <1>6 DEF Remembered
    <2>4. \A g \in history : Precedes(g) => Precedes(g)'
      BY <1>3, <1>4, <2>1 DEF Precedes
    <2> QED
      BY <1>2, <1>4, <2>2, <2>3, <2>4
  <1>7. Remembered'
    BY <1>5, <1>6 DEF Remembered, Measuring
  <1>8. OnsetNamesLastRendered'
    BY <1>5 DEF OnsetNamesLastRendered
  <1> QED
    BY <1>7, <1>8

LEMMA RememberedInBegin ==
  ASSUME CalibrationAssumption, DiagnosticInv, Remembered, BeginMeasure
  PROVE  Remembered' /\ OnsetNamesLastRendered'
  <1>1. /\ stage = "idle" /\ stage' = "service" /\ report' = None
        /\ UNCHANGED <<calibration, history, baseline, used>>
        /\ measure'.queue = <<>>
    BY DEF BeginMeasure, audio
  <1>2. UNCHANGED <<Steady, ClientTime>>
    BY <1>1 DEF calibration, clocks, Steady, ClientTime
  <1>3. StampsOf(<<>>) = {}
    BY EmptySeq DEF StampsOf
  <1>4. Steady => \A g \in history' : Precedes(g)'
    BY <1>1, <1>3 DEF Remembered, Precedes
  <1> QED
    BY <1>1, <1>2, <1>4 DEF Remembered, OnsetNamesLastRendered

(* The latest frame of those that fit is the last that was rendered before *)
(* the onset: one that passed by would fit, or precede it.                 *)
LEMMA NothingPassed ==
  ASSUME DiagnosticInv, Reported, Remembered, Steady, stage = "read",
         NEW onset \in Int, NEW h \in ForOnset(onset)
  PROVE  /\ h.at <= onset
         /\ {g \in history : h.at < g.at /\ g.at <= onset} = {}
  <1>1. h.at <= onset
    BY Fits
  <1>2. h \in Stamp /\ (h \in StampsOf(measure.queue) \/ (h = baseline /\ baseline # None))
    BY FittingStamp
  <1>3. \A g \in StampsOf(measure.queue) : g.at <= onset => g.at <= h.at
    BY DEF ForOnset, AtOrBefore, StampsOf
  <1>4. ASSUME NEW g \in history, g.at <= onset
        PROVE  g.at <= h.at
    <2>1. g \in StampsOf(measure.queue) \/ Precedes(g)
      BY DEF Remembered, Measuring
    <2>2. CASE g \in StampsOf(measure.queue)
      BY <1>3, <1>4, <2>2
    <2>3. CASE Precedes(g)
      BY <1>2, <2>3 DEF Precedes
    <2> QED
      BY <2>1, <2>2, <2>3
  <1>5. \A g \in history : g.at \in Int /\ h.at \in Int
    BY <1>2 DEF Reported, Stamp
  <1>6. \A g \in history : ~(h.at < g.at /\ g.at <= onset)
    BY <1>4, <1>5
  <1> QED
    BY <1>1, <1>6

LEMMA RememberedInRead ==
  ASSUME CalibrationAssumption, DiagnosticAssumption, DiagnosticInv, CalibrationInv', ClocksMove,
         Reported, Remembered, OnsetNamesLastRendered, Read
  PROVE  Remembered' /\ OnsetNamesLastRendered'
  <1>1. stage = "read" /\ Measuring /\ UNCHANGED <<calibration, until, audio, used>>
    BY DEF Read, Measuring
  <1>2. UNCHANGED <<history, Steady, ClientTime>>
    BY <1>1 DEF calibration, clocks, audio, Steady, ClientTime
  <1>3. CASE \E n, first : NoTone(n, first)
    <2>1. stage' \in {"failed", "service"} /\ UNCHANGED <<baseline, report>>
      BY <1>3 DEF NoTone, listening
    <2>2. measure \in Measurement
      BY <1>1 DEF DiagnosticInv, DiagnosticTyped
    <2>3. Measuring' => measure'.queue = measure.queue
      BY <1>3, <2>2 DEF NoTone, Measuring, listening, Measurement
    <2> QED
      BY <1>1, <1>2, <2>1, <2>3, RememberedStays
  <1>4. CASE \E onset \in Int : Found(onset)
    <2>1. PICK onset \in Int : Found(onset)
      BY <1>4
    <2>2. CASE stage' = "failed" /\ UNCHANGED listening
      BY <1>1, <1>2, <2>2, RememberedStays DEF listening, Measuring
    <2>3. CASE \E h \in ForOnset(onset) :
                 /\ report' = [frame |-> h, onset |-> onset, server |-> TranslateToServer(onset),
                               passed |-> {g \in history : h.at < g.at /\ g.at <= onset}]
                 /\ stage' = "idle"
                 /\ baseline' = None
      <3>1. PICK h \in ForOnset(onset) :
              report' = [frame |-> h, onset |-> onset, server |-> TranslateToServer(onset),
                         passed |-> {g \in history : h.at < g.at /\ g.at <= onset}]
        BY <2>3
      <3>2. /\ report'.frame = h /\ report'.onset = onset
            /\ report'.passed = {g \in history : h.at < g.at /\ g.at <= onset}
        BY <3>1
      <3>3. Steady => report'.frame.at <= report'.onset /\ report'.passed = {}
        BY <1>1, <3>2, NothingPassed
      <3>4. OnsetNamesLastRendered'
        BY <1>2, <3>3 DEF OnsetNamesLastRendered
      <3>5. Remembered'
        BY <1>2, <2>3 DEF Remembered, Measuring
      <3> QED
        BY <3>4, <3>5
    <2> QED
      BY <2>1, <2>2, <2>3 DEF Found
  <1> QED
    BY <1>3, <1>4, ReadFinds

LEMMA RememberedKeeps ==
  ASSUME CalibrationAssumption, DiagnosticAssumption, DiagnosticInv, Reported, Remembered,
         OnsetNamesLastRendered, CalibrationInv', ClocksMove, [Next]_vars
  PROVE  Remembered' /\ OnsetNamesLastRendered'
  <1>1. CASE Calibrated
    <2>1. stage = "off"
      BY <1>1 DEF Calibrated, Proceed, DiagnosticInv, Opened
    <2>2. stage' = "off" /\ history' = {} /\ report' = None
      BY <1>1, <2>1 DEF Calibrated, audio, listening, Remembered, DiagnosticInv, Opened
    <2> QED
      BY <2>2 DEF Remembered, Measuring, OnsetNamesLastRendered
  <1>2. CASE \/ CalibrationStep \/ Open \/ Connected \/ NotConnected \/ RunFails \/ CaptureFrame
             \/ Reconnect \/ Finish \/ UNCHANGED vars
    <2>1. UNCHANGED <<used, history, baseline, measure, report>>
      BY <1>2 DEF CalibrationStep, Open, Connected, NotConnected, RunFails, CaptureFrame,
                  Reconnect, Finish, vars, diagnostic, audio, listening
    <2>2. \/ stage' = stage
          \/ stage = "off" /\ stage' \in {"connecting", "failed"}
          \/ stage = "connecting" /\ stage' = "idle"
          \/ stage' \in {"failed", "stopped"}
      BY <1>2 DEF CalibrationStep, Open, OpenCapture, Connected, NotConnected, RunFails,
                  CaptureFrame, Reconnect, Finish, vars, diagnostic
    <2> QED
      BY <2>1, <2>2, RememberedStays DEF Measuring
  <1>3. CASE Service
    <2>1. /\ Measuring /\ Measuring' /\ stage' = "read"
          /\ UNCHANGED <<calibration, baseline, report, used>>
      BY <1>3 DEF Service, Measuring
    <2>2. CASE UNCHANGED <<measure, audio>>
      BY <2>1, <2>2, RememberedStays DEF audio
    <2>3. CASE \E s \in next..(captured - 1) : ObservedInService(s)
      BY <2>1, <2>3, RememberedInService
    <2> QED
      BY <1>3, <2>2, <2>3 DEF Service, ObservedInService
  <1> QED
    BY <1>1, <1>2, <1>3, RememberedInRenderBetween, RememberedInBegin, RememberedInRead
       DEF Next, DiagnosticStep

LEMMA OnsetNamedInitially ==
  ASSUME CalibrationAssumption, DiagnosticAssumption, Init
  PROVE  OnsetNamedInv
  <1>1. DiagnosticInv
    BY DiagnosticInitially
  <1>2. Counted
    BY DEF Init, Counted, Measuring, DiagnosticAssumption
  <1>3. SampleTaken
    BY DEF Init, CalibrationInit, SampleTaken
  <1>4. Reported /\ Remembered /\ OnsetNamesLastRendered
    BY DEF Init, Reported, Remembered, Measuring, OnsetNamesLastRendered
  <1> QED
    BY <1>1, <1>2, <1>3, <1>4 DEF OnsetNamedInv

LEMMA OnsetNamedKeeps ==
  ASSUME CalibrationAssumption, DiagnosticAssumption, OnsetNamedInv, [Next]_vars
  PROVE  OnsetNamedInv'
  <1>1. DiagnosticInv' /\ CalibrationInv'
    BY DiagnosticKeeps DEF OnsetNamedInv, DiagnosticInv
  <1>2. ClocksMove
    <2>1. CASE Next
      BY <2>1, ClocksMoveOnly DEF OnsetNamedInv, DiagnosticInv
    <2>2. CASE UNCHANGED vars
      BY <2>2 DEF vars, calibration, clocks, ClocksMove, OnsetNamedInv, DiagnosticInv,
                  CalibrationInv, TypeOK, CalibrationAssumption
    <2> QED
      BY <2>1, <2>2
  <1>3. Counted' /\ SampleTaken' /\ Reported'
    BY CountedKeeps, SampleTakenKeeps, ReportedKeeps DEF OnsetNamedInv
  <1>4. Remembered' /\ OnsetNamesLastRendered'
    BY <1>1, <1>2, RememberedKeeps DEF OnsetNamedInv
  <1> QED
    BY <1>1, <1>3, <1>4 DEF OnsetNamedInv

LEMMA OnsetNamed ==
  ASSUME CalibrationAssumption, DiagnosticAssumption, OnsetNamedInv
  PROVE  OnsetInv
  <1>1. TypeOK /\ stage \in Stages /\ lines \subseteq Stamp /\ baseline \in Stamp \cup {None}
    BY DEF OnsetNamedInv, DiagnosticInv, CalibrationInv, DiagnosticTyped
  <1>2. /\ until \in Nat /\ nextMeasure \in Nat
        /\ captured \in 0..MaxFrames /\ next \in 0..captured /\ printed \in 0..MaxFrames
    BY DEF OnsetNamedInv, Counted, DiagnosticAssumption
  <1>3. history \subseteq Stamp /\ (report # None => report \in Report)
    BY DEF OnsetNamedInv, Reported
  <1>4. stage \in {"service", "read"} => measure \in Measurement /\ Len(measure.queue) <= Capacity
    <2> SUFFICES ASSUME Measuring
                 PROVE  measure \in Measurement /\ Len(measure.queue) <= Capacity
      BY DEF Measuring
    <2>1. measure \in Measurement /\ measure.queue \in Seq(Stamp)
      BY DEF OnsetNamedInv, DiagnosticInv, DiagnosticTyped, Measurement
    <2>2. Len(measure.queue) \in Nat
      BY <2>1, LenProperties
    <2>3. Len(measure.queue) <= MaxRendered
      BY DEF OnsetNamedInv, Counted
    <2> QED
      BY <2>1, <2>2, <2>3, Limits
  <1>5. used \in IF stage = "off" THEN Sample \cup {None} ELSE Sample
    BY DEF OnsetNamedInv, SampleTaken, DiagnosticInv, DiagnosticTyped
  <1> QED
    BY <1>1, <1>2, <1>3, <1>4, <1>5 DEF OnsetInv, DiagnosticTypeOK, OnsetNamedInv

(* The frame that is printed with an onset is the last that was rendered at*)
(* or before it, unless a clock was stepped: neither the baseline, which is*)
(* forgotten after every measurement, nor the bounded queue loses the one  *)
(* that counts. The limits of the attempts and of the queue are kept.      *)
THEOREM OnsetsNameLastRendered == Spec => []OnsetInv
  <1>1. Init => OnsetNamedInv
    BY CalibrationAssumption, DiagnosticAssumption, OnsetNamedInitially
  <1>2. OnsetNamedInv /\ [Next]_vars => OnsetNamedInv'
    BY CalibrationAssumption, DiagnosticAssumption, OnsetNamedKeeps
  <1>3. OnsetNamedInv => OnsetInv
    BY CalibrationAssumption, DiagnosticAssumption, OnsetNamed
  <1> QED
    BY <1>1, <1>2, <1>3, PTL DEF Spec

=============================================================================
