--------------------------- MODULE ClockCalibration ---------------------------
(***************************************************************************)
(* How the client learns by how much the server's wall clock is ahead of   *)
(* its own (latency/calibration.rs): a probe with the client's time t1, a  *)
(* reply with the server's times t2 and t3, and the client's time t4 when  *)
(* it arrives. Two loops do it: calibrate_transport of main.rs, which      *)
(* waits for each reply, and the control plane, which sends a probe every  *)
(* RECALIBRATION_INTERVAL and goes on.                                     *)
(*                                                                         *)
(* Both clocks are wall clocks: they are offsets from true time, and may   *)
(* be stepped. Datagrams are delayed, reordered and lost by nature; steps, *)
(* duplicates, strangers and new sessions count against MaxFaults.         *)
(***************************************************************************)
EXTENDS Integers

CONSTANTS
  MaxRoundTrip,   (* MAX_CALIBRATION_ROUND_TRIP_US                           *)
  Threshold,      (* CLOCK_INSTABILITY_THRESHOLD_US                          *)
  ReadTimeout,    (* CALIBRATION_READ_TIMEOUT                                *)
  Interval,       (* RECALIBRATION_INTERVAL                                  *)
  ProbeCount,     (* CALIBRATION_PROBE_COUNT                                 *)
  MaxAttempts,    (* MAX_ROUND_TRIP_RETRY_ATTEMPTS                           *)
  Sequences,      (* 2^32, the range of the control plane's sequence         *)
  Programs,       (* what is run: "calibrate", "diagnose" or "client"        *)
  ClockSteps,     (* by how much a wall clock may be stepped                 *)
  MaxTime,        (* bound: true time                                        *)
  MaxFaults,      (* bound: faults                                           *)
  None

ASSUME CalibrationAssumption ==
  /\ {MaxRoundTrip, Threshold, ReadTimeout, Interval, MaxTime, MaxFaults} \subseteq Nat
  /\ {ProbeCount, MaxAttempts, Sequences} \subseteq Nat \ {0}
  /\ Programs \subseteq {"calibrate", "diagnose", "client"}
  /\ ClockSteps \subseteq Nat
  /\ None \notin Int

VARIABLES
  now,            (* true time                                               *)
  clientClock,    (* the client's wall clock, less true time                 *)
  serverClock,    (* the server's                                            *)
  steps,          (* history: how often a clock was stepped                  *)
  faults,         (* history: what went wrong                                *)
  probes,         (* probes in flight                                        *)
  replies,        (* replies in flight                                       *)
  program,        (* the program that was started                            *)
  phase,          (* where it is                                             *)
  sequence,       (* calibrate_transport: the probe it is at                 *)
  attempt,        (* calibrate_probe: how often it was sent                  *)
  waitUntil,      (* when its receive times out                              *)
  nextSequence,   (* calibration_sequence                                    *)
  outstanding,    (* outstanding_calibration_sequence                        *)
  due,            (* next_calibration_at, armed by the first session         *)
  applied,        (* the tracker's offset, with the sample it came from      *)
  previous        (* history: the sample the tracker had before              *)

clocks == <<now, clientClock, serverClock, steps>>
network == <<probes, replies>>
probing == <<phase, sequence, attempt, waitUntil>>
plane == <<nextSequence, outstanding, due>>
tracker == <<applied, previous>>

calibration == <<clocks, faults, network, program, probing, plane, tracker>>

ClientTime == now + clientClock
ServerTime == now + serverClock
TrueOffset == serverClock - clientClock

(* steps and truth are history: how often a clock had been stepped when    *)
(* the probe was sent, and the offset that was to be found. t3 is not      *)
(* used by anybody.                                                        *)
Probe == [sequence : Nat, t1 : Int, steps : Nat]
Reply == [sequence : Nat, t1 : Int, t2 : Int, steps : Nat]
Sample == [offset : Int, bound : Nat, warning : BOOLEAN, steps : Nat, steady : BOOLEAN, truth : Int]

Phases == {"probe", "wait", "calibrated", "running", "ended", "failed"}

TypeOK ==
  /\ now \in 0..MaxTime
  /\ clientClock \in Int /\ serverClock \in Int
  /\ faults \in 0..MaxFaults /\ steps \in 0..faults
  /\ probes \subseteq Probe
  /\ replies \subseteq Reply
  /\ program \in Programs
  /\ phase \in Phases
  /\ sequence \in 0..(ProbeCount - 1)
  /\ attempt \in 0..MaxAttempts
  /\ waitUntil \in Nat
  /\ nextSequence \in 0..(Sequences - 1)
  /\ outstanding \in 0..(Sequences - 1) \cup {None}
  /\ due \in Nat \cup {None}
  /\ applied \in Sample \cup {None}
  /\ previous \in Sample \cup {None}

(* A client has been streaming for a while.                                *)
CalibrationInit ==
  /\ now = 0
  /\ clientClock = 0 /\ serverClock = 0
  /\ steps = 0 /\ faults = 0
  /\ probes = {} /\ replies = {}
  /\ program \in Programs
  /\ phase = IF program = "client" THEN "running" ELSE "probe"
  /\ sequence = 0 /\ attempt = 0 /\ waitUntil = 0
  /\ nextSequence = 0 /\ outstanding = None
  /\ due \in IF program = "client" THEN 0..Interval ELSE {None}
  /\ applied = None /\ previous = None

Fault ==
  /\ faults < MaxFaults
  /\ faults' = faults + 1

(* What is received leaves the network, or was there twice.                *)
Taken(messages, m) ==
  \/ messages' = messages \ {m} /\ UNCHANGED faults
  \/ messages' = messages /\ Fault

-----------------------------------------------------------------------------
(* A sample (NtpSample::calibrate) and the tracker it updates.             *)

(* Mutant: the time of the latest attempt is remembered and used.          *)
SinceLatestSend(r) ==
  IF phase = "wait" THEN now - (waitUntil - ReadTimeout) ELSE ClientTime - r.t1

RoundTrip(r) == ClientTime - r.t1

InOrder(r) == RoundTrip(r) >= 0
TooLong(r) == RoundTrip(r) > MaxRoundTrip

Bound(r) == RoundTrip(r) \div 2

(* What t2 exceeds the middle of the exchange by.                          *)
OffsetOf(r) == r.t2 - (r.t1 + Bound(r))

(* Mutant: only a growing offset counts.                                   *)
Growth(a, b) == b - a

Difference(a, b) == IF a < b THEN b - a ELSE a - b

(* The client's time is checked before the length of the round trip.       *)
Valid(r) == InOrder(r) /\ ~TooLong(r)

Unstable(r) == applied # None /\ Difference(applied.offset, OffsetOf(r)) > Threshold

SampleOf(r, offset) ==
  [offset |-> offset, bound |-> Bound(r), warning |-> Unstable(r),
   steps |-> r.steps, steady |-> r.steps = steps, truth |-> TrueOffset]

Update(r) ==
  /\ applied' = SampleOf(r, OffsetOf(r))
  /\ previous' = applied

-----------------------------------------------------------------------------
(* calibrate_transport                                                     *)

(* Every attempt at a probe has its own time and the same sequence.        *)
Send(s) == probes' = probes \cup {[sequence |-> s, t1 |-> ClientTime, steps |-> steps]}

SendProbe ==
  /\ phase = "probe"
  /\ Send(sequence)
  /\ phase' = "wait"
  /\ attempt' = attempt + 1
  /\ waitUntil' = now + ReadTimeout
  /\ UNCHANGED <<clocks, faults, replies, program, sequence, plane, tracker>>

AttemptsLeft(n) == n < MaxAttempts

NextProbe ==
  /\ attempt' = 0
  /\ IF sequence + 1 < ProbeCount
     THEN phase' = "probe" /\ sequence' = sequence + 1
     ELSE phase' = "calibrated" /\ UNCHANGED sequence

(* The reply to an attempt that was given up is as good as any other: its  *)
(* own t1 is used. A reply to another sequence ends the calibration.       *)
ReceiveReply ==
  /\ phase = "wait"
  /\ \E r \in replies :
       /\ Taken(replies, r)
       /\ \/ /\ r.sequence = sequence /\ Valid(r)
             /\ Update(r)
             /\ NextProbe
          \/ /\ r.sequence = sequence /\ InOrder(r) /\ TooLong(r)
             /\ phase' = IF AttemptsLeft(attempt) THEN "probe" ELSE "failed"
             /\ UNCHANGED <<sequence, attempt, tracker>>
          \/ /\ r.sequence # sequence \/ ~InOrder(r)
             /\ phase' = "failed"
             /\ UNCHANGED <<sequence, attempt, tracker>>
  /\ waitUntil' = 0
  /\ UNCHANGED <<clocks, probes, program, plane>>

(* Any other datagram that reaches the socket ends it too.                 *)
ReceiveStranger ==
  /\ phase = "wait"
  /\ Fault
  /\ phase' = "failed" /\ waitUntil' = 0
  /\ UNCHANGED <<clocks, network, program, sequence, attempt, plane, tracker>>

(* Beyond the modelled time nothing comes any more.                        *)
ReadTimesOut ==
  /\ phase = "wait"
  /\ now >= waitUntil \/ now = MaxTime
  /\ phase' = "failed" /\ waitUntil' = 0
  /\ UNCHANGED <<clocks, faults, network, program, sequence, attempt, plane, tracker>>

(* --calibrate is done; --diagnose-latency opens a control plane, which    *)
(* has a tracker of its own, on the same socket, and no session yet.       *)
Proceed ==
  /\ phase = "calibrated"
  /\ IF program = "calibrate"
     THEN phase' = "ended" /\ UNCHANGED tracker
     ELSE phase' = "running" /\ applied' = None /\ previous' = None
  /\ UNCHANGED <<clocks, faults, network, program, sequence, attempt, waitUntil, plane>>

-----------------------------------------------------------------------------
(* The control plane                                                       *)

(* maybe_recalibrate                                                       *)
Recalibrate ==
  /\ phase = "running"
  /\ due # None /\ now >= due
  /\ Send(nextSequence)
  /\ outstanding' = nextSequence
  /\ nextSequence' = (nextSequence + 1) % Sequences
  /\ due' = now + Interval
  /\ UNCHANGED <<clocks, faults, replies, program, probing, tracker>>

(* receive_calibration: the sequence is all that ties a reply to the       *)
(* outstanding probe; a reply that is not valid is dropped with it.        *)
ReceiveCalibration ==
  /\ phase = "running"
  /\ \E r \in replies :
       /\ Taken(replies, r)
       /\ IF r.sequence = outstanding
          THEN /\ outstanding' = None
               /\ IF Valid(r) THEN Update(r) ELSE UNCHANGED tracker
          ELSE UNCHANGED <<outstanding, tracker>>
  /\ UNCHANGED <<clocks, probes, program, probing, nextSequence, due>>

(* accept_start: the probe that is outstanding is forgotten, whether the   *)
(* session is the first or follows another.                                *)
AcceptStart ==
  /\ phase = "running"
  /\ outstanding' = None
  /\ due' = now + Interval
  /\ UNCHANGED <<clocks, network, program, probing, nextSequence, tracker>>

FirstSession == due = None /\ AcceptStart /\ UNCHANGED faults

NewSession == due # None /\ AcceptStart /\ Fault

(* begin_establishing: the user restarts the session. The sequence and the *)
(* tracker stay.                                                           *)
Restart ==
  /\ program = "client"
  /\ Fault
  /\ outstanding' = None /\ due' = None
  /\ UNCHANGED <<clocks, network, program, probing, nextSequence, tracker>>

(* Another client process on the same port.                                *)
Relaunch ==
  /\ program = "client"
  /\ Fault
  /\ nextSequence' = 0 /\ outstanding' = None /\ due' = None
  /\ applied' = None /\ previous' = None
  /\ UNCHANGED <<clocks, network, program, probing>>

-----------------------------------------------------------------------------
(* The server and the clocks                                               *)

AnswerProbe ==
  /\ \E p \in probes :
       /\ Taken(probes, p)
       /\ replies' = replies \cup
            {[sequence |-> p.sequence, t1 |-> p.t1, t2 |-> ServerTime, steps |-> p.steps]}
  /\ UNCHANGED <<clocks, program, probing, plane, tracker>>

Tick ==
  /\ now < MaxTime
  /\ now' = now + 1
  /\ UNCHANGED <<clientClock, serverClock, steps, faults, network, program, probing, plane,
                 tracker>>

StepClock ==
  /\ Fault
  /\ steps' = steps + 1
  /\ \E d \in ClockSteps :
       \/ clientClock' \in {clientClock - d, clientClock + d} /\ UNCHANGED serverClock
       \/ serverClock' \in {serverClock - d, serverClock + d} /\ UNCHANGED clientClock
  /\ UNCHANGED <<now, network, program, probing, plane, tracker>>

ProbingStep ==
  \/ SendProbe
  \/ ReceiveReply
  \/ ReceiveStranger
  \/ ReadTimesOut

Environment ==
  \/ AnswerProbe
  \/ Tick
  \/ StepClock

-----------------------------------------------------------------------------
(* Properties.                                                             *)

(* An error within the bound, up to the unit that halving an odd round     *)
(* trip drops.                                                             *)
Within(s, error) == - s.bound <= error /\ error <= s.bound + 1

(* Whichever reply is taken, late, duplicated or of an earlier attempt,    *)
(* session or process: the offset that the tracker holds is wrong by no    *)
(* more than the bound, unless a clock was stepped during the exchange.    *)
OffsetWithinBound ==
  applied # None /\ applied.steady => Within(applied, applied.offset - applied.truth)

(* A warning tells of the clocks: a change of the true offset that the     *)
(* two samples can tell from their own errors is warned of, and a warning  *)
(* that is not about such a change means bounds beyond the threshold.      *)
ChangesAreWarned ==
  applied # None /\ previous # None /\ applied.steady /\ previous.steady =>
    LET change == Difference(applied.truth, previous.truth)
        slack == applied.bound + previous.bound + 1
    IN  /\ change > Threshold + slack => applied.warning
        /\ applied.warning => change + slack > Threshold

=============================================================================
