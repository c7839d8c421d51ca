--------------------------- MODULE LatencyDiagnostic ---------------------------
(***************************************************************************)
(* wifimic_client --diagnose-latency (latency_diagnostic*.rs) beside a     *)
(* server started with it (diagnostic_capture.rs). The client calibrates   *)
(* once, opens a session, and once a second listens on the far end of the  *)
(* virtual cable for a tone: it prints which frame was rendered last       *)
(* before the tone began, and when that was by the server's clock. The     *)
(* server prints when it captured each frame; whoever reads both gets the  *)
(* latency.                                                                *)
(*                                                                         *)
(* The tone, the cable and the playout are the environment: a frame is     *)
(* rendered some time after it was captured, or never, and the capture     *)
(* stream yields windows of sound with a tone or without.                  *)
(***************************************************************************)
EXTENDS ClockCalibration, Sequences

CONSTANTS
  SessionTimeout,   (* SESSION_ACK_TIMEOUT                                   *)
  Duration,         (* --duration-secs                                       *)
  MeasureInterval,  (* MEASUREMENT_INTERVAL                                  *)
  ToneTimeout,      (* TONE_CAPTURE_TIMEOUT                                  *)
  Capacity,         (* MAX_RENDER_CORRELATION_EVENTS                         *)
  WindowTime,       (* the time TONE_WINDOW_SAMPLES take                     *)
  MaxRendered,      (* how many frames the playout renders in ToneTimeout    *)
  MaxFrames         (* bound: frames captured                                *)

(* A measurement renders no more frames than the correlation holds: 50 of  *)
(* 5 ms, and the correlation has room for 128.                             *)
ASSUME DiagnosticAssumption ==
  /\ {SessionTimeout, Duration, MeasureInterval, ToneTimeout, MaxFrames, MaxRendered} \subseteq Nat
  /\ WindowTime \in Nat \ {0}
  /\ Capacity \in Nat \ {0}
  /\ MaxRendered <= Capacity

VARIABLES
  stage,        (* where the diagnostic is                                   *)
  until,        (* when the wait for the session, or the whole, is over      *)
  captured,     (* frames of the server's session                            *)
  lines,        (* the server's output                                       *)
  printed,      (* history: how often it printed a line                      *)
  next,         (* the first sequence that can still be rendered             *)
  history,      (* history: what was rendered                                *)
  baseline,     (* last_rendered                                             *)
  nextMeasure,  (* next_measurement                                          *)
  measure,      (* the measurement that is being made                        *)
  used,         (* the sample of the calibration that is used                *)
  report        (* the output of the last measurement                        *)

listening == <<baseline, nextMeasure, measure, report>>
audio == <<captured, lines, printed, next, history>>
diagnostic == <<stage, until, audio, listening, used>>

vars == <<calibration, diagnostic>>

Stages == {"off", "connecting", "idle", "service", "read", "stopped", "failed"}

(* A line of either output: a frame's sequence, and a time.                *)
Stamp == [sequence : Nat, at : Int]

Measurement == [deadline : Nat, first : Int \cup {None}, windows : Nat, queue : Seq(Stamp)]

Report == [frame : Stamp, onset : Int, server : Int, passed : SUBSET Stamp]

DiagnosticTypeOK ==
  /\ TypeOK
  /\ stage \in Stages
  /\ until \in Nat /\ nextMeasure \in Nat
  /\ captured \in 0..MaxFrames /\ next \in 0..captured
  /\ lines \subseteq Stamp /\ printed \in 0..MaxFrames
  /\ history \subseteq Stamp
  /\ baseline \in Stamp \cup {None}
  /\ stage \in {"service", "read"} => measure \in Measurement /\ Len(measure.queue) <= Capacity
  /\ used \in IF stage = "off" THEN Sample \cup {None} ELSE Sample
  /\ report # None => report \in Report

Init ==
  /\ CalibrationInit
  /\ stage = "off" /\ until = 0
  /\ captured = 0 /\ lines = {} /\ printed = 0 /\ next = 0 /\ history = {}
  /\ baseline = None /\ nextMeasure = 0 /\ measure = None
  /\ used = None /\ report = None

-----------------------------------------------------------------------------
(* The session                                                             *)

(* The offset is taken once, for the whole run.                            *)
Calibrated ==
  /\ Proceed
  /\ used' = IF program = "diagnose" THEN applied ELSE used
  /\ UNCHANGED <<stage, until, audio, listening>>

(* CaptureStream::open: the endpoint is looked up, initialized and started,*)
(* and any of it may fail.                                                 *)
OpenCapture == stage' \in {"connecting", "failed"}

(* Renderer and capture stream are opened, and a Start is sent.            *)
Open ==
  /\ program = "diagnose" /\ phase = "running" /\ stage = "off"
  /\ OpenCapture
  /\ until' = now + SessionTimeout
  /\ UNCHANGED <<calibration, audio, listening, used>>

Connected ==
  /\ stage = "connecting"
  /\ FirstSession
  /\ stage' = "idle"
  /\ until' = now + Duration
  /\ nextMeasure' = now
  /\ UNCHANGED <<audio, baseline, measure, report, used>>

NotConnected ==
  /\ stage = "connecting"
  /\ now >= until
  /\ stage' = "failed"
  /\ UNCHANGED <<calibration, until, audio, listening, used>>

InSession == stage \in {"connecting", "idle", "service", "read"}

(* The socket, the renderer or the capture stream reports an error: it ends*)
(* the run without a Stop, and the session is the server's to end.         *)
RunFails ==
  /\ InSession
  /\ stage' = "failed"
  /\ UNCHANGED <<calibration, until, audio, listening, used>>

(* The server prints the line before it sends the frame.                   *)
CaptureFrame ==
  /\ InSession
  /\ printed < MaxFrames
  /\ printed' = printed + 1
  /\ lines' = lines \cup {[sequence |-> captured, at |-> ServerTime]}
  /\ captured' = captured + 1
  /\ UNCHANGED <<calibration, stage, until, next, history, listening, used>>

(* A Start that is not acknowledged is sent again with a new session.      *)
StartAgain ==
  /\ stage = "connecting"
  /\ Fault
  /\ UNCHANGED <<clocks, network, program, probing, plane, tracker>>

(* Sequences begin again with a session; the output does not say so.       *)
Reconnect ==
  /\ InSession
  /\ StartAgain \/ NewSession
  /\ captured' = 0 /\ next' = 0
  /\ UNCHANGED <<stage, until, lines, printed, history, listening, used>>

(* A frame is due in the jitter buffer, and is stamped when it has been    *)
(* rendered.                                                               *)
Renders(s) ==
  /\ s \in next..(captured - 1)
  /\ next' = s + 1
  /\ history' = history \cup {[sequence |-> s, at |-> ClientTime]}
  /\ UNCHANGED <<captured, lines, printed>>

RenderBetween ==
  /\ stage = "idle"
  /\ \E s \in next..(captured - 1) :
       /\ Renders(s)
       /\ baseline' = [sequence |-> s, at |-> ClientTime]
  /\ UNCHANGED <<calibration, stage, until, nextMeasure, measure, report, used>>

-----------------------------------------------------------------------------
(* A measurement: measure_tone, pass by pass.                              *)

(* What the capture stream holds is discarded first.                       *)
BeginMeasure ==
  /\ stage = "idle"
  /\ now < until /\ now >= nextMeasure
  /\ stage' = "service"
  /\ nextMeasure' = now + MeasureInterval
  /\ measure' = [deadline |-> now + ToneTimeout, first |-> None, windows |-> 0, queue |-> <<>>]
  /\ report' = None
  /\ UNCHANGED <<calibration, until, audio, baseline, used>>

(* RenderCorrelation::observe: the oldest makes room.                      *)
Observed(queue, stamp) ==
  Append(IF Len(queue) = Capacity THEN Tail(queue) ELSE queue, stamp)

Service ==
  /\ stage = "service"
  /\ stage' = "read"
  /\ \/ UNCHANGED <<measure, audio>>
     \/ \E s \in next..(captured - 1) :
          /\ Len(measure.queue) < MaxRendered
          /\ Renders(s)
          /\ measure' = [measure EXCEPT !.queue = Observed(@, [sequence |-> s, at |-> ClientTime])]
  /\ UNCHANGED <<calibration, until, baseline, nextMeasure, report, used>>

(* Mutant: whatever was rendered before the tone was found will do.        *)
AnyStamp(onset, stamps) == stamps

AtOrBefore(onset, stamps) == {h \in stamps : h.at <= onset}

(* RenderCorrelation::sequence_for_onset.                                  *)
ForOnset(onset) ==
  LET stamps == {measure.queue[i] : i \in DOMAIN measure.queue} \cup ({baseline} \ {None})
      fitting == AtOrBefore(onset, stamps)
  IN  {h \in fitting : \A g \in fitting : g.at <= h.at}

(* Mutant: the offset is subtracted.                                       *)
TranslateBack(time) == time - used.offset

TranslateToServer(time) == time + used.offset

(* The measurement is over, and the run with it when no frame fits: an     *)
(* error leaves the session to the server's heartbeat timeout.             *)
Found(onset) ==
  \/ /\ ForOnset(onset) = {}
     /\ stage' = "failed"
     /\ UNCHANGED listening
  \/ \E h \in ForOnset(onset) :
       /\ report' = [frame |-> h, onset |-> onset, server |-> TranslateToServer(onset),
                     passed |-> {g \in history : h.at < g.at /\ g.at <= onset}]
       /\ stage' = "idle"
       /\ baseline' = None
       /\ measure' = None
       /\ UNCHANGED nextMeasure

NoTone(n, first) ==
  IF now >= measure.deadline
  THEN stage' = "failed" /\ UNCHANGED listening
  ELSE /\ stage' = "service"
       /\ measure' = [measure EXCEPT !.windows = @ + n, !.first = first]
       /\ UNCHANGED <<baseline, nextMeasure, report>>

(* The windows that have gone by since the stream was emptied.             *)
Elapsed == (now - (measure.deadline - ToneTimeout)) \div WindowTime

(* detect_tone_onset: a tone in the window w of those that were just read  *)
(* has begun as much after the first of all as windows lie between.        *)
OnsetOf(first, w) == first + (measure.windows + w) * WindowTime

(* n windows are read, and the first of all is stamped with the time.      *)
Read ==
  /\ stage = "read"
  /\ \E n \in 0..(Elapsed - measure.windows) :
       LET first == IF measure.first = None /\ n > 0 THEN ClientTime ELSE measure.first
       IN  \/ NoTone(n, first)
           \/ \E w \in 0..(n - 1) : Found(OnsetOf(first, w))
  /\ UNCHANGED <<calibration, until, audio, used>>

Finish ==
  /\ stage = "idle"
  /\ now >= until
  /\ stage' = "stopped"
  /\ UNCHANGED <<calibration, until, audio, listening, used>>

-----------------------------------------------------------------------------

Over == phase \in {"ended", "failed"} \/ stage \in {"stopped", "failed"}

(* What happens after the program's end is of no interest.                 *)
CalibrationStep ==
  /\ ~Over
  /\ \/ ProbingStep
     \/ (Recalibrate \/ ReceiveCalibration) /\ (program = "client" \/ InSession)
     \/ (FirstSession \/ NewSession) /\ program = "client"
     \/ Restart
     \/ Relaunch
     \/ Environment
  /\ UNCHANGED diagnostic

DiagnosticStep ==
  \/ Calibrated
  \/ Open
  \/ Connected
  \/ NotConnected
  \/ RunFails
  \/ CaptureFrame
  \/ Reconnect
  \/ RenderBetween
  \/ BeginMeasure
  \/ Service
  \/ Read
  \/ Finish

Next == CalibrationStep \/ DiagnosticStep

Spec == Init /\ [][Next]_vars

-----------------------------------------------------------------------------
(* Properties.                                                             *)

(* No clock was stepped since the probe of the calibration was sent.       *)
Steady == used # None /\ used.steady /\ used.steps = steps

(* The frame that is printed with an onset was rendered at or before it,   *)
(* and no other frame was rendered in between: neither the baseline, which *)
(* is forgotten after every measurement, nor the bounded queue loses the   *)
(* one that counts.                                                        *)
OnsetNamesLastRendered ==
  report # None /\ Steady => report.frame.at <= report.onset /\ report.passed = {}

(* The types, with the limits of the attempts and of the queue, and what   *)
(* the report says of the frames.                                          *)
OnsetInv == DiagnosticTypeOK /\ OnsetNamesLastRendered

(* The two outputs together never show a frame heard before it was         *)
(* captured by more than the calibration's error bound.                    *)
LatencyIsCausal ==
  report # None /\ Steady =>
    \E l \in lines : /\ l.sequence = report.frame.sequence
                     /\ l.at <= report.server + used.bound

=============================================================================
