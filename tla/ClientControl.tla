---------------------------- MODULE ClientControl ----------------------------
(***************************************************************************)
(* The control plane of wifimic_client (control.rs, control_logic.rs) with *)
(* the part of the main loop and tray menu that drives it (main.rs,        *)
(* tray.rs). One client process runs at a time; its loop is one thread, so *)
(* each handler is one step. A process that is not running and a control   *)
(* plane that was stopped are the same state here: the loop breaks right   *)
(* after ControlPlane::stop.                                               *)
(*                                                                         *)
(* The jitter buffer is reduced to the session whose frames it holds.      *)
(***************************************************************************)
EXTENDS DatagramNetwork

CONSTANTS
  HeartbeatInterval,       (* HEARTBEAT_INTERVAL        5 s: 1 tick          *)
  ReconnectRetryInterval,  (* RECONNECT_RETRY_INTERVAL  5 s: 1 tick          *)
  StartAckTimeout,         (* START_ACK_TIMEOUT         5 s: 1 tick          *)
  MaxMissedHeartbeats,     (* MAX_MISSED_HEARTBEATS     2                    *)
  RecalibrationInterval    (* RECALIBRATION_INTERVAL   30 s: 6 ticks         *)

ASSUME ClientIntervalsAssumption ==
  /\ HeartbeatInterval \in Nat \ {0}
  /\ ReconnectRetryInterval \in Nat \ {0}
  /\ StartAckTimeout \in Nat \ {0}
  /\ MaxMissedHeartbeats \in Nat \ {0}
  /\ RecalibrationInterval \in Nat \ {0}

VARIABLES
  client,     (* the control plane of the running client process             *)
  issuedMax   (* history: the greatest session identifier any client issued  *)

ClientState == {"Establishing", "Streaming", "Unreachable", "Stopped"}

ClientRecord ==
  [ state       : ClientState,
    pending     : OptSessionId,
    accepted    : OptSessionId,
    lastIssued  : 0..MaxSession,
    startDeadline : Deadline(StartAckTimeout),
    nextHeartbeat : Deadline(HeartbeatInterval),
    nextRetry   : Deadline(ReconnectRetryInterval),
    missed      : 0..MaxMissedHeartbeats,
    jitter      : OptSessionId,
    probes      : 0..MaxProbes,
    outstanding : 0..MaxProbes \cup {None},
    nextCalibration : Deadline(RecalibrationInterval) ]

ClientTypeOK ==
  /\ client \in ClientRecord
  /\ issuedMax \in 0..MaxSession

NewClient ==
  [ state |-> "Establishing", pending |-> None, accepted |-> None,
    lastIssued |-> 0, startDeadline |-> None, nextHeartbeat |-> None,
    nextRetry |-> None, missed |-> 0, jitter |-> None,
    probes |-> 0, outstanding |-> None, nextCalibration |-> None ]

NoClient == [NewClient EXCEPT !.state = "Stopped"]

ClientUp == client.state # "Stopped"

ClientInit ==
  /\ client = NoClient
  /\ issuedMax = 0

-----------------------------------------------------------------------------
(* The private steps of the control plane, as functions of its state c.    *)

(* Drops the previous attempt of this process run; the identifier          *)
(* generator and the calibration sequence go on.                           *)
BeginEstablishing(c) ==
  [NewClient EXCEPT !.lastIssued = c.lastIssued, !.probes = c.probes]

(* Mutant: a Start whose Ack is awaited without a deadline.                *)
IssueStartUntimed(c, epoch) ==
  LET id == NextSessionId(epoch, c.lastIssued)
  IN  [c EXCEPT !.state = "Establishing", !.lastIssued = id, !.pending = id,
                !.accepted = None, !.nextRetry = None]

IssueStart(c, epoch) ==
  LET id == NextSessionId(epoch, c.lastIssued)
  IN  [c EXCEPT !.state = "Establishing",
                !.lastIssued = id,
                !.pending = id,
                !.accepted = None,
                !.startDeadline = StartAckTimeout,
                !.nextRetry = None]

(* Mutants: leaving Streaming with its audio, or without a retry.          *)
MarkUnreachableKeepsAudio(c) ==
  IF c.state = "Unreachable" THEN c
  ELSE [c EXCEPT !.state = "Unreachable", !.nextRetry = ReconnectRetryInterval]

MarkUnreachableForGood(c) ==
  [c EXCEPT !.state = "Unreachable", !.jitter = None]

MarkUnreachable(c) ==
  IF c.state = "Unreachable" THEN c
  ELSE [c EXCEPT !.state = "Unreachable",
                 !.nextRetry = ReconnectRetryInterval,
                 !.jitter = None]

(* Bound: once MaxProbes probes were sent no further one is scheduled.     *)
NextCalibration(c) ==
  IF c.probes < MaxProbes THEN RecalibrationInterval ELSE None

AcceptStart(c, id) ==
  [c EXCEPT !.state = "Streaming",
            !.pending = None,
            !.accepted = id,
            !.startDeadline = None,
            !.nextRetry = None,
            !.outstanding = None,
            !.nextHeartbeat = HeartbeatInterval,
            !.missed = 0,
            !.jitter = None,
            !.nextCalibration = NextCalibration(c)]

AcceptHeartbeat(c) ==
  [c EXCEPT !.state = "Streaming",
            !.nextRetry = None,
            !.nextHeartbeat = HeartbeatInterval,
            !.missed = 0]

(* A due heartbeat is sent and counted as missed until its Ack; reaching   *)
(* the limit makes the run unreachable in the same step.                   *)
AdvanceStreaming(c) ==
  LET counted == [c EXCEPT !.missed = @ + 1, !.nextHeartbeat = HeartbeatInterval]
  IN  IF counted.missed >= MaxMissedHeartbeats THEN MarkUnreachable(counted) ELSE counted

(* stop(): Stop names the pending attempt, else the accepted session.      *)
StopTarget(c) == IF c.pending # None THEN c.pending ELSE c.accepted

CalibrationDue(c) == c.state = "Streaming" /\ Due(c.nextCalibration) /\ c.probes < MaxProbes

MaybeRecalibrate(c) ==
  IF CalibrationDue(c)
  THEN [c EXCEPT !.outstanding = c.probes,
                 !.probes = @ + 1,
                 !.nextCalibration = IF c.probes + 1 < MaxProbes THEN RecalibrationInterval ELSE None]
  ELSE c

ProbesOf(c) == IF CalibrationDue(c) THEN {Datagram("Probe", c.probes)} ELSE {}

-----------------------------------------------------------------------------
(* The wall clock, read when an identifier is issued. It has moved past    *)
(* every identifier issued before, unless it was set back: then a running  *)
(* process is saved by its own last identifier, and a new process is not.  *)
ClockReading(epoch, cost, setBack) ==
  \/ epoch = issuedMax + 1 /\ cost = {}
  \/ epoch \in 1..issuedMax /\ cost = {setBack}

(* issue_start from state c, which also leaves the datagrams `out`.        *)
SendStart(c, out, epoch, cost) ==
  LET started == IssueStart(c, epoch)
  IN  /\ started.pending \in SessionId   \* bound: MaxSession
      /\ client' = started
      /\ issuedMax' = IF started.pending > issuedMax THEN started.pending ELSE issuedMax
      /\ Send(out \cup {Datagram("Start", started.pending)}, cost)

(* The logon task or the user starts a client process: ControlPlane::start *)
ClientLaunch ==
  /\ ~ClientUp
  /\ \E epoch \in SessionId, cost \in SUBSET {"clockBack"} :
       /\ ClockReading(epoch, cost, "clockBack")
       /\ SendStart(BeginEstablishing(NewClient), {}, epoch, cost)

(* Tray menu Restart: a fresh Start, no Stop for the session it replaces.  *)
ClientRestart ==
  /\ ClientUp
  /\ \E epoch \in SessionId, cost \in SUBSET {"staleClock"} :
       /\ ClockReading(epoch, cost, "staleClock")
       /\ SendStart(BeginEstablishing(client), {}, epoch, cost \cup {"menu"})

(* Mutant: Stop is sent and the control plane not reset.                   *)
ClientExitKeepsSession ==
  /\ ClientUp
  /\ UNCHANGED <<client, issuedMax>>
  /\ Send(IF StopTarget(client) = None THEN {}
          ELSE {Datagram("Stop", StopTarget(client))}, {"menu"})

(* Tray menu Exit: Stop is sent once and the loop ends without its Ack.    *)
ClientExit ==
  /\ ClientUp
  /\ client' = NoClient
  /\ Send(IF StopTarget(client) = None THEN {}
          ELSE {Datagram("Stop", StopTarget(client))}, {"menu"})
  /\ UNCHANGED issuedMax

(* The process dies: a crash, a transport or a render error.               *)
ClientCrash ==
  /\ ClientUp
  /\ client' = NoClient
  /\ Spend({"clientCrash"})
  /\ UNCHANGED <<net, issuedMax>>

-----------------------------------------------------------------------------
(* advance(now): recalibration first, then the timer of the state.         *)
TimerDue(c) ==
  \/ c.state = "Establishing" /\ Due(c.startDeadline)
  \/ c.state = "Unreachable" /\ Due(c.nextRetry)
  \/ c.state = "Streaming" /\ Due(c.nextHeartbeat)

(* Bound: with MaxSession issued, no deadline leads to another Start.      *)
ClientDue ==
  \/ CalibrationDue(client)
  \/ TimerDue(client) /\ (client.state = "Streaming" \/ issuedMax < MaxSession)

(* A Start unanswered for START_ACK_TIMEOUT, or the reconnect retry.       *)
AdvanceRestarts ==
  /\ client.state \in {"Establishing", "Unreachable"}
  /\ TimerDue(client)
  /\ \E epoch \in SessionId, cost \in SUBSET {"staleClock"} :
       /\ ClockReading(epoch, cost, "staleClock")
       /\ SendStart(MarkUnreachable(client), {}, epoch, cost)

(* A probe, a heartbeat, or both in one call.                              *)
AdvanceStreams ==
  /\ client.state = "Streaming"
  /\ ClientDue
  /\ LET probed == MaybeRecalibrate(client)
     IN  /\ client' = IF TimerDue(client) THEN AdvanceStreaming(probed) ELSE probed
         /\ Send(ProbesOf(client)
                   \cup IF TimerDue(client) THEN {Datagram("Heartbeat", client.accepted)} ELSE {},
                 {})
  /\ UNCHANGED issuedMax

ClientAdvance == AdvanceRestarts \/ AdvanceStreams

-----------------------------------------------------------------------------
(* receive_datagram, one action per kind.                                  *)

(* Mutant: a Start Ack is taken without comparing it with the attempt.     *)
ReceiveAnyStartAck(m) ==
  /\ m.type = "StartAck"
  /\ client' = AcceptStart(client, m.id)

ReceiveStartAck(m) ==
  /\ m.type = "StartAck"
  /\ client' = IF client.pending = m.id THEN AcceptStart(client, m.id) ELSE client

(* Any Ack of this session counts, however old the heartbeat it answers.   *)
ReceiveHeartbeatAck(m) ==
  /\ m.type = "HeartbeatAck"
  /\ client' = IF /\ client.accepted = m.id
                  /\ client.state \in {"Streaming", "Unreachable"}
               THEN AcceptHeartbeat(client)
               ELSE client

ReceiveStopAck(m) ==
  /\ m.type = "StopAck"
  /\ UNCHANGED client

ReceiveAudio(m) ==
  /\ m.type = "Audio"
  /\ client' = IF client.state = "Streaming" /\ client.accepted = m.id
               THEN [client EXCEPT !.jitter = m.id]
               ELSE client

(* The reply to the outstanding probe is consumed, whether or not its      *)
(* round trip is then found acceptable.                                    *)
ReceiveCalibration(m) ==
  /\ m.type = "Reply"
  /\ client' = IF client.outstanding = m.id
               THEN [client EXCEPT !.outstanding = None]
               ELSE client

ClientReceive(m) ==
  /\ ClientUp
  /\ m \in ToClient
  /\ \/ ReceiveStartAck(m)
     \/ ReceiveHeartbeatAck(m)
     \/ ReceiveStopAck(m)
     \/ ReceiveAudio(m)
     \/ ReceiveCalibration(m)
  /\ Receive(m, {}, {})
  /\ UNCHANGED issuedMax

(* Five seconds pass for the client's deadlines.                           *)
ClientElapse ==
  [client EXCEPT !.startDeadline = Elapse(@), !.nextHeartbeat = Elapse(@),
                 !.nextRetry = Elapse(@), !.nextCalibration = Elapse(@)]

=============================================================================
