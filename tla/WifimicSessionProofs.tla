------------------------- MODULE WifimicSessionProofs -------------------------
(***************************************************************************)
(* Proofs about WifimicSession, for every value of its constants: every    *)
(* number of sessions, faults and probes, every set of fault kinds and     *)
(* every length of the intervals.                                          *)
(***************************************************************************)
EXTENDS WifimicSession, FiniteSetTheorems, TLAPS

-----------------------------------------------------------------------------
(* Part 1: the client's private steps.                                     *)

(* The client's part of the inductive invariant, of a state c.             *)
ClientShape(c) ==
  /\ c \in ClientRecord
  /\ c.state = "Establishing" => c.startDeadline # None /\ c.pending # None
  /\ c.state = "Streaming" => /\ c.nextHeartbeat # None /\ c.accepted # None
                              /\ c.missed < MaxMissedHeartbeats
  /\ c.state = "Unreachable" => c.nextRetry # None /\ c.accepted # None
  /\ c.state = "Stopped" => c = NoClient
  /\ c.jitter # None => c.state = "Streaming" /\ c.jitter = c.accepted

(* The session variables of d are those of c.                              *)
SameSession(c, d) ==
  d.pending = c.pending /\ d.accepted = c.accepted /\ d.lastIssued = c.lastIssued

(* The constants the deadlines and counters are set to.                    *)
LEMMA Values ==
  /\ None \in OptSessionId
  /\ SessionId \subseteq OptSessionId
  /\ \A i \in Nat : i \in Deadline(i) /\ None \in Deadline(i)
  /\ 0 \in 0..MaxMissedHeartbeats
  /\ 0 \in 0..MaxSession
  /\ 0 \in 0..MaxProbes
  BY ClientIntervalsAssumption, BoundsAssumption DEF OptSessionId, Deadline

(* None is no number: neither an identifier nor a set deadline.            *)
LEMMA NoneIsNoNumber ==
  /\ None \notin SessionId
  /\ None # HeartbeatInterval
  /\ None # ReconnectRetryInterval
  /\ None # StartAckTimeout
  /\ None # HeartbeatTimeout
  /\ None # CaptureRetryInterval
  /\ None # 0
  BY NoneAssumption, BoundsAssumption, ClientIntervalsAssumption, ServerIntervalsAssumption
  DEF SessionId

(* Assigning one field a value of its type keeps the record's type.        *)
LEMMA ClientUpdate ==
  ASSUME NEW c \in ClientRecord
  PROVE  /\ \A v \in ClientState : [c EXCEPT !.state = v] \in ClientRecord
         /\ \A v \in OptSessionId : [c EXCEPT !.pending = v] \in ClientRecord
         /\ \A v \in OptSessionId : [c EXCEPT !.accepted = v] \in ClientRecord
         /\ \A v \in 0..MaxSession : [c EXCEPT !.lastIssued = v] \in ClientRecord
         /\ \A v \in Deadline(StartAckTimeout) : [c EXCEPT !.startDeadline = v] \in ClientRecord
         /\ \A v \in Deadline(HeartbeatInterval) : [c EXCEPT !.nextHeartbeat = v] \in ClientRecord
         /\ \A v \in Deadline(ReconnectRetryInterval) : [c EXCEPT !.nextRetry = v] \in ClientRecord
         /\ \A v \in 0..MaxMissedHeartbeats : [c EXCEPT !.missed = v] \in ClientRecord
         /\ \A v \in OptSessionId : [c EXCEPT !.jitter = v] \in ClientRecord
         /\ \A v \in 0..MaxProbes : [c EXCEPT !.probes = v] \in ClientRecord
         /\ \A v \in 0..MaxProbes \cup {None} : [c EXCEPT !.outstanding = v] \in ClientRecord
         /\ \A v \in Deadline(RecalibrationInterval) : [c EXCEPT !.nextCalibration = v] \in ClientRecord
  BY DEF ClientRecord

LEMMA ClientFields ==
  ASSUME NEW c \in ClientRecord
  PROVE  /\ c.state \in ClientState
         /\ c.pending \in OptSessionId
         /\ c.accepted \in OptSessionId
         /\ c.lastIssued \in 0..MaxSession
         /\ c.startDeadline \in Deadline(StartAckTimeout)
         /\ c.nextHeartbeat \in Deadline(HeartbeatInterval)
         /\ c.nextRetry \in Deadline(ReconnectRetryInterval)
         /\ c.missed \in 0..MaxMissedHeartbeats
         /\ c.jitter \in OptSessionId
         /\ c.probes \in 0..MaxProbes
         /\ c.outstanding \in 0..MaxProbes \cup {None}
         /\ c.nextCalibration \in Deadline(RecalibrationInterval)
  BY DEF ClientRecord

LEMMA NewClientShape ==
  /\ NewClient \in ClientRecord
  /\ ClientShape(NoClient)
  /\ NoClient.pending = None /\ NoClient.accepted = None /\ NoClient.state = "Stopped"
  <1>1. NewClient \in ClientRecord
    BY Values, ClientIntervalsAssumption
    DEF NewClient, ClientRecord, ClientState
  <1>2. NoClient \in ClientRecord
    BY <1>1, ClientUpdate DEF NoClient, ClientState
  <1>3. QED
    BY <1>1, <1>2 DEF ClientShape, NoClient, NewClient

LEMMA BeginEstablishingShape ==
  ASSUME NEW c \in ClientRecord
  PROVE  /\ BeginEstablishing(c) \in ClientRecord
         /\ BeginEstablishing(c).jitter = None
         /\ BeginEstablishing(c).lastIssued = c.lastIssued
  <1>1. BeginEstablishing(c) \in ClientRecord
    BY NewClientShape, ClientUpdate, ClientFields DEF BeginEstablishing
  <1>2. QED
    BY <1>1 DEF BeginEstablishing, NewClient, ClientRecord

LEMMA IssueStartShape ==
  ASSUME NEW c \in ClientRecord, c.jitter = None,
         NEW epoch \in SessionId, IssueStart(c, epoch).pending \in SessionId
  PROVE  /\ ClientShape(IssueStart(c, epoch))
         /\ IssueStart(c, epoch).state = "Establishing"
         /\ IssueStart(c, epoch).pending = NextSessionId(epoch, c.lastIssued)
         /\ IssueStart(c, epoch).lastIssued = NextSessionId(epoch, c.lastIssued)
         /\ IssueStart(c, epoch).accepted = None
  <1> DEFINE d == IssueStart(c, epoch)
  <1>1. /\ d.state = "Establishing"
        /\ d.pending = NextSessionId(epoch, c.lastIssued)
        /\ d.lastIssued = NextSessionId(epoch, c.lastIssued)
        /\ d.accepted = None
        /\ d.jitter = None
        /\ d.startDeadline = StartAckTimeout
    BY DEF IssueStart, ClientRecord
  <1>2. NextSessionId(epoch, c.lastIssued) \in SessionId
    BY <1>1
  <1>3. NextSessionId(epoch, c.lastIssued) \in 0..MaxSession
    BY <1>2, BoundsAssumption DEF SessionId
  <1>4. d \in ClientRecord
    BY <1>2, <1>3, ClientUpdate, Values, ClientIntervalsAssumption DEF IssueStart, ClientState
  <1>5. QED
    BY <1>1, <1>2, <1>4, NoneIsNoNumber DEF ClientShape

LEMMA MarkUnreachableShape ==
  ASSUME NEW c \in ClientRecord, c.jitter # None => c.state = "Streaming"
  PROVE  /\ MarkUnreachable(c) \in ClientRecord
         /\ MarkUnreachable(c).state = "Unreachable"
         /\ MarkUnreachable(c).jitter = None
         /\ c.state # "Unreachable" => MarkUnreachable(c).nextRetry = ReconnectRetryInterval
         /\ SameSession(c, MarkUnreachable(c))
  <1>1. MarkUnreachable(c) \in ClientRecord
    BY ClientUpdate, Values, ClientIntervalsAssumption DEF MarkUnreachable, ClientState
  <1>2. QED
    BY <1>1 DEF MarkUnreachable, ClientRecord, SameSession

LEMMA AcceptStartShape ==
  ASSUME NEW c \in ClientRecord, NEW id \in SessionId
  PROVE  /\ ClientShape(AcceptStart(c, id))
         /\ AcceptStart(c, id).state = "Streaming"
         /\ AcceptStart(c, id).pending = None
         /\ AcceptStart(c, id).accepted = id
         /\ AcceptStart(c, id).lastIssued = c.lastIssued
  <1> DEFINE d == AcceptStart(c, id)
  <1>1. NextCalibration(c) \in Deadline(RecalibrationInterval)
    BY Values, ClientIntervalsAssumption DEF NextCalibration
  <1>2. d \in ClientRecord
    BY <1>1, ClientUpdate, Values, ClientIntervalsAssumption DEF AcceptStart, ClientState
  <1>3. /\ d.state = "Streaming"
        /\ d.pending = None
        /\ d.accepted = id
        /\ d.lastIssued = c.lastIssued
        /\ d.jitter = None
        /\ d.missed = 0
        /\ d.nextHeartbeat = HeartbeatInterval
    BY DEF AcceptStart, ClientRecord
  <1>4. QED
    BY <1>2, <1>3, NoneIsNoNumber, ClientIntervalsAssumption DEF ClientShape

LEMMA AcceptHeartbeatShape ==
  ASSUME NEW c, ClientShape(c), c.state \in {"Streaming", "Unreachable"}
  PROVE  /\ ClientShape(AcceptHeartbeat(c))
         /\ AcceptHeartbeat(c).state = "Streaming"
         /\ SameSession(c, AcceptHeartbeat(c))
  <1> DEFINE d == AcceptHeartbeat(c)
  <1>1. c \in ClientRecord
    BY DEF ClientShape
  <1>2. d \in ClientRecord
    BY <1>1, ClientUpdate, Values, ClientIntervalsAssumption DEF AcceptHeartbeat, ClientState
  <1>3. /\ d.state = "Streaming"
        /\ SameSession(c, d)
        /\ d.jitter = c.jitter
        /\ d.missed = 0
        /\ d.nextHeartbeat = HeartbeatInterval
    BY <1>1 DEF AcceptHeartbeat, ClientRecord, SameSession
  <1>4. QED
    BY <1>2, <1>3, NoneIsNoNumber, ClientIntervalsAssumption DEF ClientShape, SameSession

LEMMA MaybeRecalibrateShape ==
  ASSUME NEW c, ClientShape(c), c.state = "Streaming"
  PROVE  /\ ClientShape(MaybeRecalibrate(c))
         /\ MaybeRecalibrate(c).state = "Streaming"
         /\ SameSession(c, MaybeRecalibrate(c))
  <1> DEFINE d == MaybeRecalibrate(c)
  <1>1. c \in ClientRecord
    BY DEF ClientShape
  <1>2. c.probes \in 0..MaxProbes
    BY <1>1, ClientFields
  <1>3. CASE ~CalibrationDue(c)
    BY <1>3 DEF MaybeRecalibrate, SameSession
  <1>4. CASE CalibrationDue(c)
    <2>1. c.probes + 1 \in 0..MaxProbes
      BY <1>2, <1>4, BoundsAssumption DEF CalibrationDue
    <2>2. d = [c EXCEPT !.outstanding = c.probes,
                        !.probes = c.probes + 1,
                        !.nextCalibration = IF c.probes + 1 < MaxProbes
                                            THEN RecalibrationInterval ELSE None]
      BY <1>4, <1>1 DEF MaybeRecalibrate, ClientRecord
    <2>3. (IF c.probes + 1 < MaxProbes THEN RecalibrationInterval ELSE None)
             \in Deadline(RecalibrationInterval)
      BY Values, ClientIntervalsAssumption
    <2>4. d \in ClientRecord
      <3> HIDE DEF d
      <3>1. [c EXCEPT !.outstanding = c.probes] \in ClientRecord
        BY <1>1, <1>2, ClientUpdate
      <3>2. QED
        BY <3>1, <2>1, <2>2, <2>3, ClientUpdate
    <2>5. /\ d.state = c.state /\ d.jitter = c.jitter /\ d.missed = c.missed
          /\ d.nextHeartbeat = c.nextHeartbeat
          /\ SameSession(c, d)
      BY <1>1, <2>2 DEF ClientRecord, SameSession
    <2>6. QED
      BY <2>4, <2>5 DEF ClientShape, SameSession
  <1>5. QED
    BY <1>3, <1>4

LEMMA AdvanceStreamingShape ==
  ASSUME NEW c, ClientShape(c), c.state = "Streaming"
  PROVE  /\ ClientShape(AdvanceStreaming(c))
         /\ SameSession(c, AdvanceStreaming(c))
  <1> DEFINE counted == [c EXCEPT !.missed = c.missed + 1, !.nextHeartbeat = HeartbeatInterval]
  <1>1. c \in ClientRecord
    BY DEF ClientShape
  <1>2. c.missed + 1 \in 0..MaxMissedHeartbeats
    BY <1>1, ClientFields, ClientIntervalsAssumption DEF ClientShape
  <1>3. counted \in ClientRecord
    BY <1>1, <1>2, ClientUpdate, Values, ClientIntervalsAssumption
  <1>4. /\ counted.state = "Streaming"
        /\ counted.missed = c.missed + 1
        /\ counted.nextHeartbeat = HeartbeatInterval
        /\ counted.jitter = c.jitter
        /\ SameSession(c, counted)
    BY <1>1 DEF ClientRecord, SameSession
  <1>5. AdvanceStreaming(c) = IF counted.missed >= MaxMissedHeartbeats
                              THEN MarkUnreachable(counted) ELSE counted
    BY <1>1 DEF AdvanceStreaming, ClientRecord
  <1> HIDE DEF counted
  <1>6. CASE counted.missed >= MaxMissedHeartbeats
    <2>1. /\ MarkUnreachable(counted) \in ClientRecord
          /\ MarkUnreachable(counted).state = "Unreachable"
          /\ MarkUnreachable(counted).jitter = None
          /\ MarkUnreachable(counted).nextRetry = ReconnectRetryInterval
          /\ SameSession(counted, MarkUnreachable(counted))
      BY <1>3, <1>4, MarkUnreachableShape
    <2>2. QED
      BY <1>4, <1>5, <1>6, <2>1, NoneIsNoNumber DEF ClientShape, SameSession
  <1>7. CASE ~(counted.missed >= MaxMissedHeartbeats)
    BY <1>2, <1>3, <1>4, <1>5, <1>7, NoneIsNoNumber, ClientIntervalsAssumption
    DEF ClientShape, SameSession
  <1>8. QED
    BY <1>6, <1>7

(* Time only counts deadlines down.                                        *)
LEMMA ElapseDeadline ==
  ASSUME NEW interval \in Nat, NEW d \in Deadline(interval)
  PROVE  Elapse(d) \in Deadline(interval) /\ (Elapse(d) = None <=> d = None)
  BY NoneAssumption DEF Elapse, Deadline

LEMMA ClientElapseShape ==
  ASSUME ClientShape(client)
  PROVE  /\ ClientShape(ClientElapse)
         /\ ClientElapse.state = client.state
         /\ SameSession(client, ClientElapse)
  <1>1. client \in ClientRecord
    BY DEF ClientShape
  <1>2. ClientElapse = [client EXCEPT !.startDeadline = Elapse(client.startDeadline),
                                      !.nextHeartbeat = Elapse(client.nextHeartbeat),
                                      !.nextRetry = Elapse(client.nextRetry),
                                      !.nextCalibration = Elapse(client.nextCalibration)]
    BY <1>1 DEF ClientElapse, ClientRecord
  <1>3. /\ Elapse(client.startDeadline) \in Deadline(StartAckTimeout)
        /\ Elapse(client.nextHeartbeat) \in Deadline(HeartbeatInterval)
        /\ Elapse(client.nextRetry) \in Deadline(ReconnectRetryInterval)
        /\ Elapse(client.nextCalibration) \in Deadline(RecalibrationInterval)
    BY <1>1, ClientFields, ElapseDeadline, ClientIntervalsAssumption
  <1>4. ClientElapse \in ClientRecord
    BY <1>1, <1>2, <1>3, ClientUpdate
  <1>5. /\ ClientElapse.state = client.state /\ ClientElapse.jitter = client.jitter
        /\ ClientElapse.missed = client.missed
        /\ ClientElapse.startDeadline = Elapse(client.startDeadline)
        /\ ClientElapse.nextHeartbeat = Elapse(client.nextHeartbeat)
        /\ ClientElapse.nextRetry = Elapse(client.nextRetry)
        /\ SameSession(client, ClientElapse)
    BY <1>1, <1>2 DEF ClientRecord, SameSession
  <1>6. /\ ClientElapse.startDeadline = None <=> client.startDeadline = None
        /\ ClientElapse.nextHeartbeat = None <=> client.nextHeartbeat = None
        /\ ClientElapse.nextRetry = None <=> client.nextRetry = None
    BY <1>1, <1>5, ClientFields, ElapseDeadline, ClientIntervalsAssumption
  <1>7. client.state = "Stopped" => ClientElapse = client
    <2>1. ASSUME client = NoClient PROVE ClientElapse = client
      BY <1>1, <1>2, <2>1 DEF NoClient, NewClient, Elapse, ClientRecord
    <2>2. QED
      BY <2>1 DEF ClientShape
  <1>8. QED
    BY <1>4, <1>5, <1>6, <1>7 DEF ClientShape, SameSession

-----------------------------------------------------------------------------
(* Part 2: the server's private steps.                                     *)

ServerShape(s) == s \in ServerRecord /\ ControlShape(s)

LEMMA ServerUpdate ==
  ASSUME NEW s \in ServerRecord
  PROVE  /\ \A v \in BOOLEAN : [s EXCEPT !.up = v] \in ServerRecord
         /\ \A v \in {"Idle", "Starting", "Streaming"} : [s EXCEPT !.state = v] \in ServerRecord
         /\ \A v \in OptSessionId : [s EXCEPT !.lastAccepted = v] \in ServerRecord
         /\ \A v \in OptSessionId : [s EXCEPT !.lastActive = v] \in ServerRecord
         /\ \A v \in Deadline(HeartbeatTimeout) : [s EXCEPT !.heartbeat = v] \in ServerRecord
         /\ \A v \in Deadline(CaptureRetryInterval) : [s EXCEPT !.nextRetry = v] \in ServerRecord
         /\ \A v \in Capture : [s EXCEPT !.capture = v] \in ServerRecord
         /\ \A v \in BOOLEAN : [s EXCEPT !.peer = v] \in ServerRecord
  BY DEF ServerRecord

LEMMA ServerFields ==
  ASSUME NEW s \in ServerRecord
  PROVE  /\ s.up \in BOOLEAN
         /\ s.state \in {"Idle", "Starting", "Streaming"}
         /\ s.lastAccepted \in OptSessionId
         /\ s.lastActive \in OptSessionId
         /\ s.heartbeat \in Deadline(HeartbeatTimeout)
         /\ s.nextRetry \in Deadline(CaptureRetryInterval)
         /\ s.capture \in Capture
         /\ s.peer \in BOOLEAN
  BY DEF ServerRecord

LEMMA FreshServerShape ==
  /\ ServerShape(FreshServer) /\ FreshServer.up /\ FreshServer.state = "Idle"
  /\ ServerShape(DownServer) /\ ~DownServer.up /\ DownServer.state = "Idle"
  /\ FreshServer.lastAccepted = None /\ DownServer.lastAccepted = None
  <1>1. FreshServer \in ServerRecord
    BY Values, ServerIntervalsAssumption DEF FreshServer, ServerRecord, Capture
  <1>2. DownServer \in ServerRecord
    BY <1>1, ServerUpdate DEF DownServer
  <1>3. /\ FreshServer.up /\ FreshServer.state = "Idle"
        /\ FreshServer.lastAccepted = None /\ FreshServer.lastActive = None
        /\ FreshServer.heartbeat = None /\ FreshServer.nextRetry = None
        /\ FreshServer.capture = "none"
    BY DEF FreshServer
  <1>4. /\ ~DownServer.up /\ DownServer.state = "Idle"
        /\ DownServer.lastAccepted = None /\ DownServer.lastActive = None
        /\ DownServer.heartbeat = None /\ DownServer.nextRetry = None
        /\ DownServer.capture = "none"
    BY DEF FreshServer, DownServer
  <1>5. QED
    BY <1>1, <1>2, <1>3, <1>4 DEF ServerShape, ControlShape

(* t is a live continuation of s: same process, same session, same peer.   *)
SameServer(s, t) ==
  t.up = s.up /\ t.lastAccepted = s.lastAccepted /\ t.peer = s.peer

LEMMA ScheduleCaptureRetryShape ==
  ASSUME NEW s \in ServerRecord, s.lastActive = s.lastAccepted, s.lastActive # None,
         s.heartbeat # None
  PROVE  /\ ServerShape(ScheduleCaptureRetry(s))
         /\ SameServer(s, ScheduleCaptureRetry(s))
         /\ ScheduleCaptureRetry(s).state = "Starting"
  <1> DEFINE t == ScheduleCaptureRetry(s)
  <1>1. t \in ServerRecord
    BY ServerUpdate, Values, ServerIntervalsAssumption DEF ScheduleCaptureRetry
  <1>2. /\ t.state = "Starting" /\ t.nextRetry = CaptureRetryInterval
        /\ t.lastActive = s.lastActive /\ t.lastAccepted = s.lastAccepted
        /\ t.heartbeat = s.heartbeat /\ t.capture = s.capture
        /\ SameServer(s, t)
    BY DEF ScheduleCaptureRetry, ServerRecord, SameServer
  <1>3. QED
    BY <1>1, <1>2, NoneIsNoNumber DEF ServerShape, ControlShape

LEMMA TryStartShape ==
  ASSUME NEW s \in ServerRecord, s.lastActive = s.lastAccepted, s.lastActive # None,
         s.heartbeat # None,
         NEW o \in TryStart(s)
  PROVE  ServerShape(o.to) /\ SameServer(s, o.to) /\ o.to.state # "Idle"
  <1> DEFINE t == [s EXCEPT !.state = "Streaming", !.nextRetry = None,
                            !.capture = IF s.capture = "none" THEN "alive" ELSE s.capture]
  <1>1. o.to = t \/ o.to = ScheduleCaptureRetry(s)
    BY DEF TryStart, Outcome, ServerRecord
  <1>2. t \in ServerRecord
    <2>1. (IF s.capture = "none" THEN "alive" ELSE s.capture) \in Capture
      BY ServerFields DEF Capture
    <2>2. QED
      BY <2>1, ServerUpdate, Values, ServerIntervalsAssumption
  <1>3. /\ t.state = "Streaming" /\ t.nextRetry = None
        /\ t.lastActive = s.lastActive /\ t.lastAccepted = s.lastAccepted
        /\ t.heartbeat = s.heartbeat /\ t.capture # "none"
        /\ SameServer(s, t)
    BY DEF ServerRecord, SameServer
  <1>4. ServerShape(t) /\ SameServer(s, t) /\ t.state # "Idle"
    <2> HIDE DEF t
    <2>1. QED
      BY <1>2, <1>3 DEF ServerShape, ControlShape
  <1>5. QED
    BY <1>1, <1>4, ScheduleCaptureRetryShape

LEMMA StopAndIdleShape ==
  ASSUME NEW s \in ServerRecord, s.lastActive = s.lastAccepted,
         NEW o \in StopAndIdle(s)
  PROVE  /\ ServerShape(o.to)
         /\ o.to.state = "Idle"
         /\ SameServer(s, o.to) \/ o.to = DownServer
  <1> DEFINE t == [s EXCEPT !.state = "Idle", !.heartbeat = None, !.nextRetry = None,
                            !.capture = "none"]
  <1>1. o.to = t \/ o.to = DownServer
    BY DEF StopAndIdle, Outcome
  <1>2. t \in ServerRecord
    BY ServerUpdate, Values, ServerIntervalsAssumption DEF Capture
  <1>3. /\ t.state = "Idle" /\ t.nextRetry = None /\ t.heartbeat = None
        /\ t.lastActive = s.lastActive /\ t.lastAccepted = s.lastAccepted
        /\ t.capture = "none"
        /\ SameServer(s, t)
    BY DEF ServerRecord, SameServer
  <1>4. ServerShape(t) /\ SameServer(s, t) /\ t.state = "Idle"
    <2> HIDE DEF t
    <2>1. QED
      BY <1>2, <1>3 DEF ServerShape, ControlShape
  <1>5. QED
    BY <1>1, <1>4, FreshServerShape

(* What advance(now) can do to a control plane s.                          *)
LEMMA AdvanceShape ==
  ASSUME NEW s, ServerShape(s), s.up, NEW a \in Advance(s)
  PROVE  /\ ServerShape(a.to)
         /\ SameServer(s, a.to) \/ a.to = DownServer
         /\ s.state = "Idle" => a.to.state = "Idle"
         /\ a.to.state = "Idle" => s.state = "Idle" \/ Due(s.heartbeat)
  <1>1. s \in ServerRecord /\ s.lastActive = s.lastAccepted
    BY DEF ServerShape, ControlShape
  <1>2. CASE a.to = s
    BY <1>2 DEF SameServer
  <1>3. CASE Due(s.heartbeat) /\ a \in StopAndIdle(s)
    BY <1>1, <1>3, StopAndIdleShape
  <1>4. CASE s.state = "Starting" /\ a \in TryStart(s)
    <2>1. s.lastActive # None /\ s.heartbeat # None
      BY <1>4 DEF ServerShape, ControlShape
    <2>2. QED
      BY <1>1, <1>4, <2>1, TryStartShape
  <1>5. QED
    BY <1>2, <1>3, <1>4 DEF Advance, Outcome

(* What a message can do to a control plane s, before the loop updates the *)
(* audio peer.                                                             *)
LEMMA HandleStartShape ==
  ASSUME NEW s, ServerShape(s), s.up, NEW id \in SessionId, NEW h \in HandleStart(s, id)
  PROVE  /\ ServerShape(h.to)
         /\ ~AcceptsStart(s, id) => h.to = s
         /\ AcceptsStart(s, id) => /\ h.to.lastAccepted = id
                                   /\ h.to.state # "Idle"
                                   /\ h.to.up
  <1> DEFINE taken == [s EXCEPT !.lastAccepted = id, !.lastActive = id,
                                !.heartbeat = HeartbeatTimeout]
  <1>1. s \in ServerRecord
    BY DEF ServerShape
  <1>2. taken \in ServerRecord
    BY <1>1, ServerUpdate, Values, ServerIntervalsAssumption
  <1>3. /\ taken.lastAccepted = id /\ taken.lastActive = id
        /\ taken.heartbeat = HeartbeatTimeout
        /\ taken.up /\ taken.state = s.state
        /\ taken.nextRetry = s.nextRetry /\ taken.capture = s.capture
    BY <1>1 DEF ServerRecord
  <1>4. s.state \in {"Idle", "Starting", "Streaming"}
    BY <1>1, ServerFields
  <1>5. CASE ~AcceptsStart(s, id)
    BY <1>5 DEF HandleStart, Outcome
  <1>6. CASE AcceptsStart(s, id) /\ s.state = "Idle"
    <2> DEFINE t == [taken EXCEPT !.state = "Starting"]
    <2>1. h \in TryStart(t)
      BY <1>6 DEF HandleStart
    <2>2. t \in ServerRecord
      BY <1>2, ServerUpdate
    <2>3. t.lastAccepted = id /\ t.lastActive = id /\ t.heartbeat = HeartbeatTimeout /\ t.up
      BY <1>2, <1>3 DEF ServerRecord
    <2> HIDE DEF t
    <2>4. QED
      BY <1>6, <2>1, <2>2, <2>3, TryStartShape, NoneIsNoNumber DEF SameServer
  <1>7. CASE AcceptsStart(s, id) /\ s.state = "Starting"
    <2> DEFINE t == [taken EXCEPT !.nextRetry = CaptureRetryInterval]
    <2>1. h.to = t
      BY <1>7 DEF HandleStart, Outcome
    <2>2. t \in ServerRecord
      BY <1>2, ServerUpdate, Values, ServerIntervalsAssumption
    <2>3. /\ t.lastAccepted = id /\ t.lastActive = id /\ t.heartbeat = HeartbeatTimeout
          /\ t.up /\ t.state = s.state /\ t.nextRetry = CaptureRetryInterval
          /\ t.capture = s.capture
      BY <1>2, <1>3 DEF ServerRecord
    <2> HIDE DEF t
    <2>4. QED
      BY <1>7, <2>1, <2>2, <2>3, NoneIsNoNumber DEF ServerShape, ControlShape
  <1>8. CASE AcceptsStart(s, id) /\ s.state = "Streaming"
    <2>1. h.to = taken
      BY <1>8 DEF HandleStart, Outcome
    <2> HIDE DEF taken
    <2>2. QED
      BY <1>8, <1>2, <1>3, <2>1, NoneIsNoNumber DEF ServerShape, ControlShape
  <1>9. QED
    BY <1>4, <1>5, <1>6, <1>7, <1>8

LEMMA HandleHeartbeatShape ==
  ASSUME NEW s, ServerShape(s), NEW id, NEW h \in HandleHeartbeat(s, id)
  PROVE  ServerShape(h.to) /\ SameServer(s, h.to) /\ h.to.state = s.state
  <1> DEFINE t == [s EXCEPT !.heartbeat = HeartbeatTimeout]
  <1>1. s \in ServerRecord
    BY DEF ServerShape
  <1>2. CASE h.to = s
    BY <1>2 DEF SameServer
  <1>3. CASE h.to = t /\ s.state = "Streaming"
    <2>1. t \in ServerRecord
      BY <1>1, ServerUpdate, Values, ServerIntervalsAssumption
    <2>2. /\ t.lastAccepted = s.lastAccepted /\ t.lastActive = s.lastActive
          /\ t.heartbeat = HeartbeatTimeout /\ t.state = s.state
          /\ t.nextRetry = s.nextRetry /\ t.capture = s.capture
          /\ SameServer(s, t)
      BY <1>1 DEF ServerRecord, SameServer
    <2> HIDE DEF t
    <2>3. QED
      BY <1>3, <2>1, <2>2, NoneIsNoNumber DEF ServerShape, ControlShape
  <1>4. QED
    BY <1>2, <1>3 DEF HandleHeartbeat, AcceptsHeartbeat, Outcome

LEMMA HandleStopShape ==
  ASSUME NEW s, ServerShape(s), NEW id, NEW h \in HandleStop(s, id)
  PROVE  /\ ServerShape(h.to)
         /\ SameServer(s, h.to) \/ h.to = DownServer
         /\ s.state = "Idle" => h.to.state = "Idle"
         /\ AcceptsStop(s, id) => h.to.state = "Idle"
         /\ h.to.state = "Idle" => s.state = "Idle" \/ AcceptsStop(s, id)
  <1>1. s \in ServerRecord /\ s.lastActive = s.lastAccepted
    BY DEF ServerShape, ControlShape
  <1>2. CASE AcceptsStop(s, id) /\ s.state # "Idle"
    BY <1>1, <1>2, StopAndIdleShape DEF HandleStop
  <1>3. CASE ~(AcceptsStop(s, id) /\ s.state # "Idle")
    BY <1>3 DEF HandleStop, Outcome, SameServer
  <1>4. QED
    BY <1>2, <1>3

LEMMA UpdatePeerShape ==
  ASSUME NEW s, ServerShape(s), NEW m
  PROVE  /\ ServerShape(UpdatePeer(s, m))
         /\ UpdatePeer(s, m).up = s.up
         /\ UpdatePeer(s, m).state = s.state
         /\ UpdatePeer(s, m).lastAccepted = s.lastAccepted
         /\ m.type = "Start" => UpdatePeer(s, m).peer
         /\ m.type \notin {"Start", "Stop"} => UpdatePeer(s, m).peer = s.peer
  <1>1. s \in ServerRecord
    BY DEF ServerShape
  <1>2. ASSUME NEW b \in BOOLEAN
        PROVE  /\ ServerShape([s EXCEPT !.peer = b])
               /\ [s EXCEPT !.peer = b].up = s.up
               /\ [s EXCEPT !.peer = b].state = s.state
               /\ [s EXCEPT !.peer = b].lastAccepted = s.lastAccepted
               /\ [s EXCEPT !.peer = b].peer = b
    <2> DEFINE t == [s EXCEPT !.peer = b]
    <2>1. t \in ServerRecord
      BY <1>1, ServerUpdate
    <2>2. /\ t.lastAccepted = s.lastAccepted /\ t.lastActive = s.lastActive
          /\ t.heartbeat = s.heartbeat /\ t.state = s.state /\ t.up = s.up
          /\ t.nextRetry = s.nextRetry /\ t.capture = s.capture /\ t.peer = b
      BY <1>1 DEF ServerRecord
    <2> HIDE DEF t
    <2>3. ServerShape(t)
      BY <2>1, <2>2 DEF ServerShape, ControlShape
    <2>4. QED
      BY <2>2, <2>3 DEF t
  <1>3. CASE m.type = "Start"
    BY <1>2, <1>3 DEF UpdatePeer
  <1>4. CASE m.type = "Stop"
    BY <1>2, <1>4 DEF UpdatePeer
  <1>5. CASE m.type \notin {"Start", "Stop"}
    BY <1>5 DEF UpdatePeer
  <1>6. QED
    BY <1>3, <1>4, <1>5

-----------------------------------------------------------------------------
(* Part 3: the steps of the two processes and of the network, each         *)
(* classified by what it does to the session variables.                    *)

(* The shape of the whole state, preserved by every step.                  *)
ShapeInvariant ==
  /\ NetworkTypeOK
  /\ ClientShape(client)
  /\ issuedMax \in 0..MaxSession
  /\ ServerShape(server)
  /\ server.state # "Idle" => server.peer
  /\ ~server.up => server.state = "Idle" /\ server.lastAccepted = None
  /\ activated \subseteq SessionId

LEMMA DatagramTypes ==
  /\ \A kind \in ControlKind, id \in SessionId : Datagram(kind, id) \in ToServer
  /\ \A kind \in AckKind, id \in SessionId : Datagram(kind, id) \in ToClient
  /\ \A id \in SessionId : Datagram("Audio", id) \in ToClient
  /\ \A seq \in 0..MaxProbes : Datagram("Probe", seq) \in ToServer
  /\ \A seq \in 0..MaxProbes : Datagram("Reply", seq) \in ToClient
  BY DEF Datagram, ToServer, ToClient, ControlKind, AckKind

LEMMA DatagramFields ==
  ASSUME NEW kind, NEW id
  PROVE  Datagram(kind, id).type = kind /\ Datagram(kind, id).id = id
  BY DEF Datagram

(* Sending and receiving keep the network's type and invent no datagram.   *)
LEMMA NetworkEffect ==
  ASSUME NetworkTypeOK, NEW m, NEW out, NEW cost, out \subseteq ToServer \cup ToClient,
         Send(out, cost) \/ Receive(m, out, cost)
  PROVE  NetworkTypeOK' /\ net' \subseteq net \cup out
  BY DEF NetworkTypeOK, Send, Receive, Spend

ClientIssues ==
  \E id \in SessionId, epoch \in 1..(issuedMax + 1) :
    /\ ClientUp => id = NextSessionId(epoch, client.lastIssued)
    /\ ~ClientUp /\ ClockForward => id = issuedMax + 1
    /\ client'.pending = id /\ client'.accepted = None /\ client'.lastIssued = id
    /\ client'.state = "Establishing"
    /\ issuedMax' = IF id > issuedMax THEN id ELSE issuedMax
    /\ net' \subseteq net \cup {Datagram("Start", id)}

ClientEnds ==
  /\ client' = NoClient
  /\ issuedMax' = issuedMax
  /\ net' \subseteq net \cup {Datagram("Stop", s) : s \in Held}

ClientAccepts ==
  \E m \in net :
    /\ m.type = "StartAck" /\ m.id = client.pending /\ m.id \in SessionId
    /\ client'.accepted = m.id /\ client'.pending = None
    /\ client'.lastIssued = client.lastIssued /\ client'.state = "Streaming"
    /\ ClientUp
    /\ issuedMax' = issuedMax
    /\ net' \subseteq net

ClientKeeps ==
  /\ SameSession(client, client')
  /\ ClientUp <=> ClientUp'
  /\ issuedMax' = issuedMax
  /\ net' \subseteq net \cup {Datagram("Probe", seq) : seq \in 0..MaxProbes}
                      \cup {Datagram("Heartbeat", s) : s \in Held}

(* SendStart from a state c whose jitter buffer is empty.                  *)
LEMMA SendStartEffect ==
  ASSUME ShapeInvariant, NEW c \in ClientRecord, c.jitter = None,
         NEW epoch \in SessionId, NEW cost, NEW kind, NEW extra,
         ClockReading(epoch, extra, kind),
         SendStart(c, {}, epoch, cost)
  PROVE  /\ ClientShape(client') /\ issuedMax' \in 0..MaxSession /\ NetworkTypeOK'
         /\ epoch \in 1..(issuedMax + 1)
         /\ LET id == NextSessionId(epoch, c.lastIssued)
            IN  /\ id \in SessionId
                /\ client'.pending = id /\ client'.accepted = None
                /\ client'.lastIssued = id /\ client'.state = "Establishing"
                /\ issuedMax' = IF id > issuedMax THEN id ELSE issuedMax
                /\ net' \subseteq net \cup {Datagram("Start", id)}
  <1> DEFINE id == NextSessionId(epoch, c.lastIssued)
             started == IssueStart(c, epoch)
  <1>1. /\ started.pending \in SessionId
        /\ client' = started
        /\ issuedMax' = IF started.pending > issuedMax THEN started.pending ELSE issuedMax
        /\ Send({} \cup {Datagram("Start", started.pending)}, cost)
    BY DEF SendStart
  <1>2. /\ ClientShape(started)
        /\ started.state = "Establishing"
        /\ started.pending = id /\ started.lastIssued = id /\ started.accepted = None
    BY <1>1, IssueStartShape
  <1> HIDE DEF started, id
  <1>3. epoch \in 1..(issuedMax + 1)
    BY DEF ClockReading, ShapeInvariant, SessionId
  <1>4. issuedMax' \in 0..MaxSession
    BY <1>1 DEF ShapeInvariant, SessionId
  <1>5. Datagram("Start", id) \in ToServer
    BY <1>1, <1>2, DatagramTypes DEF ControlKind
  <1>6. NetworkTypeOK' /\ net' \subseteq net \cup {Datagram("Start", id)}
    BY <1>1, <1>2, <1>5, NetworkEffect DEF ShapeInvariant
  <1>7. QED
    BY <1>1, <1>2, <1>3, <1>4, <1>6 DEF id

LEMMA ClientLaunchEffect ==
  ASSUME ShapeInvariant, ClientLaunch
  PROVE  ClientShape(client') /\ issuedMax' \in 0..MaxSession /\ NetworkTypeOK' /\ ClientIssues
  <1>1. PICK epoch \in SessionId, cost \in SUBSET {"clockBack"} :
          /\ ClockReading(epoch, cost, "clockBack")
          /\ SendStart(BeginEstablishing(NewClient), {}, epoch, cost)
    BY DEF ClientLaunch
  <1>2. /\ BeginEstablishing(NewClient) \in ClientRecord
        /\ BeginEstablishing(NewClient).jitter = None
        /\ BeginEstablishing(NewClient).lastIssued = 0
    BY NewClientShape, BeginEstablishingShape DEF NewClient
  <1>3. cost \subseteq Faults
    BY <1>1 DEF SendStart, Send, Spend
  <1>4. ClockForward => epoch = issuedMax + 1
    BY <1>1, <1>3 DEF ClockReading, ClockForward
  <1>5. ClockForward => NextSessionId(epoch, 0) = issuedMax + 1
    BY <1>4 DEF NextSessionId, ShapeInvariant
  <1>6. ~ClientUp
    BY DEF ClientLaunch
  <1> HIDE DEF ClientUp
  <1>7. QED
    BY <1>1, <1>2, <1>5, <1>6, SendStartEffect DEF ClientIssues

LEMMA ClientRestartEffect ==
  ASSUME ShapeInvariant, ClientRestart
  PROVE  ClientShape(client') /\ issuedMax' \in 0..MaxSession /\ NetworkTypeOK' /\ ClientIssues
  <1>1. PICK epoch \in SessionId, cost \in SUBSET {"staleClock"} :
          /\ ClockReading(epoch, cost, "staleClock")
          /\ SendStart(BeginEstablishing(client), {}, epoch, cost \cup {"menu"})
    BY DEF ClientRestart
  <1>2. /\ BeginEstablishing(client) \in ClientRecord
        /\ BeginEstablishing(client).jitter = None
        /\ BeginEstablishing(client).lastIssued = client.lastIssued
    BY BeginEstablishingShape DEF ShapeInvariant, ClientShape
  <1>3. ClientUp
    BY DEF ClientRestart
  <1>4. QED
    BY <1>1, <1>2, <1>3, SendStartEffect DEF ClientIssues

LEMMA AdvanceRestartsEffect ==
  ASSUME ShapeInvariant, AdvanceRestarts
  PROVE  ClientShape(client') /\ issuedMax' \in 0..MaxSession /\ NetworkTypeOK' /\ ClientIssues
  <1>1. PICK epoch \in SessionId, cost \in SUBSET {"staleClock"} :
          /\ ClockReading(epoch, cost, "staleClock")
          /\ SendStart(MarkUnreachable(client), {}, epoch, cost)
    BY DEF AdvanceRestarts
  <1>2. /\ MarkUnreachable(client) \in ClientRecord
        /\ MarkUnreachable(client).jitter = None
        /\ MarkUnreachable(client).lastIssued = client.lastIssued
    BY MarkUnreachableShape DEF ShapeInvariant, ClientShape, SameSession
  <1>3. ClientUp
    BY DEF AdvanceRestarts, ClientUp
  <1>4. QED
    BY <1>1, <1>2, <1>3, SendStartEffect DEF ClientIssues

LEMMA ClientExitEffect ==
  ASSUME ShapeInvariant, ClientExit \/ ClientCrash
  PROVE  ClientShape(client') /\ issuedMax' \in 0..MaxSession /\ NetworkTypeOK' /\ ClientEnds
  <1>1. client' = NoClient /\ issuedMax' = issuedMax
    BY DEF ClientExit, ClientCrash
  <1>2. NetworkTypeOK' /\ net' \subseteq net \cup {Datagram("Stop", s) : s \in Held}
    <2>1. CASE ClientCrash
      BY <2>1 DEF ClientCrash, Spend, NetworkTypeOK, ShapeInvariant
    <2>2. CASE ClientExit
      <3> DEFINE out == IF StopTarget(client) = None THEN {}
                        ELSE {Datagram("Stop", StopTarget(client))}
      <3>1. Send(out, {"menu"})
        BY <2>2 DEF ClientExit
      <3>2. StopTarget(client) # None => StopTarget(client) \in Held \cap SessionId
        BY ClientFields DEF StopTarget, Held, ShapeInvariant, ClientShape, OptSessionId
      <3>3. out \subseteq ToServer
        BY <3>2, DatagramTypes DEF ControlKind
      <3>4. out \subseteq {Datagram("Stop", s) : s \in Held}
        BY <3>2
      <3> HIDE DEF out
      <3>5. QED
        BY <3>1, <3>3, <3>4, NetworkEffect DEF ShapeInvariant
    <2>3. QED
      BY <2>1, <2>2
  <1>3. QED
    BY <1>1, <1>2, NewClientShape DEF ClientEnds, ShapeInvariant

LEMMA AdvanceStreamsEffect ==
  ASSUME ShapeInvariant, AdvanceStreams
  PROVE  ClientShape(client') /\ issuedMax' \in 0..MaxSession /\ NetworkTypeOK' /\ ClientKeeps
  <1> DEFINE probed == MaybeRecalibrate(client)
             beat == IF TimerDue(client) THEN {Datagram("Heartbeat", client.accepted)} ELSE {}
  <1>1. /\ client.state = "Streaming"
        /\ client' = IF TimerDue(client) THEN AdvanceStreaming(probed) ELSE probed
        /\ Send(ProbesOf(client) \cup beat, {})
        /\ issuedMax' = issuedMax
    BY DEF AdvanceStreams
  <1>2. ClientShape(probed) /\ probed.state = "Streaming" /\ SameSession(client, probed)
    BY <1>1, MaybeRecalibrateShape DEF ShapeInvariant
  <1> HIDE DEF probed
  <1>3. ClientShape(client') /\ SameSession(client, client')
    BY <1>1, <1>2, AdvanceStreamingShape DEF SameSession
  <1>4. client.accepted \in SessionId /\ client.accepted \in Held
    BY <1>1, ClientFields DEF ShapeInvariant, ClientShape, OptSessionId, Held
  <1>5. client.probes \in 0..MaxProbes
    BY ClientFields DEF ShapeInvariant, ClientShape
  <1>6. /\ ProbesOf(client) \subseteq ToServer
        /\ ProbesOf(client) \subseteq {Datagram("Probe", seq) : seq \in 0..MaxProbes}
    BY <1>5, DatagramTypes DEF ProbesOf
  <1>7. beat \subseteq ToServer /\ beat \subseteq {Datagram("Heartbeat", s) : s \in Held}
    BY <1>4, DatagramTypes DEF ControlKind
  <1> HIDE DEF beat
  <1>8. NetworkTypeOK' /\ net' \subseteq net \cup (ProbesOf(client) \cup beat)
    BY <1>1, <1>6, <1>7, NetworkEffect DEF ShapeInvariant
  <1>9. ClientUp /\ ClientUp'
    <2>1. NoClient.accepted = None
      BY NewClientShape
    <2>2. client'.accepted # None
      BY <1>3, <1>4, NoneIsNoNumber DEF SameSession
    <2>3. QED
      BY <1>1, <1>3, <2>1, <2>2 DEF ClientUp, ClientShape
  <1>10. QED
    BY <1>1, <1>3, <1>6, <1>7, <1>8, <1>9 DEF ClientKeeps, ShapeInvariant

LEMMA ClientReceiveEffect ==
  ASSUME ShapeInvariant, NEW m \in net, ClientReceive(m)
  PROVE  /\ ClientShape(client') /\ issuedMax' \in 0..MaxSession /\ NetworkTypeOK'
         /\ ClientAccepts \/ ClientKeeps
  <1>1. ClientUp /\ m \in ToClient /\ Receive(m, {}, {}) /\ issuedMax' = issuedMax
    BY DEF ClientReceive
  <1>2. NetworkTypeOK' /\ net' \subseteq net
    BY <1>1, NetworkEffect DEF ShapeInvariant
  <1>3. client \in ClientRecord /\ ClientShape(client)
    BY DEF ShapeInvariant, ClientShape
  <1>4. ASSUME ClientShape(client'), SameSession(client, client'), client'.state # "Stopped"
        PROVE  ClientShape(client') /\ ClientKeeps
    BY <1>1, <1>2, <1>4 DEF ClientKeeps, ClientUp
  <1>5. ASSUME client' = client PROVE ClientShape(client') /\ ClientKeeps
    BY <1>1, <1>3, <1>4, <1>5 DEF SameSession, ClientUp
  <1>6. CASE ReceiveStartAck(m)
    <2>1. CASE client.pending = m.id
      <3>1. m.id \in SessionId
        BY <1>1, <1>6, <2>1 DEF ReceiveStartAck, ToClient
      <3>2. client' = AcceptStart(client, m.id)
        BY <1>6, <2>1 DEF ReceiveStartAck
      <3>3. QED
        BY <1>1, <1>2, <1>3, <1>6, <2>1, <3>1, <3>2, AcceptStartShape
        DEF ClientAccepts, ReceiveStartAck, ShapeInvariant
    <2>2. CASE client.pending # m.id
      BY <1>1, <1>2, <1>5, <1>6, <2>2 DEF ReceiveStartAck, ShapeInvariant
    <2>3. QED
      BY <2>1, <2>2
  <1>7. CASE ReceiveHeartbeatAck(m)
    <2>1. CASE client.accepted = m.id /\ client.state \in {"Streaming", "Unreachable"}
      <3>1. client' = AcceptHeartbeat(client)
        BY <1>7, <2>1 DEF ReceiveHeartbeatAck
      <3>2. QED
        BY <1>1, <1>2, <1>3, <1>4, <2>1, <3>1, AcceptHeartbeatShape DEF ShapeInvariant
    <2>2. CASE ~(client.accepted = m.id /\ client.state \in {"Streaming", "Unreachable"})
      BY <1>1, <1>2, <1>5, <1>7, <2>2 DEF ReceiveHeartbeatAck, ShapeInvariant
    <2>3. QED
      BY <2>1, <2>2
  <1>8. CASE ReceiveStopAck(m)
    BY <1>1, <1>2, <1>5, <1>8 DEF ReceiveStopAck, ShapeInvariant
  <1>9. CASE ReceiveAudio(m)
    <2>1. CASE client.state = "Streaming" /\ client.accepted = m.id
      <3>1. client' = [client EXCEPT !.jitter = m.id]
        BY <1>9, <2>1 DEF ReceiveAudio
      <3>2. client' \in ClientRecord
        BY <1>3, <2>1, <3>1, ClientUpdate, ClientFields
      <3>3. /\ client'.state = "Streaming" /\ client'.jitter = m.id
            /\ client'.nextHeartbeat = client.nextHeartbeat
            /\ client'.missed = client.missed
            /\ SameSession(client, client')
        BY <1>3, <2>1, <3>1 DEF ClientRecord, SameSession
      <3>4. ClientShape(client')
        BY <1>3, <2>1, <3>2, <3>3 DEF ClientShape, SameSession
      <3>5. QED
        BY <1>1, <1>2, <1>4, <3>3, <3>4 DEF ShapeInvariant
    <2>2. CASE ~(client.state = "Streaming" /\ client.accepted = m.id)
      BY <1>1, <1>2, <1>5, <1>9, <2>2 DEF ReceiveAudio, ShapeInvariant
    <2>3. QED
      BY <2>1, <2>2
  <1>10. CASE ReceiveCalibration(m)
    <2>1. CASE client.outstanding = m.id
      <3>1. client' = [client EXCEPT !.outstanding = None]
        BY <1>10, <2>1 DEF ReceiveCalibration
      <3>2. client' \in ClientRecord
        BY <1>3, <3>1, ClientUpdate
      <3>3. /\ client'.state = client.state /\ client'.jitter = client.jitter
            /\ client'.nextHeartbeat = client.nextHeartbeat
            /\ client'.nextRetry = client.nextRetry
            /\ client'.startDeadline = client.startDeadline
            /\ client'.missed = client.missed
            /\ SameSession(client, client')
        BY <1>3, <3>1 DEF ClientRecord, SameSession
      <3>4. ClientShape(client')
        BY <1>1, <1>3, <3>2, <3>3 DEF ClientShape, SameSession, ClientUp
      <3>5. QED
        BY <1>1, <1>2, <1>4, <3>3, <3>4 DEF ShapeInvariant, ClientUp
    <2>2. CASE client.outstanding # m.id
      BY <1>1, <1>2, <1>5, <1>10, <2>2 DEF ReceiveCalibration, ShapeInvariant
    <2>3. QED
      BY <2>1, <2>2
  <1>11. QED
    BY <1>6, <1>7, <1>8, <1>9, <1>10 DEF ClientReceive

LEMMA ClientEffect ==
  ASSUME ShapeInvariant, ClientStep
  PROVE  /\ ShapeInvariant'
         /\ ClientIssues \/ ClientEnds \/ ClientAccepts \/ ClientKeeps
  <1>1. /\ ClientShape(client') /\ issuedMax' \in 0..MaxSession /\ NetworkTypeOK'
        /\ ClientIssues \/ ClientEnds \/ ClientAccepts \/ ClientKeeps
    BY ClientLaunchEffect, ClientRestartEffect, AdvanceRestartsEffect, ClientExitEffect,
       AdvanceStreamsEffect, ClientReceiveEffect
    DEF ClientStep, ClientAdvance
  <1>2. server' = server /\ activated' = activated
    BY DEF ClientStep
  <1>3. ShapeInvariant'
    BY <1>1, <1>2 DEF ShapeInvariant
  <1>4. QED
    BY <1>1, <1>3

-----------------------------------------------------------------------------
(* The datagrams a server sends apart from Start Acks.                     *)
Quiet == {m \in ToClient : m.type # "StartAck"}

ServerActivates ==
  \E m \in net :
    /\ m.type = "Start" /\ m.id \in SessionId
    /\ AcceptsStart(server, m.id)
    /\ server'.lastAccepted = m.id
    /\ server'.state # "Idle"
    /\ activated' = activated \cup {m.id}
    /\ net' \subseteq net \cup {Datagram("StartAck", m.id)}

(* A live server becomes Idle: silence, or a Stop for its session.         *)
ServerEnds ==
  /\ server.state # "Idle"
  /\ server'.state = "Idle"
  /\ server'.lastAccepted = server.lastAccepted
  /\ Due(server.heartbeat) \/ \E m \in net : m.type = "Stop" /\ m.id = server.lastActive
  /\ activated' = activated
  /\ net' \subseteq net \cup Quiet

(* A server process ends or begins.                                        *)
ServerForgets ==
  /\ server'.state = "Idle"
  /\ server'.lastAccepted = None
  /\ server'.up => server.state = "Idle"
  /\ activated' = activated
  /\ net' \subseteq net

ServerKeeps ==
  /\ server'.state = "Idle" <=> server.state = "Idle"
  /\ server'.lastAccepted = server.lastAccepted
  /\ activated' = activated
  /\ net' \subseteq net \cup Quiet

ServerWellShaped(s) ==
  /\ ServerShape(s)
  /\ s.state # "Idle" => s.peer
  /\ ~s.up => s.state = "Idle" /\ s.lastAccepted = None

(* Acks other than of a Start are Quiet.                                   *)
LEMMA QuietAcks ==
  ASSUME NEW m \in ToServer, m.type \in {"Heartbeat", "Stop"}
  PROVE  Datagram(AckOf(m.type), m.id) \in Quiet
  <1>1. m.id \in SessionId
    BY DEF ToServer
  <1>2. AckOf(m.type) \in {"HeartbeatAck", "StopAck"}
    BY DEF AckOf
  <1>3. QED
    BY <1>1, <1>2, DatagramTypes, DatagramFields DEF Quiet, AckKind

LEMMA ServerTimeoutEffect ==
  ASSUME ShapeInvariant, ServerTimeout
  PROVE  /\ ServerWellShaped(server') /\ NetworkTypeOK'
         /\ ServerEnds \/ ServerForgets \/ ServerKeeps
  <1>1. PICK a \in Advance(server) : server' = a.to /\ Spend(a.cost)
    BY DEF ServerTimeout
  <1>2. net' = net /\ activated' = activated /\ server.up
    BY DEF ServerTimeout, Responsive
  <1>3. /\ ServerShape(server')
        /\ SameServer(server, server') \/ server' = DownServer
        /\ server.state = "Idle" => server'.state = "Idle"
        /\ server'.state = "Idle" => server.state = "Idle" \/ Due(server.heartbeat)
    BY <1>1, <1>2, AdvanceShape DEF ShapeInvariant
  <1>4. NetworkTypeOK'
    BY <1>1, <1>2 DEF NetworkTypeOK, Spend, ShapeInvariant
  <1>5. CASE SameServer(server, server')
    BY <1>2, <1>3, <1>4, <1>5
    DEF ServerWellShaped, ServerEnds, ServerKeeps, SameServer, ShapeInvariant
  <1>6. CASE server' = DownServer
    BY <1>2, <1>3, <1>4, <1>6, FreshServerShape DEF ServerWellShaped, ServerForgets
  <1>7. QED
    BY <1>3, <1>5, <1>6

LEMMA ServerReceiveEffect ==
  ASSUME ShapeInvariant, NEW m \in net, ServerReceive(m)
  PROVE  /\ ServerWellShaped(server') /\ NetworkTypeOK' /\ activated' \subseteq SessionId
         /\ ServerActivates \/ ServerEnds \/ ServerForgets \/ ServerKeeps
  <1>1. server.up /\ m \in ToServer /\ m.type # "Probe"
    BY DEF ServerReceive, Responsive
  <1>2. m.type \in ControlKind /\ m.id \in SessionId
    BY <1>1 DEF ToServer
  <1>3. PICK a \in Advance(server) :
          \/ /\ ~a.to.up
             /\ server' = a.to /\ Receive(m, {}, a.cost) /\ activated' = activated
          \/ /\ a.to.up
             /\ \E h \in HandleMessage(a.to, m) :
                  LET acked == h.to.up /\ Acks(a.to, m)
                  IN  /\ server' = IF acked THEN UpdatePeer(h.to, m) ELSE h.to
                      /\ Receive(m, IF acked THEN {Datagram(AckOf(m.type), m.id)} ELSE {},
                                 a.cost \cup h.cost)
                      /\ activated' = IF acked /\ m.type = "Start"
                                      THEN activated \cup {m.id} ELSE activated
    BY DEF ServerReceive
  <1>4. /\ ServerShape(a.to)
        /\ SameServer(server, a.to) \/ a.to = DownServer
        /\ server.state = "Idle" => a.to.state = "Idle"
        /\ a.to.state = "Idle" => server.state = "Idle" \/ Due(server.heartbeat)
    BY <1>1, <1>3, AdvanceShape DEF ShapeInvariant
  <1>5. CASE ~a.to.up
    <2>1. server' = DownServer
      BY <1>1, <1>3, <1>4, <1>5 DEF SameServer
    <2>2. NetworkTypeOK' /\ net' \subseteq net
      BY <1>3, <1>5, NetworkEffect DEF ShapeInvariant
    <2>3. QED
      BY <1>3, <1>5, <2>1, <2>2, FreshServerShape
      DEF ServerWellShaped, ServerForgets, ShapeInvariant
  <1>6. CASE a.to.up
    <2>1. SameServer(server, a.to)
      BY <1>4, <1>6, FreshServerShape
    <2> DEFINE acked(h) == h.to.up /\ Acks(a.to, m)
               out(h) == IF acked(h) THEN {Datagram(AckOf(m.type), m.id)} ELSE {}
    <2>2. PICK h \in HandleMessage(a.to, m) :
            /\ server' = IF acked(h) THEN UpdatePeer(h.to, m) ELSE h.to
            /\ Receive(m, out(h), a.cost \cup h.cost)
            /\ activated' = IF acked(h) /\ m.type = "Start"
                            THEN activated \cup {m.id} ELSE activated
      BY <1>3, <1>6
    <2>3. out(h) \subseteq ToClient
      BY <1>2, DatagramTypes DEF AckOf, AckKind, ControlKind
    <2>4. NetworkTypeOK' /\ net' \subseteq net \cup out(h)
      BY <2>2, <2>3, NetworkEffect DEF ShapeInvariant
    <2>5. activated' \subseteq SessionId
      BY <1>2, <2>2 DEF ShapeInvariant
    <2>6. server.state # "Idle" => server.peer
      BY DEF ShapeInvariant
    <2>7. CASE m.type = "Start"
      <3>1. h \in HandleStart(a.to, m.id)
        BY <2>2, <2>7 DEF HandleMessage
      <3>2. /\ ServerShape(h.to)
            /\ ~AcceptsStart(a.to, m.id) => h.to = a.to
            /\ AcceptsStart(a.to, m.id) => /\ h.to.lastAccepted = m.id
                                           /\ h.to.state # "Idle"
                                           /\ h.to.up
        BY <1>2, <1>4, <1>6, <3>1, HandleStartShape
      <3>3. AcceptsStart(a.to, m.id) <=> AcceptsStart(server, m.id)
        BY <2>1 DEF SameServer, AcceptsStart
      <3>4. Acks(a.to, m) <=> AcceptsStart(a.to, m.id)
        BY <2>7 DEF Acks
      <3>5. CASE AcceptsStart(a.to, m.id)
        <4>1. acked(h) /\ out(h) = {Datagram("StartAck", m.id)}
          BY <2>7, <3>2, <3>4, <3>5 DEF AckOf
        <4>2. server' = UpdatePeer(h.to, m) /\ activated' = activated \cup {m.id}
          BY <2>2, <2>7, <4>1
        <4>3. /\ ServerShape(server') /\ server'.up /\ server'.peer
              /\ server'.state # "Idle" /\ server'.lastAccepted = m.id
          BY <2>7, <3>2, <3>5, <4>2, UpdatePeerShape
        <4>4. QED
          BY <1>2, <2>4, <2>5, <2>7, <3>3, <3>5, <4>1, <4>2, <4>3
          DEF ServerWellShaped, ServerActivates
      <3>6. CASE ~AcceptsStart(a.to, m.id)
        <4>1. ~acked(h) /\ out(h) = {}
          BY <3>4, <3>6
        <4>2. server' = a.to /\ activated' = activated /\ net' \subseteq net
          BY <2>2, <2>4, <3>2, <3>6, <4>1
        <4>3. QED
          BY <1>1, <1>4, <1>6, <2>1, <2>4, <2>5, <2>6, <4>2
          DEF ServerWellShaped, ServerEnds, ServerKeeps, SameServer
      <3>7. QED
        BY <3>5, <3>6
    <2>8. CASE m.type = "Heartbeat"
      <3>1. h \in HandleHeartbeat(a.to, m.id)
        BY <2>2, <2>8 DEF HandleMessage
      <3>2. ServerShape(h.to) /\ SameServer(a.to, h.to) /\ h.to.state = a.to.state
        BY <1>4, <3>1, HandleHeartbeatShape
      <3>3. /\ ServerShape(server') /\ server'.up = h.to.up
            /\ server'.state = h.to.state /\ server'.lastAccepted = h.to.lastAccepted
            /\ server'.peer = h.to.peer
        BY <2>2, <2>8, <3>2, UpdatePeerShape
      <3>4. activated' = activated /\ net' \subseteq net \cup Quiet
        BY <1>1, <2>2, <2>4, <2>8, QuietAcks
      <3>5. QED
        BY <1>1, <1>4, <1>6, <2>1, <2>4, <2>5, <2>6, <3>2, <3>3, <3>4
        DEF ServerWellShaped, ServerEnds, ServerKeeps, SameServer
    <2>9. CASE m.type = "Stop"
      <3>1. h \in HandleStop(a.to, m.id)
        BY <2>2, <2>9 DEF HandleMessage
      <3>2. /\ ServerShape(h.to)
            /\ SameServer(a.to, h.to) \/ h.to = DownServer
            /\ a.to.state = "Idle" => h.to.state = "Idle"
            /\ AcceptsStop(a.to, m.id) => h.to.state = "Idle"
            /\ h.to.state = "Idle" => a.to.state = "Idle" \/ AcceptsStop(a.to, m.id)
        BY <1>4, <3>1, HandleStopShape
      <3>3. activated' = activated /\ net' \subseteq net \cup Quiet
        BY <1>1, <2>2, <2>4, <2>9, QuietAcks
      <3>4. CASE h.to = DownServer
        <4>1. ~acked(h) /\ server' = DownServer /\ net' \subseteq net
          BY <2>2, <2>4, <3>4, FreshServerShape
        <4>2. QED
          BY <2>4, <2>5, <3>3, <4>1, FreshServerShape DEF ServerWellShaped, ServerForgets
      <3>5. CASE SameServer(a.to, h.to)
        <4>1. /\ ServerShape(server') /\ server'.up
              /\ server'.state = h.to.state /\ server'.lastAccepted = h.to.lastAccepted
          BY <1>6, <2>2, <3>2, <3>5, UpdatePeerShape DEF SameServer
        <4>2. AcceptsStop(a.to, m.id) <=> server.lastActive = m.id
          BY <1>4, <2>1 DEF AcceptsStop, SameServer, ServerShape, ControlShape, ShapeInvariant
        <4>3. server'.state # "Idle" => server'.peer
          <5>1. SUFFICES ASSUME server'.state # "Idle" PROVE server'.peer
            OBVIOUS
          <5>2. ~AcceptsStop(a.to, m.id)
            BY <3>2, <4>1, <5>1
          <5>3. ~acked(h)
            BY <2>9, <5>2 DEF Acks
          <5>4. QED
            BY <1>4, <2>1, <2>2, <2>6, <3>2, <3>5, <5>1, <5>3 DEF SameServer
        <4>4. QED
          BY <1>4, <2>1, <2>4, <2>5, <2>9, <3>2, <3>3, <3>5, <4>1, <4>2, <4>3
          DEF ServerWellShaped, ServerEnds, ServerKeeps, SameServer
      <3>6. QED
        BY <3>2, <3>4, <3>5
    <2>10. QED
      BY <1>2, <2>7, <2>8, <2>9 DEF ControlKind
  <1>7. QED
    BY <1>3, <1>5, <1>6

(* The steps that change the capture of a server in a session.             *)
LEMMA CaptureEffect ==
  ASSUME ShapeInvariant, CaptureDies \/ CaptureStalls \/ CaptureResumes
  PROVE  ServerWellShaped(server') /\ NetworkTypeOK' /\ ServerKeeps
  <1>1. PICK c \in {"exited", "stalled", "alive"} :
          server' = [server EXCEPT !.capture = c] /\ server.capture # "none"
    BY DEF CaptureDies, CaptureStalls, CaptureResumes
  <1>2. net' = net /\ activated' = activated /\ NetworkTypeOK'
    BY DEF CaptureDies, CaptureStalls, CaptureResumes, Spend, NetworkTypeOK, ShapeInvariant
  <1>3. server \in ServerRecord
    BY DEF ShapeInvariant, ServerShape
  <1>4. server' \in ServerRecord
    BY <1>1, <1>3, ServerUpdate DEF Capture
  <1>5. /\ server'.up = server.up /\ server'.state = server.state
        /\ server'.lastAccepted = server.lastAccepted
        /\ server'.lastActive = server.lastActive
        /\ server'.heartbeat = server.heartbeat /\ server'.nextRetry = server.nextRetry
        /\ server'.capture # "none" /\ server'.peer = server.peer
    BY <1>1, <1>3 DEF ServerRecord
  <1>6. ServerWellShaped(server')
    BY <1>1, <1>4, <1>5 DEF ServerWellShaped, ShapeInvariant, ServerShape, ControlShape
  <1>7. QED
    BY <1>2, <1>5, <1>6 DEF ServerKeeps

LEMMA ServerReadEffect ==
  ASSUME ShapeInvariant, ServerRead
  PROVE  ServerWellShaped(server') /\ NetworkTypeOK' /\ ServerKeeps
  <1>1. /\ server \in ServerRecord /\ ServerShape(server) /\ server.peer
        /\ server.up /\ server.state = "Streaming"
        /\ server.lastActive = server.lastAccepted
        /\ server.lastActive # None /\ server.heartbeat # None
    BY DEF ShapeInvariant, ServerShape, ControlShape, ServerRead, ReadFrame, ReadEndOfFile,
           ReadError, ReadsAudio, Responsive
  <1>2. activated' = activated
    BY DEF ServerRead, ReadFrame, ReadEndOfFile, ReadError
  <1> DEFINE retry == ScheduleCaptureRetry(server)
  <1>3. ServerShape(retry) /\ SameServer(server, retry) /\ retry.state = "Starting"
    BY <1>1, ScheduleCaptureRetryShape
  <1> HIDE DEF retry
  <1>4. CASE ReadFrame
    <2>1. AudioOut \subseteq Quiet
      BY <1>1, ServerFields, DatagramTypes, DatagramFields DEF AudioOut, Quiet, OptSessionId
    <2>2. AudioOut \subseteq ToClient
      BY <2>1 DEF Quiet
    <2>3. Send(AudioOut, {}) /\ server' = server
      BY <1>4 DEF ReadFrame
    <2>4. NetworkTypeOK' /\ net' \subseteq net \cup AudioOut
      BY <2>2, <2>3, NetworkEffect DEF ShapeInvariant
    <2>5. QED
      BY <1>1, <1>2, <2>1, <2>3, <2>4 DEF ServerKeeps, ServerWellShaped
  <1>5. CASE ReadEndOfFile
    <2>1. server' = [retry EXCEPT !.capture = "none"] /\ net' = net /\ faults' = faults
      BY <1>5 DEF ReadEndOfFile, retry
    <2>2. server' \in ServerRecord
      BY <1>3, <2>1, ServerUpdate DEF ServerShape, Capture
    <2>3. /\ server'.up = retry.up /\ server'.state = retry.state
          /\ server'.lastAccepted = retry.lastAccepted
          /\ server'.lastActive = retry.lastActive
          /\ server'.heartbeat = retry.heartbeat /\ server'.nextRetry = retry.nextRetry
          /\ server'.capture = "none" /\ server'.peer = retry.peer
      BY <1>3, <2>1 DEF ServerRecord, ServerShape
    <2>4. ServerWellShaped(server')
      BY <1>1, <1>3, <2>2, <2>3 DEF ServerWellShaped, ServerShape, ControlShape, SameServer
    <2>5. QED
      BY <1>1, <1>2, <1>3, <2>1, <2>3, <2>4
      DEF ServerKeeps, SameServer, NetworkTypeOK, ShapeInvariant
  <1>6. CASE ReadError
    <2>1. server' = retry /\ net' = net /\ NetworkTypeOK'
      BY <1>6 DEF ReadError, retry, Spend, NetworkTypeOK, ShapeInvariant
    <2>2. QED
      BY <1>1, <1>2, <1>3, <2>1 DEF ServerKeeps, SameServer, ServerWellShaped
  <1>7. QED
    BY <1>4, <1>5, <1>6 DEF ServerRead

LEMMA ServerEffect ==
  ASSUME ShapeInvariant, ServerStep
  PROVE  /\ ShapeInvariant'
         /\ ServerActivates \/ ServerEnds \/ ServerForgets \/ ServerKeeps
  <1>1. client' = client /\ issuedMax' = issuedMax
    BY DEF ServerStep
  <1>2. ServerWellShaped(server)
    BY DEF ServerWellShaped, ShapeInvariant
  <1>3. ASSUME ServerWellShaped(server'), NetworkTypeOK', activated' \subseteq SessionId
        PROVE  ShapeInvariant'
    BY <1>1, <1>3 DEF ServerWellShaped, ShapeInvariant
  <1>4. ASSUME activated' = activated PROVE activated' \subseteq SessionId
    BY <1>4 DEF ShapeInvariant
  <1>5. ASSUME NEW m \in net, ServerReceive(m)
        PROVE  ShapeInvariant' /\ (ServerActivates \/ ServerEnds \/ ServerForgets \/ ServerKeeps)
    BY <1>3, <1>5, ServerReceiveEffect
  <1>6. ASSUME NEW m \in net, ServerProbe(m)
        PROVE  ShapeInvariant' /\ ServerKeeps
    <2>1. /\ Receive(m, {Datagram("Reply", m.id)}, {})
          /\ server' = server /\ activated' = activated
          /\ m.id \in 0..MaxProbes
      BY <1>6 DEF ServerProbe, ToServer, ControlKind
    <2>2. Datagram("Reply", m.id) \in Quiet /\ Datagram("Reply", m.id) \in ToClient
      BY <2>1, DatagramTypes, DatagramFields DEF Quiet
    <2>3. NetworkTypeOK' /\ net' \subseteq net \cup {Datagram("Reply", m.id)}
      BY <2>1, <2>2, NetworkEffect DEF ShapeInvariant
    <2>4. QED
      BY <1>2, <1>3, <1>4, <2>1, <2>2, <2>3 DEF ServerKeeps
  <1>7. CASE ServerTimeout
    <2>1. activated' = activated
      BY <1>7 DEF ServerTimeout
    <2>2. QED
      BY <1>3, <1>4, <1>7, <2>1, ServerTimeoutEffect
  <1>8. CASE ServerRead \/ CaptureDies \/ CaptureStalls \/ CaptureResumes
    <2>1. ServerWellShaped(server') /\ NetworkTypeOK' /\ ServerKeeps
      BY <1>8, ServerReadEffect, CaptureEffect
    <2>2. QED
      BY <1>3, <1>4, <2>1 DEF ServerKeeps
  <1>9. CASE ServerCrash
    <2>1. /\ server' = DownServer /\ net' = net /\ activated' = activated /\ NetworkTypeOK'
      BY <1>9 DEF ServerCrash, Spend, NetworkTypeOK, ShapeInvariant
    <2>2. ServerWellShaped(server') /\ ServerForgets
      BY <2>1, FreshServerShape DEF ServerWellShaped, ServerForgets
    <2>3. QED
      BY <1>3, <1>4, <2>1, <2>2
  <1>10. CASE ServerRestart
    <2>1. ~server.up
      BY <1>10 DEF ServerRestart
    <2>2. /\ server' = FreshServer /\ net' = net /\ activated' = activated /\ NetworkTypeOK'
      BY <1>10 DEF ServerRestart, NetworkTypeOK, ShapeInvariant
    <2>3. ServerWellShaped(server') /\ ServerForgets
      BY <1>2, <2>1, <2>2, FreshServerShape DEF ServerWellShaped, ServerForgets
    <2>4. QED
      BY <1>3, <1>4, <2>2, <2>3
  <1>11. QED
    BY <1>5, <1>6, <1>7, <1>8, <1>9, <1>10 DEF ServerStep

-----------------------------------------------------------------------------
(* Time and the network change no session variable.                        *)
Passive ==
  /\ SameSession(client, client') /\ (ClientUp <=> ClientUp')
  /\ issuedMax' = issuedMax
  /\ ServerKeeps
  /\ net' \subseteq net

LEMMA TickEffect ==
  ASSUME ShapeInvariant, Tick
  PROVE  ShapeInvariant' /\ Passive
  <1>1. /\ client' = ClientElapse /\ server' = ServerElapse /\ net' = net
        /\ issuedMax' = issuedMax /\ activated' = activated
        /\ NetworkTypeOK'
    BY DEF Tick, Spend, NetworkTypeOK, ShapeInvariant
  <1>2. /\ ClientShape(client') /\ client'.state = client.state
        /\ SameSession(client, client')
    BY <1>1, ClientElapseShape DEF ShapeInvariant
  <1>3. server \in ServerRecord
    BY DEF ShapeInvariant, ServerShape
  <1>4. server' = [server EXCEPT !.heartbeat = Elapse(server.heartbeat),
                                 !.nextRetry = Elapse(server.nextRetry)]
    BY <1>1, <1>3 DEF ServerElapse, ServerRecord
  <1>5. /\ Elapse(server.heartbeat) \in Deadline(HeartbeatTimeout)
        /\ Elapse(server.nextRetry) \in Deadline(CaptureRetryInterval)
        /\ Elapse(server.heartbeat) = None <=> server.heartbeat = None
        /\ Elapse(server.nextRetry) = None <=> server.nextRetry = None
    BY <1>3, ServerFields, ElapseDeadline, ServerIntervalsAssumption
  <1>6. server' \in ServerRecord
    BY <1>3, <1>4, <1>5, ServerUpdate
  <1>7. /\ server'.up = server.up /\ server'.state = server.state
        /\ server'.lastAccepted = server.lastAccepted
        /\ server'.lastActive = server.lastActive
        /\ server'.heartbeat = Elapse(server.heartbeat)
        /\ server'.nextRetry = Elapse(server.nextRetry)
        /\ server'.capture = server.capture /\ server'.peer = server.peer
    BY <1>3, <1>4 DEF ServerRecord
  <1>8. ServerWellShaped(server')
    BY <1>5, <1>6, <1>7 DEF ServerWellShaped, ShapeInvariant, ServerShape, ControlShape
  <1>9. QED
    BY <1>1, <1>2, <1>7, <1>8
    DEF ShapeInvariant, Passive, ServerKeeps, ServerWellShaped, ClientUp

LEMMA NetworkStepEffect ==
  ASSUME ShapeInvariant, NetworkStep
  PROVE  ShapeInvariant' /\ Passive
  <1>1. /\ client' = client /\ server' = server
        /\ issuedMax' = issuedMax /\ activated' = activated
        /\ net' \subseteq net /\ faults' \in 0..MaxFaults
    BY DEF NetworkStep, Lose, MeetClosedPort, Spend, ShapeInvariant, NetworkTypeOK
  <1>2. QED
    BY <1>1 DEF ShapeInvariant, NetworkTypeOK, Passive, ServerKeeps, SameSession, ClientUp

LEMMA ShapeInit == Init => ShapeInvariant
  <1>1. SUFFICES ASSUME Init PROVE ShapeInvariant
    OBVIOUS
  <1>2. client = NoClient /\ issuedMax = 0 /\ server = FreshServer /\ activated = {}
        /\ net = {} /\ faults = 0
    BY <1>1 DEF Init, NetworkInit, ClientInit, ServerInit
  <1>3. QED
    BY <1>2, NewClientShape, FreshServerShape, FaultsAssumption, BoundsAssumption
    DEF ShapeInvariant, NetworkTypeOK

LEMMA ShapeStep == ShapeInvariant /\ [Next]_vars => ShapeInvariant'
  <1>1. SUFFICES ASSUME ShapeInvariant, [Next]_vars PROVE ShapeInvariant'
    OBVIOUS
  <1>2. CASE Next
    BY <1>1, <1>2, ClientEffect, ServerEffect, TickEffect, NetworkStepEffect DEF Next
  <1>3. CASE UNCHANGED vars
    BY <1>1, <1>3 DEF vars, ShapeInvariant, NetworkTypeOK, ClientShape, ServerShape
  <1>4. QED
    BY <1>1, <1>2, <1>3

(* In every behaviour the state has the shape both control planes rely on. *)
LEMMA ShapeHolds == Spec => []ShapeInvariant
  BY ShapeInit, ShapeStep, PTL DEF Spec

(* Every variable keeps its type: session identifiers, deadlines and       *)
(* counters stay within what the two control planes declare.               *)
THEOREM TypeCorrect == Spec => []TypeOK
  <1>1. ShapeInvariant => TypeOK
    BY DEF ShapeInvariant, TypeOK, ClientTypeOK, ServerTypeOK, ClientShape, ServerShape
  <1>2. QED
    BY <1>1, ShapeHolds, PTL

(* No path into or out of a session leaves audio of another session in the *)
(* client's jitter buffer.                                                 *)
THEOREM JitterIsolated == Spec => []JitterHoldsStreamedSession
  <1>1. ShapeInvariant => JitterHoldsStreamedSession
    BY DEF ShapeInvariant, ClientShape, JitterHoldsStreamedSession
  <1>2. QED
    BY <1>1, ShapeHolds, PTL

(* The client loop never waits in a state whose deadline is not armed.     *)
THEOREM ClientNeverStranded == Spec => []ClientAlwaysHasWakeup
  <1>1. ShapeInvariant => ClientAlwaysHasWakeup
    BY DEF ShapeInvariant, ClientShape, ClientAlwaysHasWakeup
  <1>2. QED
    BY <1>1, ShapeHolds, PTL

(* The server captures the microphone only inside a session, and its       *)
(* deadlines agree with its state.                                         *)
THEOREM CaptureConfined == Spec => []CaptureOnlyInSession
  <1>1. ShapeInvariant => CaptureOnlyInSession
    BY DEF ShapeInvariant, ServerShape, CaptureOnlyInSession
  <1>2. QED
    BY <1>1, ShapeHolds, PTL

-----------------------------------------------------------------------------
(* Part 4: what relates the two sides, given clocks that go forward        *)
(* between client processes.                                               *)

(* The sessions the client holds are issued ones.                          *)
LEMMA HeldIssued ==
  ASSUME ShapeInvariant
  PROVE  Held \subseteq SessionId
  BY ClientFields DEF Held, ShapeInvariant, ClientShape, OptSessionId

(* With every held session the newest, the next Start is one above it.     *)
LEMMA NextIsFresh ==
  ASSUME ShapeInvariant, SessionInvariant, ClockForward, ClientIssues
  PROVE  /\ issuedMax + 1 \in SessionId
         /\ client'.pending = issuedMax + 1 /\ client'.accepted = None
         /\ client'.lastIssued = issuedMax + 1
         /\ issuedMax' = issuedMax + 1
         /\ net' \subseteq net \cup {Datagram("Start", issuedMax + 1)}
  <1>1. PICK id \in SessionId, epoch \in 1..(issuedMax + 1) :
          /\ ClientUp => id = NextSessionId(epoch, client.lastIssued)
          /\ ~ClientUp /\ ClockForward => id = issuedMax + 1
          /\ client'.pending = id /\ client'.accepted = None /\ client'.lastIssued = id
          /\ issuedMax' = IF id > issuedMax THEN id ELSE issuedMax
          /\ net' \subseteq net \cup {Datagram("Start", id)}
    BY DEF ClientIssues
  <1>2. issuedMax \in Nat
    BY BoundsAssumption DEF ShapeInvariant
  <1>3. id = issuedMax + 1
    <2>1. CASE ClientUp
      <3>1. client.lastIssued = issuedMax
        BY <2>1 DEF SessionInvariant
      <3>2. QED
        BY <1>1, <1>2, <2>1, <3>1 DEF NextSessionId
    <2>2. CASE ~ClientUp
      BY <1>1, <2>2
    <2>3. QED
      BY <2>1, <2>2
  <1>4. QED
    BY <1>1, <1>2, <1>3

LEMMA SessionInit == Init => SessionInvariant
  BY NewClientShape
  DEF Init, NetworkInit, ClientInit, ServerInit, SessionInvariant, NoStopForHeldSession,
      AcceptedIsNewestActivated, Held, ClientUp

(* A client step: only its own variables and what it sends matter.         *)
LEMMA SessionClientStep ==
  ASSUME ShapeInvariant, ShapeInvariant', SessionInvariant, ClientStep
  PROVE  SessionInvariant'
  <1>1. SUFFICES ASSUME ClockForward PROVE SessionInvariant'
    BY DEF SessionInvariant, ClockForward
  <1>2. activated' = activated
    BY DEF ClientStep
  <1>3. /\ ClientUp => client.lastIssued = issuedMax
        /\ \A m \in net : m.type \in ControlKind => m.id <= issuedMax
        /\ \A m \in net : m.type = "StartAck" => m.id \in activated
        /\ \A s \in activated : s <= issuedMax
        /\ \A m \in net : m.type = "Stop" => m.id \notin Held
        /\ client.accepted # None => client.accepted \in activated
        /\ \A s \in Held : s = issuedMax
    BY <1>1 DEF SessionInvariant, NoStopForHeldSession, AcceptedIsNewestActivated
  <1>4. issuedMax \in Nat /\ activated \subseteq SessionId /\ Held \subseteq SessionId
    BY HeldIssued, BoundsAssumption DEF ShapeInvariant
  <1>5. \A m \in net : m.type \in ControlKind => m.id \in Int
    BY BoundsAssumption DEF ShapeInvariant, NetworkTypeOK, ToServer, ToClient, SessionId
  <1>6. SUFFICES
          /\ ClientUp' => client'.lastIssued = issuedMax'
          /\ \A m \in net' : m.type \in ControlKind => m.id <= issuedMax'
          /\ \A m \in net' : m.type = "StartAck" => m.id \in activated
          /\ \A s \in activated : s <= issuedMax'
          /\ \A m \in net' : m.type = "Stop" => m.id \notin Held'
          /\ client'.accepted # None => client'.accepted \in activated
          /\ \A s \in Held' : s = issuedMax'
    BY <1>2 DEF SessionInvariant, NoStopForHeldSession, AcceptedIsNewestActivated
  <1>7. CASE ClientIssues
    <2>1. /\ issuedMax + 1 \in SessionId
          /\ client'.pending = issuedMax + 1 /\ client'.accepted = None
          /\ client'.lastIssued = issuedMax + 1
          /\ issuedMax' = issuedMax + 1
          /\ net' \subseteq net \cup {Datagram("Start", issuedMax + 1)}
      BY <1>1, <1>7, NextIsFresh
    <2>2. Held' = {issuedMax + 1}
      BY <2>1, NoneIsNoNumber DEF Held
    <2>3. \A m \in net' : m \in net \/ (m.type = "Start" /\ m.id = issuedMax + 1)
      BY <2>1, DatagramFields
    <2>4. \A m \in net' : m.type \in ControlKind => m.id <= issuedMax'
      BY <1>3, <1>4, <1>5, <2>1, <2>3
    <2>5. \A m \in net' : m.type = "Stop" => m.id \notin Held'
      BY <1>3, <1>4, <1>5, <2>2, <2>3 DEF ControlKind
    <2>6. \A s \in activated : s <= issuedMax'
      BY <1>3, <1>4, <2>1 DEF SessionId
    <2>7. QED
      BY <1>3, <2>1, <2>2, <2>3, <2>4, <2>5, <2>6
  <1>8. CASE ClientEnds
    <2>1. /\ client' = NoClient /\ issuedMax' = issuedMax
          /\ \A m \in net' : m \in net \/ (m.type = "Stop" /\ m.id \in Held)
      BY <1>8, DatagramFields DEF ClientEnds
    <2>2. Held' = {} /\ ~ClientUp' /\ client'.accepted = None
      BY <2>1, NewClientShape DEF Held, ClientUp
    <2>3. \A m \in net' : m.type \in ControlKind => m.id <= issuedMax'
      BY <1>3, <1>4, <2>1
    <2>4. QED
      BY <1>3, <2>1, <2>2, <2>3
  <1>9. CASE ClientAccepts
    <2>1. PICK m \in net :
            /\ m.type = "StartAck" /\ m.id = client.pending /\ m.id \in SessionId
            /\ client'.accepted = m.id /\ client'.pending = None
            /\ client'.lastIssued = client.lastIssued
            /\ ClientUp /\ issuedMax' = issuedMax /\ net' \subseteq net
      BY <1>9 DEF ClientAccepts
    <2>2. m.id \in activated /\ m.id \in Held
      BY <1>3, <2>1, NoneIsNoNumber DEF Held
    <2>3. Held' = {m.id} /\ Held' \subseteq Held
      BY <2>1, <2>2, NoneIsNoNumber DEF Held
    <2>4. QED
      BY <1>3, <2>1, <2>2, <2>3
  <1>10. CASE ClientKeeps
    <2>1. /\ SameSession(client, client') /\ (ClientUp <=> ClientUp')
          /\ issuedMax' = issuedMax
          /\ \A m \in net' :
               m \in net \/ m.type = "Probe" \/ (m.type = "Heartbeat" /\ m.id \in Held)
      BY <1>10, DatagramFields DEF ClientKeeps
    <2>2. Held' = Held /\ client'.accepted = client.accepted
          /\ client'.lastIssued = client.lastIssued
      BY <2>1 DEF SameSession, Held
    <2>3. \A m \in net' : m.type \in ControlKind => m.id <= issuedMax'
      BY <1>3, <1>4, <2>1 DEF ControlKind
    <2>4. QED
      BY <1>3, <2>1, <2>2, <2>3
  <1>11. QED
    BY <1>7, <1>8, <1>9, <1>10, ClientEffect

(* Any other step: the client's session variables stay, and a Start Ack in *)
(* flight answers an activation.                                           *)
LEMMA SessionOtherStep ==
  ASSUME ShapeInvariant, SessionInvariant,
         SameSession(client, client'), ClientUp <=> ClientUp', issuedMax' = issuedMax,
         ServerActivates \/ ServerEnds \/ ServerForgets \/ ServerKeeps
  PROVE  SessionInvariant'
  <1>1. SUFFICES ASSUME ClockForward PROVE SessionInvariant'
    BY DEF SessionInvariant, ClockForward
  <1>2. /\ ClientUp => client.lastIssued = issuedMax
        /\ \A m \in net : m.type \in ControlKind => m.id <= issuedMax
        /\ \A m \in net : m.type = "StartAck" => m.id \in activated
        /\ \A s \in activated : s <= issuedMax
        /\ \A m \in net : m.type = "Stop" => m.id \notin Held
        /\ client.accepted # None => client.accepted \in activated
        /\ \A s \in Held : s = issuedMax
    BY <1>1 DEF SessionInvariant, NoStopForHeldSession, AcceptedIsNewestActivated
  <1>3. Held' = Held /\ client'.accepted = client.accepted
        /\ client'.lastIssued = client.lastIssued
    BY DEF SameSession, Held
  <1>4. \A m \in Quiet : m.type \notin ControlKind /\ m.type # "StartAck"
    BY DEF Quiet, ToClient, AckKind, ControlKind
  <1>5. /\ activated \subseteq activated'
        /\ \A s \in activated' : s <= issuedMax
        /\ \A m \in net' :
             m \in net \/ m \in Quiet \/ (m.type = "StartAck" /\ m.id \in activated')
    <2>1. CASE ServerActivates
      BY <1>2, <2>1, DatagramFields DEF ServerActivates, ControlKind
    <2>2. CASE ServerEnds
      BY <1>2, <2>2 DEF ServerEnds
    <2>3. CASE ServerForgets
      BY <1>2, <2>3 DEF ServerForgets
    <2>4. CASE ServerKeeps
      BY <1>2, <2>4 DEF ServerKeeps
    <2>5. QED
      BY <2>1, <2>2, <2>3, <2>4
  <1>6. \A m \in net' : m.type \in ControlKind => m \in net
    BY <1>4, <1>5 DEF ControlKind
  <1>7. \A m \in net' : m.type = "StartAck" => m.id \in activated'
    BY <1>2, <1>4, <1>5
  <1>8. \A m \in net' : m.type = "Stop" => m \in net
    BY <1>6 DEF ControlKind
  <1>9. QED
    BY <1>2, <1>3, <1>5, <1>6, <1>7, <1>8
    DEF SessionInvariant, NoStopForHeldSession, AcceptedIsNewestActivated

LEMMA SessionStep ==
  ShapeInvariant /\ SessionInvariant /\ [Next]_vars => SessionInvariant'
  <1>1. SUFFICES ASSUME ShapeInvariant, SessionInvariant, [Next]_vars PROVE SessionInvariant'
    OBVIOUS
  <1>2. CASE ClientStep
    BY <1>1, <1>2, ClientEffect, SessionClientStep
  <1>3. CASE ServerStep
    <2>1. client' = client /\ issuedMax' = issuedMax
      BY <1>3 DEF ServerStep
    <2>2. SameSession(client, client') /\ (ClientUp <=> ClientUp')
      BY <2>1 DEF SameSession, ClientUp
    <2>3. QED
      BY <1>1, <1>3, <2>1, <2>2, ServerEffect, SessionOtherStep
  <1>4. CASE Tick \/ NetworkStep
    <2>1. Passive
      BY <1>1, <1>4, TickEffect, NetworkStepEffect
    <2>2. QED
      BY <1>1, <2>1, SessionOtherStep DEF Passive
  <1>5. CASE UNCHANGED vars
    BY <1>1, <1>5
    DEF vars, SessionInvariant, NoStopForHeldSession, AcceptedIsNewestActivated, Held,
        ClientUp
  <1>6. QED
    BY <1>1, <1>2, <1>3, <1>4, <1>5 DEF Next

(* What is in flight and remembered is bounded by what was issued and      *)
(* activated: the invariant both theorems below are read off.              *)
THEOREM SessionsAgree == Spec => []SessionInvariant
  BY ShapeInit, ShapeStep, SessionInit, SessionStep, PTL DEF Spec

(* No Stop in flight can end the session the client holds.                 *)
THEOREM StopsAreStale == Spec => []NoStopForHeldSession
  <1>1. SessionInvariant => NoStopForHeldSession
    BY DEF SessionInvariant, NoStopForHeldSession
  <1>2. QED
    BY <1>1, SessionsAgree, PTL

(* The client streams only the newest issued session, and only after some  *)
(* server activated it.                                                    *)
THEOREM NewestSessionWins == Spec => []AcceptedIsNewestActivated
  <1>1. SessionInvariant => AcceptedIsNewestActivated
    BY DEF SessionInvariant, AcceptedIsNewestActivated
  <1>2. QED
    BY <1>1, SessionsAgree, PTL

-----------------------------------------------------------------------------
(* A server that stays up leaves a session only by silence, or by a Stop   *)
(* for that session, which the client then no longer holds.                *)
THEOREM SessionsEndForCause == Spec => EndsOnlyForCause
  <1> DEFINE Cause ==
        /\ ClockForward
        /\ server.state # "Idle"
        /\ server'.up
        /\ server'.state = "Idle"
        => Due(server.heartbeat) \/ server.lastActive \notin Held
  <1>1. ShapeInvariant /\ SessionInvariant /\ [Next]_vars => [Cause]_<<server, client>>
    <2>1. SUFFICES ASSUME ShapeInvariant, SessionInvariant, [Next]_vars,
                          ClockForward, server.state # "Idle", server'.up,
                          server'.state = "Idle"
                   PROVE  Due(server.heartbeat) \/ server.lastActive \notin Held
      OBVIOUS
    <2>2. ASSUME server' = server PROVE FALSE
      BY <2>1, <2>2
    <2>3. ASSUME ServerKeeps PROVE FALSE
      BY <2>1, <2>3 DEF ServerKeeps
    <2>4. CASE ClientStep
      BY <2>2, <2>4 DEF ClientStep
    <2>5. CASE ServerStep
      <3>1. ServerActivates \/ ServerEnds \/ ServerForgets
        BY <2>1, <2>3, <2>5, ServerEffect
      <3>2. ServerEnds
        BY <2>1, <3>1 DEF ServerActivates, ServerForgets
      <3>3. QED
        BY <2>1, <3>2 DEF ServerEnds, SessionInvariant, NoStopForHeldSession
    <2>6. CASE Tick \/ NetworkStep
      BY <2>1, <2>3, <2>6, TickEffect, NetworkStepEffect DEF Passive
    <2>7. CASE UNCHANGED vars
      BY <2>2, <2>7 DEF vars
    <2>8. QED
      BY <2>1, <2>4, <2>5, <2>6, <2>7 DEF Next
  <1>2. QED
    BY <1>1, ShapeHolds, SessionsAgree, PTL DEF Spec, EndsOnlyForCause

-----------------------------------------------------------------------------
(* Part 5: the two control planes implement the session contract.          *)
LEMMA ContractInit == Init => Contract!Init
  BY NewClientShape, FreshServerShape
  DEF Init, NetworkInit, ClientInit, ServerInit, Contract!Init

LEMMA ContractStep ==
  ASSUME ShapeInvariant, SessionInvariant, ClockForward, [Next]_vars
  PROVE  [Contract!Next]_(Contract!vars)
  <1>1. issuedMax \in Nat
    BY BoundsAssumption DEF ShapeInvariant
  <1>2. CASE ClientStep
    <2>1. server' = server /\ activated' = activated
      BY <1>2 DEF ClientStep
    <2>2. CASE ClientIssues
      <3>1. /\ issuedMax + 1 \in SessionId /\ issuedMax' = issuedMax + 1
            /\ client'.accepted = None
        BY <2>2, NextIsFresh
      <3>2. Contract!Issue
        BY <1>1, <2>1, <3>1 DEF Contract!Issue
      <3>3. QED
        BY <3>2 DEF Contract!Next
    <2>3. CASE ClientEnds
      <3>1. Contract!Disbelieve
        BY <2>1, <2>3, NewClientShape DEF ClientEnds, Contract!Disbelieve
      <3>2. QED
        BY <3>1 DEF Contract!Next
    <2>4. CASE ClientAccepts
      <3>1. PICK m \in net :
              /\ m.type = "StartAck" /\ m.id = client.pending /\ m.id \in SessionId
              /\ client'.accepted = m.id /\ issuedMax' = issuedMax
        BY <2>4 DEF ClientAccepts
      <3>2. m.id \in activated /\ m.id = issuedMax
        BY <3>1, NoneIsNoNumber DEF SessionInvariant, AcceptedIsNewestActivated, Held
      <3>3. Contract!Believe
        BY <2>1, <3>1, <3>2 DEF Contract!Believe
      <3>4. QED
        BY <3>3 DEF Contract!Next
    <2>5. CASE ClientKeeps
      BY <2>1, <2>5 DEF ClientKeeps, SameSession, Contract!vars
    <2>6. QED
      BY <1>2, <2>2, <2>3, <2>4, <2>5, ClientEffect
  <1>3. ASSUME client'.accepted = client.accepted, issuedMax' = issuedMax,
               ServerActivates \/ ServerEnds \/ ServerForgets \/ ServerKeeps
        PROVE  [Contract!Next]_(Contract!vars)
    <2>1. CASE ServerActivates
      <3>1. PICK m \in net :
              /\ m.type = "Start" /\ m.id \in SessionId
              /\ AcceptsStart(server, m.id)
              /\ server'.lastAccepted = m.id /\ server'.state # "Idle"
              /\ activated' = activated \cup {m.id}
        BY <2>1 DEF ServerActivates
      <3>2. m.id <= issuedMax
        BY <3>1 DEF SessionInvariant, ControlKind
      <3>3. Contract!Activate(m.id)
        BY <1>3, <3>1, <3>2 DEF AcceptsStart, IsNewerSession, Contract!Activate
      <3>4. QED
        BY <3>1, <3>3 DEF Contract!Next
    <2>2. CASE ServerEnds
      <3>1. Contract!End
        BY <1>3, <2>2 DEF ServerEnds, Contract!End
      <3>2. QED
        BY <3>1 DEF Contract!Next
    <2>3. CASE ServerForgets
      <3>1. Contract!Forget
        BY <1>3, <2>3 DEF ServerForgets, Contract!Forget
      <3>2. QED
        BY <3>1 DEF Contract!Next
    <2>4. CASE ServerKeeps
      BY <1>3, <2>4 DEF ServerKeeps, Contract!vars
    <2>5. QED
      BY <1>3, <2>1, <2>2, <2>3, <2>4
  <1>4. CASE ServerStep
    BY <1>3, <1>4, ServerEffect DEF ServerStep
  <1>5. CASE Tick \/ NetworkStep
    <2>1. Passive
      BY <1>5, TickEffect, NetworkStepEffect
    <2>2. QED
      BY <1>3, <2>1 DEF Passive, SameSession
  <1>6. CASE UNCHANGED vars
    BY <1>6 DEF vars, Contract!vars
  <1>7. QED
    BY <1>2, <1>4, <1>5, <1>6 DEF Next

(* Every run of the two control planes over a faulty network is a run of   *)
(* the abstract protocol SessionContract.                                  *)
THEOREM Refinement ==
  ASSUME ClockForward
  PROVE  Spec => ImplementsContract
  <1>1. ShapeInvariant /\ SessionInvariant /\ [Next]_vars => [Contract!Next]_(Contract!vars)
    BY ContractStep
  <1>2. QED
    BY <1>1, ContractInit, ShapeHolds, SessionsAgree, PTL
    DEF Spec, ImplementsContract, Contract!Spec

-----------------------------------------------------------------------------
(* Part 6: what happens while nothing goes wrong.                          *)

(* Two heartbeats fit before the limit of missed ones, and one before the  *)
(* server's timeout: 2 missed at most, 5 s and 30 s in the code.           *)
HeartbeatsInTime == MaxMissedHeartbeats >= 2 /\ HeartbeatTimeout > HeartbeatInterval

(* The datagrams that one side or the other acts on.                       *)
InControl(m) == m.type \in ControlKind \cup AckKind

OnlyControl(C) == {m \in net : InControl(m)} = C

Resting ==
  /\ server.up /\ server.state = "Idle" /\ server.capture = "none"
  /\ server.lastAccepted = None /\ server.heartbeat = None

Serving ==
  /\ server.up /\ server.state = "Streaming" /\ server.capture = "alive"
  /\ server.lastAccepted = 1 /\ server.lastActive = 1
  /\ server.heartbeat \in 1..HeartbeatTimeout

Unasked == client.state = "Stopped" /\ issuedMax = 0 /\ OnlyControl({}) /\ Resting

(* The first Start, or its Ack, is under way, and no time passes.          *)
Asking ==
  /\ client.state = "Establishing" /\ issuedMax = 1
  /\ client.pending = 1 /\ client.startDeadline = StartAckTimeout
  /\ \/ OnlyControl({Datagram("Start", 1)}) /\ Resting
     \/ /\ OnlyControl({Datagram("StartAck", 1)}) /\ Serving
        /\ server.heartbeat = HeartbeatTimeout

(* Between heartbeats the server's patience exceeds the client's pause; a  *)
(* heartbeat, or its Ack, is under way for no time.                        *)
Talking ==
  /\ client.state = "Streaming" /\ issuedMax = 1 /\ client.accepted = 1 /\ Serving
  /\ \/ /\ OnlyControl({}) /\ client.missed = 0
        /\ server.heartbeat + HeartbeatInterval >= HeartbeatTimeout + client.nextHeartbeat
     \/ OnlyControl({Datagram("Heartbeat", 1)}) /\ client.nextHeartbeat = HeartbeatInterval
     \/ /\ OnlyControl({Datagram("HeartbeatAck", 1)}) /\ client.nextHeartbeat = HeartbeatInterval
        /\ server.heartbeat = HeartbeatTimeout

Uneventful == faults = 0 => Unasked \/ Asking \/ Talking

LEMMA FaultsAreFinite == \A cost : cost \subseteq Faults => IsFiniteSet(cost)
  <1>1. \A a, b, c, d : IsFiniteSet({a, b, c, d})
    <2>1. ASSUME NEW a, NEW b, NEW c, NEW d PROVE IsFiniteSet({a, b, c, d})
      <3>1. IsFiniteSet({a} \cup {b}) /\ IsFiniteSet({c} \cup {d})
        BY FS_Singleton, FS_Union
      <3>2. IsFiniteSet(({a} \cup {b}) \cup ({c} \cup {d}))
        BY <3>1, FS_Union
      <3>3. ({a} \cup {b}) \cup ({c} \cup {d}) = {a, b, c, d}
        OBVIOUS
      <3> QED
        BY <3>2, <3>3
    <2> QED
      BY <2>1
  <1> DEFINE A == {"lose", "duplicate", "late", "clientCrash"}
             B == {"serverCrash", "menu", "staleClock", "clockBack"}
             C == {"spawnFails", "captureDies", "readError", "stall"}
             D == {"stopFails"}
  <1>2. FaultKind = (A \cup B) \cup (C \cup D)
    BY DEF FaultKind
  <1>3. IsFiniteSet(A) /\ IsFiniteSet(B) /\ IsFiniteSet(C) /\ IsFiniteSet(D)
    BY <1>1, FS_Singleton
  <1> HIDE DEF A, B, C, D
  <1>4. IsFiniteSet(FaultKind)
    <2>1. IsFiniteSet(A \cup B) /\ IsFiniteSet(C \cup D)
      BY <1>3, FS_Union
    <2> QED
      BY <1>2, <2>1, FS_Union
  <1>5. Faults \subseteq FaultKind
    BY FaultsAssumption
  <1>6. ASSUME NEW cost, cost \subseteq Faults PROVE IsFiniteSet(cost)
    <2>1. cost \in SUBSET FaultKind
      BY <1>5, <1>6
    <2> QED
      BY <1>4, <2>1, FS_Subset
  <1> QED
    BY <1>6

(* A step after which nothing has gone wrong cost nothing.                 *)
LEMMA FreeSteps ==
  ASSUME NetworkTypeOK, NEW cost, Spend(cost), faults' = 0
  PROVE  cost = {} /\ faults = 0
  <1>1. IsFiniteSet(cost) /\ faults' = faults + Cardinality(cost)
    BY FaultsAreFinite DEF Spend
  <1>2. Cardinality(cost) \in Nat /\ faults \in Nat
    BY <1>1, FS_CardinalityType DEF NetworkTypeOK
  <1>3. Cardinality(cost) = 0 /\ faults = 0
    BY <1>1, <1>2
  <1> QED
    BY <1>1, <1>3, FS_EmptySet

LEMMA FreeSends ==
  ASSUME NetworkTypeOK, NEW out, NEW cost, Send(out, cost), faults' = 0
  PROVE  cost = {} /\ faults = 0 /\ net' = net \cup out
  <1>1. Spend(cost) /\ net' = net \cup out
    BY DEF Send
  <1> QED
    BY <1>1, FreeSteps

LEMMA FreeReceives ==
  ASSUME NetworkTypeOK, NEW m, NEW out, NEW cost, Receive(m, out, cost), faults' = 0
  PROVE  cost = {} /\ faults = 0 /\ m \in net /\ net' = (net \ {m}) \cup out
  <1>1. CASE Spend(cost) /\ net' = (net \ {m}) \cup out
    BY <1>1, FreeSteps DEF Receive
  <1>2. CASE Spend(cost \cup {"duplicate"})
    <2>1. cost \cup {"duplicate"} = {}
      BY <1>2, FreeSteps
    <2> QED
      BY <2>1
  <1> QED
    BY <1>1, <1>2 DEF Receive

(* Audio and calibration are not the control planes' business.             *)
LEMMA OthersKeepControl ==
  ASSUME NEW m, ~InControl(m), NEW C, OnlyControl(C)
  PROVE  /\ net' = net \ {m} => OnlyControl(C)'
         /\ net' = net \cup {m} => OnlyControl(C)'
         /\ net' = net => OnlyControl(C)'
  BY DEF OnlyControl, InControl

LEMMA ControlKinds ==
  /\ \A id : InControl(Datagram("Start", id)) /\ InControl(Datagram("StartAck", id))
  /\ \A id : InControl(Datagram("Heartbeat", id)) /\ InControl(Datagram("HeartbeatAck", id))
  /\ \A id : ~InControl(Datagram("Audio", id)) /\ ~InControl(Datagram("Probe", id))
  /\ \A id : ~InControl(Datagram("Reply", id))
  BY DEF InControl, Datagram, ControlKind, AckKind

LEMMA SentIsUnderWay ==
  ASSUME OnlyControl({}), NEW m, InControl(m), NEW out, \A n \in out : ~InControl(n),
         net' = net \cup (out \cup {m})
  PROVE  OnlyControl({m})'
  BY DEF OnlyControl, InControl

LEMMA AnsweredIsUnderWay ==
  ASSUME NEW m, OnlyControl({m}), NEW out, \A n \in out : InControl(n),
         net' = (net \ {m}) \cup out
  PROVE  OnlyControl(out)'
  BY DEF OnlyControl, InControl

(* The fields of the client that an uneventful step depends on.            *)
LEMMA UneventfulFields ==
  ASSUME NEW c \in ClientRecord
  PROVE  /\ \A id : LET d == AcceptStart(c, id)
                    IN  d.state = "Streaming" /\ d.accepted = id /\ d.missed = 0
                        /\ d.nextHeartbeat = HeartbeatInterval
         /\ LET d == AcceptHeartbeat(c)
            IN  d.state = "Streaming" /\ d.accepted = c.accepted /\ d.missed = 0
                /\ d.nextHeartbeat = HeartbeatInterval
         /\ LET d == MaybeRecalibrate(c)
            IN  d \in ClientRecord => d.state = c.state /\ d.accepted = c.accepted
                /\ d.missed = c.missed /\ d.nextHeartbeat = c.nextHeartbeat
         /\ \A epoch : LET d == IssueStart(c, epoch)
                       IN  d.state = "Establishing" /\ d.startDeadline = StartAckTimeout
                           /\ d.pending = NextSessionId(epoch, c.lastIssued)
  BY DEF ClientRecord, AcceptStart, AcceptHeartbeat, MaybeRecalibrate, IssueStart

LEMMA FirstHeartbeat ==
  ASSUME HeartbeatsInTime, NEW c \in ClientRecord, c.state = "Streaming", c.missed = 0
  PROVE  LET d == AdvanceStreaming(c)
         IN  d.state = "Streaming" /\ d.accepted = c.accepted
             /\ d.nextHeartbeat = HeartbeatInterval
  <1> DEFINE counted == [c EXCEPT !.missed = c.missed + 1, !.nextHeartbeat = HeartbeatInterval]
  <1>1. /\ counted.missed = 1 /\ counted.state = c.state /\ counted.accepted = c.accepted
        /\ counted.nextHeartbeat = HeartbeatInterval
    BY DEF ClientRecord
  <1>2. AdvanceStreaming(c) = IF counted.missed >= MaxMissedHeartbeats
                              THEN MarkUnreachable(counted) ELSE counted
    BY DEF AdvanceStreaming
  <1> HIDE DEF counted
  <1>3. ~(counted.missed >= MaxMissedHeartbeats)
    BY <1>1, ClientIntervalsAssumption DEF HeartbeatsInTime
  <1>4. AdvanceStreaming(c) = counted
    BY <1>2, <1>3
  <1> QED
    BY <1>1, <1>4

LEMMA UneventfulLaunch ==
  ASSUME ShapeInvariant, Uneventful, ClientLaunch, UNCHANGED server, faults' = 0
  PROVE  Asking'
  <1>1. PICK epoch \in SessionId, cost \in SUBSET {"clockBack"} :
          /\ ClockReading(epoch, cost, "clockBack")
          /\ SendStart(BeginEstablishing(NewClient), {}, epoch, cost)
    BY DEF ClientLaunch
  <1> DEFINE c == BeginEstablishing(NewClient)
             d == IssueStart(c, epoch)
  <1>2. NetworkTypeOK
    BY DEF ShapeInvariant
  <1>3. /\ client' = d /\ d.pending \in SessionId
        /\ issuedMax' = IF d.pending > issuedMax THEN d.pending ELSE issuedMax
        /\ Send({} \cup {Datagram("Start", d.pending)}, cost)
    BY <1>1 DEF SendStart
  <1>4. /\ cost = {} /\ faults = 0
        /\ net' = net \cup ({} \cup {Datagram("Start", d.pending)})
    BY <1>2, <1>3, FreeSends
  <1>5. Unasked
    BY <1>4 DEF Uneventful, ClientLaunch, ClientUp, Asking, Talking
  <1>6. epoch = 1
    BY <1>1, <1>4, <1>5 DEF ClockReading, Unasked
  <1>7. c \in ClientRecord /\ c.lastIssued = 0
    BY NewClientShape, BeginEstablishingShape DEF NewClient, ClientShape
  <1>8. /\ d.state = "Establishing" /\ d.startDeadline = StartAckTimeout
        /\ d.pending = NextSessionId(epoch, c.lastIssued)
    BY <1>7, UneventfulFields
  <1>9. d.pending = 1
    BY <1>6, <1>7, <1>8 DEF NextSessionId
  <1> HIDE DEF c, d
  <1>10. OnlyControl({Datagram("Start", 1)})'
    BY <1>4, <1>5, <1>9, SentIsUnderWay, ControlKinds DEF Unasked
  <1>11. Resting' /\ issuedMax' = 1
    BY <1>3, <1>5, <1>9 DEF Unasked, Resting
  <1> QED
    BY <1>3, <1>8, <1>9, <1>10, <1>11 DEF Asking

LEMMA UneventfulAdvance ==
  ASSUME HeartbeatsInTime, ShapeInvariant, Uneventful, ClientAdvance, UNCHANGED server,
         faults' = 0
  PROVE  Talking'
  <1>1. NetworkTypeOK /\ ClientShape(client) /\ client \in ClientRecord
    BY DEF ShapeInvariant, ClientShape
  <1>2. /\ StartAckTimeout \in Nat \ {0} /\ HeartbeatInterval \in Nat \ {0}
        /\ HeartbeatTimeout \in Nat
    BY ClientIntervalsAssumption, ServerIntervalsAssumption
  <1>3. CASE AdvanceRestarts
    <2>1. PICK cost : Spend(cost)
      BY <1>3 DEF AdvanceRestarts, SendStart, Send
    <2>2. Unasked \/ Asking \/ Talking
      BY <1>1, <2>1, FreeSteps DEF Uneventful
    <2>3. client.state = "Establishing" /\ client.startDeadline = StartAckTimeout
      BY <1>3, <2>2 DEF AdvanceRestarts, Unasked, Asking, Talking
    <2> QED
      BY <1>2, <1>3, <2>3 DEF AdvanceRestarts, TimerDue, Due
  <1>4. CASE AdvanceStreams
    <2> DEFINE probed == MaybeRecalibrate(client)
               sent == ProbesOf(client)
                         \cup IF TimerDue(client) THEN {Datagram("Heartbeat", client.accepted)}
                              ELSE {}
    <2>1. /\ client.state = "Streaming" /\ issuedMax' = issuedMax /\ Send(sent, {})
          /\ client' = IF TimerDue(client) THEN AdvanceStreaming(probed) ELSE probed
      BY <1>4 DEF AdvanceStreams
    <2>2. faults = 0 /\ net' = net \cup sent
      BY <1>1, <2>1, FreeSends
    <2>3. Talking
      BY <2>1, <2>2 DEF Uneventful, Unasked, Asking
    <2>4. probed \in ClientRecord
      BY <1>1, <2>1, MaybeRecalibrateShape DEF ClientShape
    <2>5. /\ probed.state = "Streaming" /\ probed.accepted = 1
          /\ probed.missed = client.missed /\ probed.nextHeartbeat = client.nextHeartbeat
      BY <1>1, <2>1, <2>3, <2>4, UneventfulFields DEF Talking
    <2>6. \A n \in ProbesOf(client) : ~InControl(n)
      BY ControlKinds DEF ProbesOf
    <2>7. issuedMax' = 1 /\ Serving' /\ server' = server
      BY <2>1, <2>3 DEF Talking, Serving
    <2>8. CASE TimerDue(client)
      <3>1. client.nextHeartbeat = 0
        BY <2>1, <2>8 DEF TimerDue, Due
      <3>2. OnlyControl({}) /\ client.missed = 0
        BY <1>2, <2>3, <3>1 DEF Talking
      <3>3. /\ client'.state = "Streaming" /\ client'.accepted = 1
            /\ client'.nextHeartbeat = HeartbeatInterval
        BY <2>1, <2>4, <2>5, <2>8, <3>2, FirstHeartbeat
      <3>4. net' = net \cup (ProbesOf(client) \cup {Datagram("Heartbeat", 1)})
        BY <2>2, <2>3, <2>8 DEF Talking
      <3>5. OnlyControl({Datagram("Heartbeat", 1)})'
        BY <2>6, <3>2, <3>4, SentIsUnderWay, ControlKinds
      <3> QED
        BY <2>7, <3>3, <3>5 DEF Talking
    <2>9. CASE ~TimerDue(client)
      <3>1. client' = probed /\ net' = net \cup ProbesOf(client)
        BY <2>1, <2>2, <2>9
      <3>2. \A C : OnlyControl(C) => OnlyControl(C)'
        BY <2>6, <3>1 DEF OnlyControl, InControl
      <3>3. /\ client'.state = "Streaming" /\ client'.accepted = 1
            /\ client'.missed = client.missed /\ client'.nextHeartbeat = client.nextHeartbeat
        BY <2>5, <3>1
      <3> HIDE DEF probed, sent
      <3> QED
        BY <2>3, <2>7, <3>2, <3>3 DEF Talking
    <2> QED
      BY <2>8, <2>9
  <1> QED
    BY <1>3, <1>4 DEF ClientAdvance

LEMMA UneventfulReceive ==
  ASSUME ShapeInvariant, Uneventful, NEW m \in net, ClientReceive(m), UNCHANGED server,
         faults' = 0
  PROVE  Asking' \/ Talking'
  <1>1. NetworkTypeOK /\ ClientShape(client) /\ client \in ClientRecord
    BY DEF ShapeInvariant, ClientShape
  <1>2. Receive(m, {}, {}) /\ issuedMax' = issuedMax /\ ClientUp
    BY DEF ClientReceive
  <1>3. faults = 0 /\ net' = (net \ {m}) \cup {}
    BY <1>1, <1>2, FreeReceives
  <1>4. Asking \/ Talking
    BY <1>2, <1>3 DEF Uneventful, Unasked, ClientUp
  <1>5. HeartbeatInterval \in Nat \ {0} /\ HeartbeatTimeout \in Nat
    BY ClientIntervalsAssumption, ServerIntervalsAssumption
  <1>6. Resting => Resting'
    BY DEF Resting
  <1>7. Serving => Serving' /\ server'.heartbeat = server.heartbeat
    BY DEF Serving
  <1>8. CASE ReceiveStartAck(m) \/ ReceiveHeartbeatAck(m) \/ ReceiveStopAck(m)
    <2>1. InControl(m)
      BY <1>8 DEF ReceiveStartAck, ReceiveHeartbeatAck, ReceiveStopAck, InControl, AckKind
    <2>2. \A C : OnlyControl(C) => m \in C
      BY <2>1 DEF OnlyControl
    <2>3. CASE Asking
      <3>1. m = Datagram("StartAck", 1) /\ OnlyControl({Datagram("StartAck", 1)})
            /\ Serving /\ server.heartbeat = HeartbeatTimeout
        <4>1. m # Datagram("Start", 1)
          BY <1>8 DEF ReceiveStartAck, ReceiveHeartbeatAck, ReceiveStopAck, Datagram
        <4> QED
          BY <2>2, <2>3, <4>1 DEF Asking
      <3>2. m.type = "StartAck" /\ m.id = 1
        BY <3>1, DatagramFields
      <3>3. client' = AcceptStart(client, 1)
        BY <1>8, <2>3, <3>2 DEF ReceiveStartAck, ReceiveHeartbeatAck, ReceiveStopAck, Asking
      <3>4. /\ client'.state = "Streaming" /\ client'.accepted = 1 /\ client'.missed = 0
            /\ client'.nextHeartbeat = HeartbeatInterval
        BY <1>1, <3>3, UneventfulFields
      <3>5. OnlyControl({})'
        BY <1>3, <3>1, AnsweredIsUnderWay
      <3>6. issuedMax' = 1 /\ Serving' /\ server'.heartbeat = HeartbeatTimeout
        BY <1>2, <1>7, <2>3, <3>1 DEF Asking
      <3>7. server'.heartbeat + HeartbeatInterval >= HeartbeatTimeout + client'.nextHeartbeat
        BY <1>5, <3>4, <3>6
      <3> QED
        BY <3>4, <3>5, <3>6, <3>7 DEF Talking
    <2>4. CASE Talking
      <3>1. m = Datagram("HeartbeatAck", 1) /\ OnlyControl({Datagram("HeartbeatAck", 1)})
            /\ server.heartbeat = HeartbeatTimeout
        <4>1. m # Datagram("Heartbeat", 1)
          BY <1>8 DEF ReceiveStartAck, ReceiveHeartbeatAck, ReceiveStopAck, Datagram
        <4> QED
          BY <2>2, <2>4, <4>1 DEF Talking
      <3>2. m.type = "HeartbeatAck" /\ m.id = 1
        BY <3>1, DatagramFields
      <3>3. client' = AcceptHeartbeat(client)
        BY <1>8, <2>4, <3>2 DEF ReceiveStartAck, ReceiveHeartbeatAck, ReceiveStopAck, Talking
      <3>4. /\ client'.state = "Streaming" /\ client'.accepted = 1 /\ client'.missed = 0
            /\ client'.nextHeartbeat = HeartbeatInterval
        BY <1>1, <2>4, <3>3, UneventfulFields DEF Talking
      <3>5. OnlyControl({})'
        BY <1>3, <3>1, AnsweredIsUnderWay
      <3>6. issuedMax' = 1 /\ Serving' /\ server'.heartbeat = HeartbeatTimeout
        BY <1>2, <1>7, <2>4, <3>1 DEF Talking
      <3>7. server'.heartbeat + HeartbeatInterval >= HeartbeatTimeout + client'.nextHeartbeat
        BY <1>5, <3>4, <3>6
      <3> QED
        BY <3>4, <3>5, <3>6, <3>7 DEF Talking
    <2> QED
      BY <1>4, <2>3, <2>4
  <1>9. CASE ReceiveAudio(m) \/ ReceiveCalibration(m)
    <2>1. ~InControl(m)
      BY <1>9 DEF ReceiveAudio, ReceiveCalibration, InControl, ControlKind, AckKind
    <2>2. \A C : OnlyControl(C) => OnlyControl(C)'
      <3>1. net' = net \ {m}
        BY <1>3
      <3> QED
        BY <2>1, <3>1, OthersKeepControl
    <2>3. /\ client'.state = client.state /\ client'.accepted = client.accepted
          /\ client'.pending = client.pending /\ client'.missed = client.missed
          /\ client'.nextHeartbeat = client.nextHeartbeat
          /\ client'.startDeadline = client.startDeadline
      BY <1>1, <1>9 DEF ReceiveAudio, ReceiveCalibration, ClientRecord
    <2>4. Asking => Asking'
      BY <1>2, <1>6, <1>7, <2>2, <2>3 DEF Asking
    <2>5. Talking => Talking'
      BY <1>2, <1>7, <2>2, <2>3 DEF Talking
    <2> QED
      BY <1>4, <2>4, <2>5
  <1> QED
    BY <1>8, <1>9 DEF ClientReceive

LEMMA UneventfulClient ==
  ASSUME HeartbeatsInTime, ShapeInvariant, Uneventful, ClientStep, faults' = 0
  PROVE  Unasked' \/ Asking' \/ Talking'
  <1>1. NetworkTypeOK
    BY DEF ShapeInvariant
  <1>2. UNCHANGED server
    BY DEF ClientStep
  <1>3. ~ClientRestart /\ ~ClientExit /\ ~ClientCrash
    <2>1. \A out, cost : ~Send(out, cost \cup {"menu"}) /\ ~Send(out, {"menu"})
                         /\ ~Spend({"clientCrash"})
      BY <1>1, FreeSends, FreeSteps
    <2> QED
      BY <2>1 DEF ClientRestart, ClientExit, ClientCrash, SendStart
  <1> QED
    BY <1>2, <1>3, UneventfulLaunch, UneventfulAdvance, UneventfulReceive DEF ClientStep

(* The server's timers have nothing to do.                                 *)
LEMMA NothingDue ==
  ASSUME ShapeInvariant, Resting \/ Serving, NEW a \in Advance(server)
  PROVE  a.to = server /\ a.cost = {}
  <1>1. ~Due(server.heartbeat) /\ server.state # "Starting"
    BY NoneIsNoNumber DEF Resting, Serving, Due
  <1>2. Advance(server) = {Outcome(server, {})}
    BY <1>1 DEF Advance
  <1> QED
    BY <1>2 DEF Outcome

LEMMA StartIsServed ==
  ASSUME ShapeInvariant, Resting, NEW h \in HandleStart(server, 1), h.cost = {}
  PROVE  /\ AcceptsStart(server, 1) /\ h.to.up /\ h.to.state = "Streaming"
         /\ h.to.capture = "alive" /\ h.to.lastAccepted = 1 /\ h.to.lastActive = 1
         /\ h.to.heartbeat = HeartbeatTimeout /\ h.to \in ServerRecord
  <1> DEFINE taken == [server EXCEPT !.lastAccepted = 1, !.lastActive = 1,
                                     !.heartbeat = HeartbeatTimeout]
             s == [taken EXCEPT !.state = "Starting"]
             t == [s EXCEPT !.state = "Streaming", !.nextRetry = None,
                            !.capture = IF @ = "none" THEN "alive" ELSE @]
  <1>1. server \in ServerRecord
    BY DEF ShapeInvariant, ServerShape
  <1>2. AcceptsStart(server, 1)
    BY DEF Resting, AcceptsStart, IsNewerSession
  <1>3. HandleStart(server, 1) = TryStart(s)
    BY <1>2 DEF HandleStart, Resting
  <1>4. /\ s \in ServerRecord /\ s.capture = "none" /\ s.lastAccepted = 1 /\ s.lastActive = 1
        /\ s.heartbeat = HeartbeatTimeout /\ s.up
    <2>1. 1 \in OptSessionId /\ HeartbeatTimeout \in Deadline(HeartbeatTimeout)
      BY BoundsAssumption, ServerIntervalsAssumption DEF OptSessionId, SessionId, Deadline
    <2> QED
      BY <1>1, <2>1 DEF Resting, ServerRecord
  <1> HIDE DEF s
  <1>5. /\ t \in ServerRecord /\ t.up /\ t.state = "Streaming" /\ t.capture = "alive"
        /\ t.lastAccepted = 1 /\ t.lastActive = 1 /\ t.heartbeat = HeartbeatTimeout
    <2>1. None \in Deadline(CaptureRetryInterval) /\ "alive" \in Capture
      BY DEF Deadline, Capture
    <2> QED
      BY <1>4, <2>1 DEF ServerRecord
  <1> HIDE DEF t
  <1>6. h = Outcome(t, {}) \/ h = Outcome(ScheduleCaptureRetry(s), {"spawnFails"})
    BY <1>3, <1>4 DEF TryStart, t
  <1>7. h.to = t
    BY <1>6 DEF Outcome
  <1> QED
    BY <1>2, <1>5, <1>7

LEMMA UneventfulRequest ==
  ASSUME ShapeInvariant, Uneventful, NEW m \in net, ServerReceive(m),
         UNCHANGED <<client, issuedMax>>, faults' = 0
  PROVE  Asking' \/ Talking'
  <1>1. NetworkTypeOK /\ server \in ServerRecord
    BY DEF ShapeInvariant, ServerShape
  <1>2. HeartbeatTimeout \in Nat \ {0} /\ HeartbeatInterval \in Nat \ {0}
    BY ServerIntervalsAssumption, ClientIntervalsAssumption
  <1>3. PICK a \in Advance(server) :
          IF ~a.to.up
          THEN /\ server' = a.to
               /\ Receive(m, {}, a.cost)
               /\ UNCHANGED activated
          ELSE \E h \in HandleMessage(a.to, m) :
                 LET acked == h.to.up /\ Acks(a.to, m)
                 IN  /\ server' = IF acked THEN UpdatePeer(h.to, m) ELSE h.to
                     /\ Receive(m, IF acked THEN {Datagram(AckOf(m.type), m.id)} ELSE {},
                                a.cost \cup h.cost)
                     /\ activated' = IF acked /\ m.type = "Start"
                                     THEN activated \cup {m.id} ELSE activated
    BY DEF ServerReceive
  <1>4. faults = 0
    BY <1>1, <1>3, FreeReceives
  <1>5. Resting \/ Serving
    BY <1>4 DEF Uneventful, Unasked, Asking, Talking
  <1>6. a.to = server /\ a.cost = {} /\ server.up
    BY <1>5, NothingDue DEF Resting, Serving
  <1>7. PICK h \in HandleMessage(server, m) :
          LET acked == h.to.up /\ Acks(server, m)
          IN  /\ server' = IF acked THEN UpdatePeer(h.to, m) ELSE h.to
              /\ Receive(m, IF acked THEN {Datagram(AckOf(m.type), m.id)} ELSE {}, {} \cup h.cost)
    BY <1>3, <1>6
  <1> DEFINE acked == h.to.up /\ Acks(server, m)
  <1>8. /\ server' = IF acked THEN UpdatePeer(h.to, m) ELSE h.to
        /\ h.cost = {}
        /\ net' = (net \ {m}) \cup IF acked THEN {Datagram(AckOf(m.type), m.id)} ELSE {}
    <2>1. {} \cup h.cost = {}
          /\ net' = (net \ {m}) \cup IF acked THEN {Datagram(AckOf(m.type), m.id)} ELSE {}
      BY <1>1, <1>7, FreeReceives
    <2> QED
      BY <1>7, <2>1
  <1>9. InControl(m) /\ m.type \in ControlKind
    BY DEF ServerReceive, ToServer, InControl, ControlKind
  <1>10. \A C : OnlyControl(C) => m \in C
    BY <1>9 DEF OnlyControl
  <1>11. m # Datagram("StartAck", 1) /\ m # Datagram("HeartbeatAck", 1)
    BY <1>9 DEF ControlKind, Datagram
  <1>12. CASE Asking
    <2>1. m = Datagram("Start", 1) /\ OnlyControl({Datagram("Start", 1)}) /\ Resting
      BY <1>10, <1>11, <1>12 DEF Asking
    <2>2. m.type = "Start" /\ m.id = 1
      BY <2>1, DatagramFields
    <2>3. h \in HandleStart(server, 1)
      BY <1>7, <2>2 DEF HandleMessage
    <2>4. /\ AcceptsStart(server, 1) /\ h.to.up /\ h.to.state = "Streaming"
          /\ h.to.capture = "alive" /\ h.to.lastAccepted = 1 /\ h.to.lastActive = 1
          /\ h.to.heartbeat = HeartbeatTimeout /\ h.to \in ServerRecord
      BY <1>8, <2>1, <2>3, StartIsServed
    <2>5. acked
      BY <2>2, <2>4 DEF Acks
    <2>6. server' = [h.to EXCEPT !.peer = TRUE]
      BY <1>8, <2>2, <2>5 DEF UpdatePeer
    <2>7. Serving' /\ server'.heartbeat = HeartbeatTimeout
      BY <1>2, <2>4, <2>6 DEF Serving, ServerRecord
    <2>8. OnlyControl({Datagram("StartAck", 1)})'
      <3>1. net' = (net \ {m}) \cup {Datagram("StartAck", 1)}
        BY <1>8, <2>2, <2>5 DEF AckOf
      <3>2. \A n \in {Datagram("StartAck", 1)} : InControl(n)
        BY ControlKinds
      <3> QED
        BY <2>1, <3>1, <3>2, AnsweredIsUnderWay
    <2> QED
      BY <1>12, <2>7, <2>8 DEF Asking
  <1>13. CASE Talking
    <2>1. m = Datagram("Heartbeat", 1) /\ OnlyControl({Datagram("Heartbeat", 1)}) /\ Serving
          /\ client.nextHeartbeat = HeartbeatInterval
      BY <1>10, <1>11, <1>13 DEF Talking
    <2>2. m.type = "Heartbeat" /\ m.id = 1
      BY <2>1, DatagramFields
    <2>3. AcceptsHeartbeat(server, 1)
      BY <2>1 DEF AcceptsHeartbeat, Serving
    <2>4. h.to = [server EXCEPT !.heartbeat = HeartbeatTimeout]
      BY <1>7, <2>2, <2>3 DEF HandleMessage, HandleHeartbeat, Outcome
    <2>5. h.to.up /\ acked
      BY <1>1, <1>6, <2>2, <2>3, <2>4 DEF Acks, ServerRecord
    <2>6. server' = [server EXCEPT !.heartbeat = HeartbeatTimeout]
      BY <1>8, <2>2, <2>4, <2>5 DEF UpdatePeer
    <2>7. Serving' /\ server'.heartbeat = HeartbeatTimeout
      BY <1>1, <1>2, <2>1, <2>6 DEF Serving, ServerRecord
    <2>8. OnlyControl({Datagram("HeartbeatAck", 1)})'
      <3>1. net' = (net \ {m}) \cup {Datagram("HeartbeatAck", 1)}
        BY <1>8, <2>2, <2>5 DEF AckOf
      <3>2. \A n \in {Datagram("HeartbeatAck", 1)} : InControl(n)
        BY ControlKinds
      <3> QED
        BY <2>1, <3>1, <3>2, AnsweredIsUnderWay
    <2> QED
      BY <1>13, <2>1, <2>7, <2>8 DEF Talking
  <1>14. ~Unasked
    BY <1>10 DEF Unasked
  <1> QED
    BY <1>4, <1>12, <1>13, <1>14 DEF Uneventful

(* A step that concerns neither control plane.                             *)
LEMMA UneventfulOtherwise ==
  ASSUME Uneventful, UNCHANGED <<client, issuedMax, server>>, faults = 0,
         \A C : OnlyControl(C) => OnlyControl(C)'
  PROVE  Unasked' \/ Asking' \/ Talking'
  <1>1. Resting => Resting'
    BY DEF Resting
  <1>2. Serving => Serving' /\ server'.heartbeat = server.heartbeat
    BY DEF Serving
  <1>3. Unasked => Unasked'
    BY <1>1 DEF Unasked
  <1>4. Asking => Asking'
    BY <1>1, <1>2 DEF Asking
  <1>5. Talking => Talking'
    BY <1>2 DEF Talking
  <1> QED
    BY <1>3, <1>4, <1>5 DEF Uneventful

LEMMA UneventfulServer ==
  ASSUME ShapeInvariant, Uneventful, ServerStep, faults' = 0
  PROVE  Unasked' \/ Asking' \/ Talking'
  <1>1. NetworkTypeOK /\ UNCHANGED <<client, issuedMax>>
    BY DEF ShapeInvariant, ServerStep
  <1>2. ASSUME NEW m \in net, ServerReceive(m) PROVE Asking' \/ Talking'
    BY <1>1, <1>2, UneventfulRequest
  <1>3. ASSUME NEW m \in net, ServerProbe(m) PROVE Unasked' \/ Asking' \/ Talking'
    <2>1. UNCHANGED server /\ Receive(m, {Datagram("Reply", m.id)}, {}) /\ m.type = "Probe"
      BY <1>3 DEF ServerProbe
    <2>2. faults = 0 /\ net' = (net \ {m}) \cup {Datagram("Reply", m.id)}
      BY <1>1, <2>1, FreeReceives
    <2>3. ~InControl(m) /\ ~InControl(Datagram("Reply", m.id))
      BY <2>1, ControlKinds DEF InControl, ControlKind, AckKind
    <2>4. \A C : OnlyControl(C) => OnlyControl(C)'
      BY <2>2, <2>3 DEF OnlyControl, InControl
    <2> QED
      BY <1>1, <2>1, <2>2, <2>4, UneventfulOtherwise
  <1>4. ASSUME ReadFrame PROVE Unasked' \/ Asking' \/ Talking'
    <2>1. UNCHANGED server /\ Send(AudioOut, {})
      BY <1>4 DEF ReadFrame
    <2>2. faults = 0 /\ net' = net \cup AudioOut
      BY <1>1, <2>1, FreeSends
    <2>3. \A n \in AudioOut : ~InControl(n)
      BY ControlKinds DEF AudioOut
    <2>4. \A C : OnlyControl(C) => OnlyControl(C)'
      BY <2>2, <2>3 DEF OnlyControl, InControl
    <2> QED
      BY <1>1, <2>1, <2>2, <2>4, UneventfulOtherwise
  <1>5. faults = 0 => Resting \/ Serving
    BY DEF Uneventful, Unasked, Asking, Talking
  <1>6. ~ServerTimeout
    <2>1. SUFFICES ASSUME ServerTimeout PROVE FALSE
      OBVIOUS
    <2>2. PICK a \in Advance(server) : a.to # server /\ Spend(a.cost)
      BY <2>1 DEF ServerTimeout
    <2> QED
      BY <1>1, <1>5, <2>2, FreeSteps, NothingDue
  <1>7. ~ReadEndOfFile /\ ~CaptureResumes /\ ~ServerRestart
    <2>1. ReadEndOfFile \/ CaptureResumes \/ ServerRestart => faults' = faults
      BY DEF ReadEndOfFile, CaptureResumes, ServerRestart
    <2> QED
      BY <1>5, <2>1 DEF ReadEndOfFile, CaptureResumes, ServerRestart, Resting, Serving
  <1>8. ~ReadError /\ ~CaptureDies /\ ~CaptureStalls /\ ~ServerCrash
    <2>1. /\ ~Spend({"readError"}) /\ ~Spend({"captureDies"}) /\ ~Spend({"stall"})
          /\ ~Spend({"serverCrash"})
      BY <1>1, FreeSteps
    <2> QED
      BY <2>1 DEF ReadError, CaptureDies, CaptureStalls, ServerCrash
  <1> QED
    BY <1>2, <1>3, <1>4, <1>6, <1>7, <1>8 DEF ServerStep, ServerRead

LEMMA UneventfulNetwork ==
  ASSUME ShapeInvariant, Uneventful, NetworkStep, faults' = 0
  PROVE  Unasked' \/ Asking' \/ Talking'
  <1>1. NetworkTypeOK /\ UNCHANGED <<client, issuedMax, server>>
    BY DEF ShapeInvariant, NetworkStep
  <1>2. ASSUME NEW m \in net, Lose(m) PROVE Unasked' \/ Asking' \/ Talking'
    <2>1. Spend(IF m.type = "Audio" THEN {} ELSE {"lose"}) /\ net' = net \ {m}
      BY <1>2 DEF Lose
    <2>2. faults = 0 /\ (IF m.type = "Audio" THEN {} ELSE {"lose"}) = {}
      BY <1>1, <2>1, FreeSteps
    <2>3. ~InControl(m)
      BY <2>2 DEF InControl, ControlKind, AckKind
    <2> QED
      BY <1>1, <2>1, <2>2, <2>3, OthersKeepControl, UneventfulOtherwise
  <1>3. ASSUME NEW m \in net, Undeliverable(m), MeetClosedPort(m)
        PROVE  Unasked' \/ Asking' \/ Talking'
    <2>1. faults = 0 /\ net' = net \ {m}
      BY <1>3 DEF MeetClosedPort
    <2>2. Unasked
      BY <1>3, <2>1 DEF Uneventful, Undeliverable, Asking, Talking, Serving, Resting, ClientUp
    <2>3. OnlyControl({})' /\ Resting'
      BY <1>1, <2>1, <2>2 DEF Unasked, OnlyControl, InControl, Resting
    <2> QED
      BY <1>1, <2>2, <2>3 DEF Unasked
  <1> QED
    BY <1>2, <1>3 DEF NetworkStep

(* Time passes only between heartbeats: any datagram of the control planes *)
(* that is under way keeps somebody busy.                                  *)
LEMMA UneventfulTick ==
  ASSUME HeartbeatsInTime, ShapeInvariant, Uneventful, Tick, faults' = 0
  PROVE  Unasked' \/ Talking'
  <1>1. NetworkTypeOK /\ client \in ClientRecord /\ server \in ServerRecord
    BY DEF ShapeInvariant, ClientShape, ServerShape
  <1>2. Spend(IF Busy THEN {"late"} ELSE {}) /\ client' = ClientElapse /\ server' = ServerElapse
        /\ net' = net /\ issuedMax' = issuedMax
    BY DEF Tick
  <1>3. faults = 0 /\ ~Busy
    <2>1. faults = 0 /\ (IF Busy THEN {"late"} ELSE {}) = {}
      BY <1>1, <1>2, FreeSteps
    <2> QED
      BY <2>1
  <1>4. \A C : OnlyControl(C) => OnlyControl(C)'
    BY <1>2 DEF OnlyControl, InControl
  <1>5. /\ client'.state = client.state /\ client'.accepted = client.accepted
        /\ client'.missed = client.missed
        /\ client'.nextHeartbeat = Elapse(client.nextHeartbeat)
    BY <1>1, <1>2 DEF ClientElapse, ClientRecord
  <1>6. /\ server'.up = server.up /\ server'.state = server.state
        /\ server'.capture = server.capture /\ server'.lastAccepted = server.lastAccepted
        /\ server'.lastActive = server.lastActive
        /\ server'.heartbeat = Elapse(server.heartbeat)
    BY <1>1, <1>2 DEF ServerElapse, ServerRecord
  <1>7. ASSUME Resting \/ Serving, ClientUp, NEW m, InControl(m), OnlyControl({m})
        PROVE  FALSE
    <2>1. m \in net /\ m.type # "Audio"
      BY <1>7 DEF OnlyControl, InControl, ControlKind, AckKind
    <2>2. Responsive
      BY <1>7 DEF Resting, Serving, Responsive, Blocked
    <2> QED
      BY <1>3, <1>7, <2>1, <2>2 DEF Busy
  <1>8. ~Asking
    BY <1>7, ControlKinds DEF Asking, ClientUp
  <1>9. Unasked => Unasked'
    <2>1. None # 0 /\ Elapse(None) = None
      BY NoneIsNoNumber DEF Elapse
    <2> QED
      BY <1>2, <1>4, <1>5, <1>6, <2>1 DEF Unasked, Resting
  <1>10. CASE Talking
    <2>1. OnlyControl({}) /\ client.missed = 0
          /\ server.heartbeat + HeartbeatInterval >= HeartbeatTimeout + client.nextHeartbeat
      BY <1>7, <1>10, ControlKinds DEF Talking, ClientUp
    <2>2. client.nextHeartbeat # 0
      BY <1>3, <1>10 DEF Busy, ClientUp, ClientDue, TimerDue, Due, Talking
    <2>3. client.nextHeartbeat \in 1..HeartbeatInterval
      <3>1. client.nextHeartbeat # None
        BY <1>10 DEF ShapeInvariant, ClientShape, Talking
      <3>2. client.nextHeartbeat \in Deadline(HeartbeatInterval)
        BY <1>1, ClientFields
      <3> QED
        BY <2>2, <3>1, <3>2, ClientIntervalsAssumption DEF Deadline
    <2> DEFINE n == client.nextHeartbeat
               h == server.heartbeat
    <2>4. n \in Nat /\ h \in Nat /\ n >= 1 /\ h >= 1 /\ h <= HeartbeatTimeout
      BY <1>10, <2>3, ClientIntervalsAssumption, ServerIntervalsAssumption DEF Talking, Serving
    <2>5. client'.nextHeartbeat = n - 1 /\ server'.heartbeat = h - 1
      BY <1>5, <1>6, <2>4, NoneAssumption DEF Elapse
    <2> HIDE DEF n, h
    <2>6. /\ (h - 1) + HeartbeatInterval >= HeartbeatTimeout + (n - 1)
          /\ h - 1 \in 1..HeartbeatTimeout
      <3>1. h + HeartbeatInterval >= HeartbeatTimeout + n
        BY <2>1 DEF n, h
      <3>2. HeartbeatInterval \in Nat /\ HeartbeatTimeout \in Nat
            /\ HeartbeatTimeout > HeartbeatInterval
        BY ClientIntervalsAssumption, ServerIntervalsAssumption DEF HeartbeatsInTime
      <3> QED
        BY <2>4, <3>1, <3>2
    <2>7. Serving'
      BY <1>6, <1>10, <2>5, <2>6 DEF Talking, Serving
    <2>8. OnlyControl({})' /\ client'.missed = 0
          /\ server'.heartbeat + HeartbeatInterval >= HeartbeatTimeout + client'.nextHeartbeat
      BY <1>4, <1>5, <2>1, <2>5, <2>6
    <2> QED
      BY <1>2, <1>5, <1>10, <2>7, <2>8 DEF Talking
  <1> QED
    BY <1>3, <1>8, <1>9, <1>10 DEF Uneventful

LEMMA UneventfulInit == Init => Uneventful
  <1>1. Init => OnlyControl({})
    BY DEF Init, NetworkInit, OnlyControl
  <1>2. Init => Resting
    BY DEF Init, ServerInit, FreshServer, Resting
  <1>3. Init => client.state = "Stopped" /\ issuedMax = 0
    BY DEF Init, ClientInit, NoClient, NewClient
  <1> QED
    BY <1>1, <1>2, <1>3 DEF Uneventful, Unasked

LEMMA UneventfulStep ==
  ASSUME HeartbeatsInTime, ShapeInvariant, Uneventful, [Next]_vars
  PROVE  Uneventful'
  <1> SUFFICES ASSUME faults' = 0 PROVE Unasked' \/ Asking' \/ Talking'
    BY DEF Uneventful
  <1>1. CASE UNCHANGED vars
    <2>1. \A C : OnlyControl(C) => OnlyControl(C)'
      BY <1>1 DEF vars, OnlyControl, InControl
    <2> QED
      BY <1>1, <2>1, UneventfulOtherwise DEF vars
  <1> QED
    BY <1>1, UneventfulClient, UneventfulServer, UneventfulNetwork, UneventfulTick DEF Next

(* While nothing goes wrong the first session is the only one, and never   *)
(* given up: the heartbeats of the client and the timeout of the server,   *)
(* MAX_MISSED_HEARTBEATS of the one and HEARTBEAT_TIMEOUT of the other,    *)
(* keep it alive for ever, as long as they admit one heartbeat under way.  *)
THEOREM OneSessionWithoutFault ==
  ASSUME HeartbeatsInTime
  PROVE  Spec => []NoReconnectWithoutFault
  <1>1. ShapeInvariant /\ Uneventful /\ [Next]_vars => Uneventful'
    BY UneventfulStep
  <1>2. Uneventful => NoReconnectWithoutFault
    BY DEF Uneventful, NoReconnectWithoutFault, Unasked, Asking, Talking
  <1> QED
    BY <1>1, <1>2, UneventfulInit, ShapeHolds, PTL DEF Spec

=============================================================================
