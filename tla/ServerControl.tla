---------------------------- MODULE ServerControl ----------------------------
(***************************************************************************)
(* The control plane of wifimic_server (control.rs, control_support.rs),   *)
(* the capture handle it drives (capture.rs) and the service loop around   *)
(* both (main.rs).                                                         *)
(*                                                                         *)
(* A handler that can fail has several outcomes: records [to, cost] of the *)
(* control plane it leaves and the faults that choose it. An outcome whose *)
(* `to` is not up is a handler error that ends the process.                *)
(***************************************************************************)
EXTENDS DatagramNetwork

CONSTANTS
  HeartbeatTimeout,      (* HEARTBEAT_TIMEOUT       30 s: 6 ticks            *)
  CaptureRetryInterval   (* CAPTURE_RETRY_INTERVAL   5 s: 1 tick             *)

ASSUME ServerIntervalsAssumption ==
  /\ HeartbeatTimeout \in Nat \ {0}
  /\ CaptureRetryInterval \in Nat \ {0}

VARIABLES
  server,     (* the control plane, its capture handle and the audio peer    *)
  activated   (* history: the sessions some server process has accepted      *)

(* The handle owns no parec, a running one, one that has exited and was    *)
(* not reaped, or one that is alive and silent.                            *)
Capture == {"none", "alive", "exited", "stalled"}

ServerRecord ==
  [ up           : BOOLEAN,
    state        : {"Idle", "Starting", "Streaming"},
    lastAccepted : OptSessionId,
    lastActive   : OptSessionId,
    heartbeat    : Deadline(HeartbeatTimeout),
    nextRetry    : Deadline(CaptureRetryInterval),
    capture      : Capture,
    peer         : BOOLEAN ]

ServerTypeOK ==
  /\ server \in ServerRecord
  /\ activated \subseteq SessionId

(* A new process remembers no session.                                     *)
FreshServer ==
  [ up |-> TRUE, state |-> "Idle", lastAccepted |-> None, lastActive |-> None,
    heartbeat |-> None, nextRetry |-> None, capture |-> "none", peer |-> FALSE ]

DownServer == [FreshServer EXCEPT !.up = FALSE]

ServerInit ==
  /\ server = FreshServer
  /\ activated = {}

Outcome(to, cost) == [to |-> to, cost |-> cost]

-----------------------------------------------------------------------------
(* The private steps of the control plane, as functions of its state s.    *)

ScheduleCaptureRetry(s) ==
  [s EXCEPT !.state = "Starting", !.nextRetry = CaptureRetryInterval]

(* Mutant: a started capture leaves the retry pending.                     *)
TryStartKeepsRetry(s) ==
  {Outcome([s EXCEPT !.state = "Streaming", !.capture = IF @ = "none" THEN "alive" ELSE @], {})}
  \cup IF s.capture = "none"
       THEN {Outcome(ScheduleCaptureRetry(s), {"spawnFails"})}
       ELSE {}

(* CaptureHandle::start spawns only if the handle owns no process, so it   *)
(* succeeds over one that exited or whose read failed.                     *)
TryStart(s) ==
  {Outcome([s EXCEPT !.state = "Streaming",
                     !.nextRetry = None,
                     !.capture = IF @ = "none" THEN "alive" ELSE @], {})}
  \cup IF s.capture = "none"
       THEN {Outcome(ScheduleCaptureRetry(s), {"spawnFails"})}
       ELSE {}

(* CaptureHandle::stop gives the process up even if killing it fails.      *)
StopAndIdle(s) ==
  {Outcome([s EXCEPT !.state = "Idle",
                     !.heartbeat = None,
                     !.nextRetry = None,
                     !.capture = "none"], {})}
  \cup IF s.capture = "none" THEN {} ELSE {Outcome(DownServer, {"stopFails"})}

(* advance(now): the heartbeat timeout, else one due capture retry.        *)
Advance(s) ==
  IF Due(s.heartbeat)
  THEN IF s.lastActive = None THEN {Outcome(s, {})} ELSE StopAndIdle(s)
  ELSE IF s.state = "Starting" /\ Due(s.nextRetry)
       THEN TryStart(s)
       ELSE {Outcome(s, {})}

-----------------------------------------------------------------------------
(* The control messages. Reply(s, m) is the Ack, empty for a rejection.    *)

AcceptsStart(s, id) == IsNewerSession(s.lastAccepted, id)

(* Mutant: silence is counted from the first heartbeat, not from Start.    *)
HandleStartUntimed(s, id) ==
  IF ~AcceptsStart(s, id) THEN {Outcome(s, {})}
  ELSE LET taken == [s EXCEPT !.lastAccepted = id, !.lastActive = id]
       IN  IF s.state = "Idle" THEN TryStart([taken EXCEPT !.state = "Starting"])
           ELSE {Outcome(taken, {})}

(* A newer Start while Starting postpones the capture retry; while         *)
(* Streaming it takes over the running capture.                            *)
HandleStart(s, id) ==
  LET taken == [s EXCEPT !.lastAccepted = id,
                         !.lastActive = id,
                         !.heartbeat = HeartbeatTimeout]
  IN  CASE ~AcceptsStart(s, id)   -> {Outcome(s, {})}
        [] AcceptsStart(s, id) /\ s.state = "Idle" ->
             TryStart([taken EXCEPT !.state = "Starting"])
        [] AcceptsStart(s, id) /\ s.state = "Starting" ->
             {Outcome([taken EXCEPT !.nextRetry = CaptureRetryInterval], {})}
        [] AcceptsStart(s, id) /\ s.state = "Streaming" ->
             {Outcome(taken, {})}

AcceptsHeartbeat(s, id) == s.lastActive = id /\ s.state = "Streaming"

(* Mutant: the heartbeat is acknowledged and not noted.                    *)
HandleHeartbeatUnnoted(s, id) == {Outcome(s, {})}

HandleHeartbeat(s, id) ==
  IF AcceptsHeartbeat(s, id)
  THEN {Outcome([s EXCEPT !.heartbeat = HeartbeatTimeout], {})}
  ELSE {Outcome(s, {})}

(* Mutant: whatever session a Stop names.                                  *)
AcceptsAnyStop(s, id) == s.lastActive # None

AcceptsStop(s, id) == s.lastActive = id

HandleStop(s, id) ==
  IF AcceptsStop(s, id) /\ s.state # "Idle" THEN StopAndIdle(s) ELSE {Outcome(s, {})}

HandleMessage(s, m) ==
  CASE m.type = "Start"     -> HandleStart(s, m.id)
    [] m.type = "Heartbeat" -> HandleHeartbeat(s, m.id)
    [] m.type = "Stop"      -> HandleStop(s, m.id)

Acks(s, m) ==
  CASE m.type = "Start"     -> AcceptsStart(s, m.id)
    [] m.type = "Heartbeat" -> AcceptsHeartbeat(s, m.id)
    [] m.type = "Stop"      -> AcceptsStop(s, m.id)

(* The loop makes the sender of an acknowledged Start the audio peer and   *)
(* forgets it at an acknowledged Stop.                                     *)
UpdatePeer(s, m) ==
  CASE m.type = "Start" -> [s EXCEPT !.peer = TRUE]
    [] m.type = "Stop"  -> [s EXCEPT !.peer = FALSE]
    [] OTHER            -> s

-----------------------------------------------------------------------------
(* What the control plane keeps true between two handlers.                 *)
ControlShape(s) ==
  /\ s.lastActive = s.lastAccepted
  /\ s.capture # "none" => s.state # "Idle"
  /\ s.state = "Idle" <=> s.heartbeat = None
  /\ s.state = "Starting" <=> s.nextRetry # None
  /\ s.state # "Idle" => s.lastActive # None
  /\ s.state = "Streaming" => s.capture # "none"

-----------------------------------------------------------------------------
(* The service loop. It is stuck in next_audio_frame while parec is silent.*)
Blocked == server.state = "Streaming" /\ server.peer /\ server.capture = "stalled"

Responsive == server.up /\ ~Blocked

(* handle_datagram: timers first, then the message. The loop's own advance *)
(* finds nothing due right after it.                                       *)
ServerReceive(m) ==
  /\ Responsive
  /\ m \in ToServer /\ m.type # "Probe"
  /\ \E a \in Advance(server) :
       IF ~a.to.up
       THEN /\ server' = a.to
            /\ Receive(m, {}, a.cost)
            /\ UNCHANGED activated
       ELSE \E h \in HandleMessage(a.to, m) :
              LET acked == h.to.up /\ Acks(a.to, m)
              IN  /\ server' = IF acked THEN UpdatePeer(h.to, m) ELSE h.to
                  /\ Receive(m, IF acked THEN {Datagram(AckOf(m.type), m.id)} ELSE {},
                             a.cost \cup h.cost)
                  /\ activated' = IF acked /\ m.type = "Start"
                                  THEN activated \cup {m.id} ELSE activated

(* A probe is answered and the rest of the loop iteration skipped.         *)
ServerProbe(m) ==
  /\ Responsive
  /\ m \in ToServer /\ m.type = "Probe"
  /\ Receive(m, {Datagram("Reply", m.id)}, {})
  /\ UNCHANGED <<server, activated>>

(* The receive timed out: advance alone. While Idle the receive has no     *)
(* timeout.                                                                *)
ServerTimeout ==
  /\ Responsive
  /\ server.state # "Idle"
  /\ \E a \in Advance(server) :
       /\ a.to # server
       /\ server' = a.to
       /\ Spend(a.cost)
  /\ UNCHANGED <<net, activated>>

(* Bound: one audio datagram in flight; a frame sent meanwhile is lost.    *)
AudioOut == IF \E m \in net : m.type = "Audio" THEN {} ELSE {Datagram("Audio", server.lastActive)}

ReadsAudio == Responsive /\ server.state = "Streaming" /\ server.peer

(* next_audio_frame reads one frame, reaches end of file, or fails.        *)
ReadFrame ==
  /\ ReadsAudio
  /\ server.capture = "alive"
  /\ Send(AudioOut, {})
  /\ UNCHANGED <<server, activated>>

ReadEndOfFile ==
  /\ ReadsAudio
  /\ server.capture = "exited"
  /\ server' = [ScheduleCaptureRetry(server) EXCEPT !.capture = "none"]
  /\ UNCHANGED <<net, faults, activated>>

ReadError ==
  /\ ReadsAudio
  /\ server.capture = "alive"
  /\ server' = ScheduleCaptureRetry(server)
  /\ Spend({"readError"})
  /\ UNCHANGED <<net, activated>>

ServerRead == ReadFrame \/ ReadEndOfFile \/ ReadError

-----------------------------------------------------------------------------
(* parec and the process around the control plane.                         *)
CaptureDies ==
  /\ server.capture \in {"alive", "stalled"}
  /\ server' = [server EXCEPT !.capture = "exited"]
  /\ Spend({"captureDies"})
  /\ UNCHANGED <<net, activated>>

CaptureStalls ==
  /\ server.capture = "alive"
  /\ server' = [server EXCEPT !.capture = "stalled"]
  /\ Spend({"stall"})
  /\ UNCHANGED <<net, activated>>

CaptureResumes ==
  /\ server.capture = "stalled"
  /\ server' = [server EXCEPT !.capture = "alive"]
  /\ UNCHANGED <<net, faults, activated>>

(* The process dies, and systemd's control group takes parec with it.      *)
ServerCrash ==
  /\ server.up
  /\ server' = DownServer
  /\ Spend({"serverCrash"})
  /\ UNCHANGED <<net, activated>>

(* Restart=always                                                          *)
ServerRestart ==
  /\ ~server.up
  /\ server' = FreshServer
  /\ UNCHANGED <<net, faults, activated>>

(* A timer the loop would act on if it ran now.                            *)
ServerDue == Responsive /\ \E a \in Advance(server) : a.to # server

ServerElapse ==
  [server EXCEPT !.heartbeat = Elapse(@), !.nextRetry = Elapse(@)]

=============================================================================
