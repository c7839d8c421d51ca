---------------------------- MODULE WifimicSession ----------------------------
(***************************************************************************)
(* The two control planes over the network: one Windows client, one Linux  *)
(* server, every interleaving of their handlers, lost, duplicated, delayed *)
(* and reordered datagrams, crashes and restarts of both processes, and a  *)
(* capture process that fails.                                             *)
(***************************************************************************)
EXTENDS ClientControl, ServerControl

vars == <<client, issuedMax, server, activated, net, faults>>

Init == NetworkInit /\ ClientInit /\ ServerInit

(* Somebody still has to act on this instant: a datagram that a running    *)
(* process will receive, or a deadline that has passed.                    *)
Busy ==
  \/ \E m \in net : /\ m.type # "Audio"
                    /\ m \in ToServer => Responsive
                    /\ m \in ToClient => ClientUp
  \/ ClientUp /\ ClientDue
  \/ ServerDue

(* Five seconds pass. Both loops and the network answer within             *)
(* milliseconds; a tick that overtakes them is a "late" fault (a suspended *)
(* machine, a starved process, a datagram queued on the Wi-Fi).            *)
Tick ==
  /\ Spend(IF Busy THEN {"late"} ELSE {})
  /\ client' = ClientElapse
  /\ server' = ServerElapse
  /\ UNCHANGED <<net, issuedMax, activated>>

ClientStep ==
  /\ \/ ClientLaunch
     \/ ClientRestart
     \/ ClientExit
     \/ ClientCrash
     \/ ClientAdvance
     \/ \E m \in net : ClientReceive(m)
  /\ UNCHANGED <<server, activated>>

ServerStep ==
  /\ \/ \E m \in net : ServerReceive(m) \/ ServerProbe(m)
     \/ ServerTimeout
     \/ ServerRead
     \/ CaptureDies
     \/ CaptureStalls
     \/ CaptureResumes
     \/ ServerCrash
     \/ ServerRestart
  /\ UNCHANGED <<client, issuedMax>>

(* Sent to a process that is not running.                                  *)
Undeliverable(m) ==
  \/ m \in ToServer /\ ~server.up
  \/ m \in ToClient /\ ~ClientUp

NetworkStep ==
  /\ \E m \in net : \/ Lose(m)
                    \/ Undeliverable(m) /\ MeetClosedPort(m)
  /\ UNCHANGED <<client, issuedMax, server, activated>>

Next == Tick \/ ClientStep \/ ServerStep \/ NetworkStep

Spec == Init /\ [][Next]_vars

(***************************************************************************)
(* Fairness: what the code's loops and the operating system do on their    *)
(* own. Both loops run for ever, so a handler with something to do is      *)
(* taken; time passes; a datagram that is not lost arrives; systemd        *)
(* restarts the server. No fault, no menu event, no launch and no recovery *)
(* of a stalled parec is assumed.                                          *)
(***************************************************************************)
Arrives(m) == m.type # "Audio"

ServerRuns == UNCHANGED <<client, issuedMax>>
ClientRuns == UNCHANGED <<server, activated>>

Fairness ==
  /\ WF_vars(Tick)
  /\ WF_vars(ClientAdvance /\ ClientRuns)
  /\ WF_vars(\E m \in net : Arrives(m) /\ ClientReceive(m) /\ ClientRuns)
  /\ WF_vars(\E m \in net : ServerReceive(m) /\ ServerRuns)
  /\ WF_vars(\E m \in net : ServerProbe(m) /\ ServerRuns)
  /\ WF_vars(ServerTimeout /\ ServerRuns)
  /\ WF_vars(ReadEndOfFile /\ ServerRuns)
  /\ WF_vars(ServerRestart /\ ServerRuns)

FairSpec == Spec /\ Fairness

-----------------------------------------------------------------------------
(* Properties.                                                             *)

TypeOK == NetworkTypeOK /\ ClientTypeOK /\ ServerTypeOK

(* The deployment assumption behind fresh identifiers: a new client        *)
(* process never reads a wall clock behind the identifiers of an earlier   *)
(* one. A running process needs no such assumption.                        *)
ClockForward == "clockBack" \notin Faults

(* The session the client is on, or is asking for.                         *)
Held == {client.pending, client.accepted} \ {None}

(* A Stop still in flight, duplicated or delayed never names the session   *)
(* the client holds, so the server cannot end that session by an old Stop. *)
NoStopForHeldSession ==
  ClockForward => \A m \in net : m.type = "Stop" => m.id \notin Held

(* The client only streams a session some server accepted, and the session *)
(* it holds is the newest one issued by any client: a delayed or           *)
(* duplicated Ack never establishes or restores an older one.              *)
AcceptedIsNewestActivated ==
  ClockForward =>
    /\ client.accepted # None => client.accepted \in activated
    /\ \A s \in Held : s = issuedMax

(* Buffered audio always belongs to the session being streamed: whatever   *)
(* path leaves or replaces a session also empties the jitter buffer, so no *)
(* frame of an earlier session is rendered and no push meets a foreign one.*)
JitterHoldsStreamedSession ==
  client.jitter # None =>
    client.state = "Streaming" /\ client.jitter = client.accepted

(* The client always has a deadline that will wake it in the state it is   *)
(* in: no state waits for a datagram alone.                                *)
ClientAlwaysHasWakeup ==
  /\ client.state = "Establishing" => client.startDeadline # None /\ client.pending # None
  /\ client.state = "Streaming" => /\ client.nextHeartbeat # None /\ client.accepted # None
                                   /\ client.missed < MaxMissedHeartbeats
  /\ client.state = "Unreachable" => client.nextRetry # None /\ client.accepted # None
  /\ client.state = "Stopped" => client = NoClient

(* The microphone is captured only inside a session, and the timers agree  *)
(* with the state: while Idle the loop waits without a timeout, so no      *)
(* deadline may be pending then; every other state has its deadlines and   *)
(* a session, and a streaming server has a process and a destination.      *)
CaptureOnlyInSession ==
  /\ ControlShape(server)
  /\ server.state # "Idle" => server.peer

(* Why the two properties above hold: what is in flight, and what either   *)
(* side remembers, is bounded by what was issued and activated. Together   *)
(* with them it is preserved by every step.                                *)
SessionInvariant ==
  ClockForward =>
    /\ ClientUp => client.lastIssued = issuedMax
    /\ \A m \in net : m.type \in ControlKind => m.id <= issuedMax
    /\ \A m \in net : m.type = "StartAck" => m.id \in activated
    /\ \A s \in activated : s <= issuedMax
    /\ NoStopForHeldSession
    /\ AcceptedIsNewestActivated

(* The server ends, by itself, only a session whose client has fallen      *)
(* silent for the heartbeat timeout or no longer holds it.                 *)
EndsOnlyForCause ==
  [][ /\ ClockForward
      /\ server.state # "Idle"
      /\ server'.up
      /\ server'.state = "Idle"
      => Due(server.heartbeat) \/ server.lastActive \notin Held ]_<<server, client>>

(* A second Start is always the answer to a fault: while nothing goes      *)
(* wrong the heartbeats of both sides keep the first session alive.        *)
NoReconnectWithoutFault ==
  faults = 0 => issuedMax <= 1 /\ client.state # "Unreachable"

(* ClientState::Unreachable, control.rs: "Two heartbeat Acks were missed". *)
(* Where datagrams are lost and nothing else goes wrong, two missed Acks   *)
(* take two losses.                                                        *)
UnreachableAfterTwoMissedAcks ==
  client.state = "Unreachable" => faults >= 2

(* The protocol implements its contract (SessionContract), given           *)
(* ClockForward: otherwise a new process may issue an old identifier.      *)
Contract ==
  INSTANCE SessionContract WITH
    Id <- SessionId,
    issued <- issuedMax,
    highWater <- server.lastAccepted,
    active <- server.state # "Idle",
    believed <- client.accepted

ImplementsContract == Contract!Spec

-----------------------------------------------------------------------------
(* Liveness.                                                               *)

(* Out of the model's scope: no identifier left, or a silent parec.        *)
OutOfScope == issuedMax = MaxSession \/ server.capture = "stalled"

Connected ==
  /\ client.state = "Streaming"
  /\ server.up /\ server.state = "Streaming"
  /\ server.lastActive = client.accepted

(* After the last fault a running client and the server settle on one      *)
(* session, both streaming, and stay there.                                *)
EventuallyConnected == <>[](Connected \/ ~ClientUp \/ OutOfScope)

(* A client that is gone, with or without a Stop, does not leave the       *)
(* microphone captured.                                                    *)
MicrophoneReleased ==
  ~ClientUp ~> (server.capture = "none" \/ ClientUp \/ OutOfScope)

=============================================================================
