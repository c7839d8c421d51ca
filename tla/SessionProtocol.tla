--------------------------- MODULE SessionProtocol ---------------------------
(***************************************************************************)
(* What the two control planes share: session identifiers and their order  *)
(* (session.rs), the datagrams on UDP port 6902 (control.rs, audio.rs and  *)
(* latency/calibration.rs of the protocol crate) and the optional          *)
(* deadlines both state machines keep.                                     *)
(*                                                                         *)
(* A deadline (an Option<Instant> in the code) is the number of ticks left *)
(* until it passes, or None; one tick stands for five seconds, the unit of *)
(* which every interval of the program is a multiple.                      *)
(***************************************************************************)
EXTENDS Integers, FiniteSets

CONSTANTS
  None,        (* the absent value of an Option                              *)
  MaxSession,  (* bound: session identifiers range over 1..MaxSession        *)
  MaxProbes    (* bound: calibration probes one client process may send      *)

ASSUME BoundsAssumption ==
  /\ MaxSession \in Nat \ {0}
  /\ MaxProbes \in Nat

ASSUME NoneAssumption == None \notin Int

(***************************************************************************)
(* Session identifiers.                                                    *)
(***************************************************************************)
SessionId == 1..MaxSession

OptSessionId == SessionId \cup {None}

(* Mutant: the high-water mark itself is accepted again.                   *)
IsNewerOrSameSession(lastAccepted, candidate) ==
  lastAccepted = None \/ candidate >= lastAccepted

(* A candidate supersedes the high-water mark only if strictly greater.    *)
IsNewerSession(lastAccepted, candidate) ==
  lastAccepted = None \/ candidate > lastAccepted

(* max(epoch milliseconds, last issued + 1).                               *)
NextSessionId(epoch, lastIssued) ==
  IF epoch > lastIssued + 1 THEN epoch ELSE lastIssued + 1

(***************************************************************************)
(* Datagrams: `id` is the session, or the sequence of a calibration packet.*)
(***************************************************************************)
ControlKind == {"Start", "Heartbeat", "Stop"}
AckKind == {"StartAck", "HeartbeatAck", "StopAck"}

ToServer == [type : ControlKind, id : SessionId]
              \cup [type : {"Probe"}, id : 0..MaxProbes]
ToClient == [type : AckKind \cup {"Audio"}, id : SessionId]
              \cup [type : {"Reply"}, id : 0..MaxProbes]

Datagram(type, id) == [type |-> type, id |-> id]

AckOf(kind) ==
  CASE kind = "Start"     -> "StartAck"
    [] kind = "Heartbeat" -> "HeartbeatAck"
    [] kind = "Stop"      -> "StopAck"

(***************************************************************************)
(* Deadlines.                                                              *)
(***************************************************************************)
Deadline(interval) == 0..interval \cup {None}

(* is_some_and(|deadline| now >= deadline)                                 *)
Due(deadline) == deadline = 0

Elapse(deadline) ==
  IF deadline = None \/ deadline = 0 THEN deadline ELSE deadline - 1

=============================================================================
