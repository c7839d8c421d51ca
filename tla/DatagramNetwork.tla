--------------------------- MODULE DatagramNetwork ---------------------------
(***************************************************************************)
(* The LAN between the two peers, and the count of things that go wrong.   *)
(*                                                                         *)
(* UDP datagrams in flight are a set: they arrive in any order, may be     *)
(* lost, and may arrive twice (a receive that leaves the datagram in the   *)
(* set). Every fault, of the network, of a process or of the capture, is   *)
(* counted, so that a behaviour has finitely many of them, in any mix, and *)
(* the program's recovery from the last one can be checked.                *)
(***************************************************************************)
EXTENDS SessionProtocol

CONSTANTS
  Faults,     (* the kinds of fault that occur                               *)
  MaxFaults   (* bound: how many of them a behaviour has                     *)

FaultKind ==
  { "lose",        (* a control datagram is lost                             *)
    "duplicate",   (* a datagram is delivered and stays in flight            *)
    "late",        (* five seconds pass with work or datagrams outstanding   *)
    "clientCrash", (* the client process dies without sending Stop           *)
    "serverCrash", (* the server process dies                                *)
    "menu",        (* the user picks Restart or Exit in the tray menu        *)
    "staleClock",  (* a running client reads a wall clock that went back     *)
    "clockBack",   (* a new client process reads a clock that went back      *)
    "spawnFails",  (* parec cannot be spawned                                *)
    "captureDies", (* parec exits: its stdout reaches end of file            *)
    "readError",   (* reading parec's stdout fails, the process stays        *)
    "stall",       (* parec stays alive and stops producing audio            *)
    "stopFails" }  (* parec cannot be killed or reaped                       *)

ASSUME FaultsAssumption == Faults \subseteq FaultKind /\ MaxFaults \in Nat

VARIABLES net, faults

NetworkTypeOK ==
  /\ net \subseteq ToServer \cup ToClient
  /\ faults \in 0..MaxFaults

NetworkInit ==
  /\ net = {}
  /\ faults = 0

(* A step that needs one fault of each kind in `cost`.                     *)
Spend(cost) ==
  /\ cost \subseteq Faults
  /\ faults' \in 0..MaxFaults
  /\ faults' = faults + Cardinality(cost)

(* A process sends the datagrams `out`.                                    *)
Send(out, cost) ==
  /\ net' = net \cup out
  /\ Spend(cost)

(* A process receives m and sends the datagrams `out`.                     *)
Receive(m, out, cost) ==
  /\ m \in net
  /\ \/ /\ net' = (net \ {m}) \cup out
        /\ Spend(cost)
     \/ /\ net' = net \cup out
        /\ Spend(cost \cup {"duplicate"})

(* Audio is lost for free: nothing resends it and no timer waits for it.   *)
Lose(m) ==
  /\ m \in net
  /\ net' = net \ {m}
  /\ Spend(IF m.type = "Audio" THEN {} ELSE {"lose"})

(* Datagrams for a process that is not running meet a closed port.         *)
MeetClosedPort(m) ==
  /\ m \in net
  /\ net' = net \ {m}
  /\ UNCHANGED faults

=============================================================================
