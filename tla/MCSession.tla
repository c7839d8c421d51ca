------------------------------ MODULE MCSession ------------------------------
(***************************************************************************)
(* Fault kinds for the model checker's instances of WifimicSession.        *)
(***************************************************************************)
EXTENDS WifimicSession

(* Everything that may go wrong without the wall clock going back between  *)
(* two processes (ClockForward), which the promises rest on.               *)
AllFaults == FaultKind \ {"clockBack"}

(* Datagrams are lost and nothing else goes wrong.                         *)
LossOnly == {"lose"}

(* One of everything a running pair has to recover from.                   *)
RecoveryFaults ==
  {"lose", "duplicate", "late", "clientCrash", "serverCrash", "menu", "spawnFails",
   "captureDies", "readError", "clockBack"}

=============================================================================
