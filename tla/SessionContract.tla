--------------------------- MODULE SessionContract ---------------------------
(***************************************************************************)
(* What the control protocol promises, without timers, retries, capture or *)
(* a network: identifiers are issued in increasing order, the server side  *)
(* activates only issued identifiers, each above its high-water mark, and  *)
(* the client side believes in a session only while that session is the    *)
(* newest one issued and a server has activated it.                        *)
(***************************************************************************)
EXTENDS Integers

CONSTANTS None, Id

VARIABLES
  issued,      (* the greatest identifier issued, 0 before the first         *)
  activated,   (* the identifiers a server has activated                     *)
  highWater,   (* the identifier the server activated last, or None          *)
  active,      (* whether that session is in progress                        *)
  believed     (* the session the client counts as established, or None      *)

vars == <<issued, activated, highWater, active, believed>>

Init ==
  /\ issued = 0
  /\ activated = {}
  /\ highWater = None
  /\ active = FALSE
  /\ believed = None

(* A fresh attempt replaces whatever the client believed.                  *)
Issue ==
  /\ issued' \in Id /\ issued' > issued
  /\ believed' = None
  /\ UNCHANGED <<activated, highWater, active>>

Activate(s) ==
  /\ s <= issued
  /\ highWater = None \/ s > highWater
  /\ highWater' = s
  /\ active' = TRUE
  /\ activated' = activated \cup {s}
  /\ UNCHANGED <<issued, believed>>

(* The session ends by Stop or by silence; its identifier stays used.      *)
End ==
  /\ active /\ ~active'
  /\ UNCHANGED <<issued, activated, highWater, believed>>

(* A server process ends and forgets its high-water mark.                  *)
Forget ==
  /\ highWater' = None
  /\ active' = FALSE
  /\ UNCHANGED <<issued, activated, believed>>

Believe ==
  /\ believed' = issued
  /\ issued \in activated
  /\ UNCHANGED <<issued, activated, highWater, active>>

Disbelieve ==
  /\ believed' = None
  /\ UNCHANGED <<issued, activated, highWater, active>>

Next ==
  \/ Issue
  \/ \E s \in Id : Activate(s)
  \/ End
  \/ Forget
  \/ Believe
  \/ Disbelieve

Spec == Init /\ [][Next]_vars

=============================================================================
