---------------------------- MODULE UpdateContract ----------------------------
(***************************************************************************)
(* What the update transaction promises of the installed program, on both  *)
(* platforms and wherever it is interrupted: nothing is touched before the *)
(* prior program is backed up, the prior program stays recoverable until   *)
(* the new one is accepted, and the outcome tells which one is installed.  *)
(***************************************************************************)
CONSTANT None

VARIABLES
  installed,   (* the program at the install path                            *)
  touched,     (* whether installed or managed state was ever changed        *)
  backup,      (* whether a copy of the prior program is kept                *)
  outcome

vars == <<installed, touched, backup, outcome>>

Init ==
  /\ installed = "prior"
  /\ touched = FALSE
  /\ backup = FALSE
  /\ outcome = None

BackUp ==
  /\ outcome = None /\ ~touched
  /\ backup' = TRUE
  /\ UNCHANGED <<installed, touched, outcome>>

(* The program is replaced whole, never torn, or managed state changes.    *)
Mutate ==
  /\ outcome = None /\ backup
  /\ touched' = TRUE
  /\ installed' \in {"prior", "new"}
  /\ UNCHANGED <<backup, outcome>>

(* Returned without a backup: the installation is as it was.               *)
Decline ==
  /\ outcome = None /\ ~touched
  /\ outcome' \in {"NoOp", "Err"}
  /\ UNCHANGED <<installed, touched, backup>>

Accept ==
  /\ outcome = None /\ installed = "new"
  /\ outcome' = "Installed"
  /\ backup' \in BOOLEAN
  /\ UNCHANGED <<installed, touched>>

(* The last step of a verified rollback may still change managed state.    *)
Revert ==
  /\ outcome = None /\ backup
  /\ touched' \in {touched, TRUE}
  /\ outcome' = "RolledBack"
  /\ installed' = "prior"
  /\ backup' \in BOOLEAN

GiveUp ==
  /\ outcome = None /\ backup
  /\ touched' \in {touched, TRUE}
  /\ outcome' = "RollbackVerificationFailed"
  /\ UNCHANGED <<installed, backup>>

Next == BackUp \/ Mutate \/ Decline \/ Accept \/ Revert \/ GiveUp

Spec == Init /\ [][Next]_vars

=============================================================================
