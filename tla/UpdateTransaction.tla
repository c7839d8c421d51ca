--------------------------- MODULE UpdateTransaction ---------------------------
(***************************************************************************)
(* run_update_transaction of wifimic_update: the order of the adapter's    *)
(* hooks, what a failure of each leads to, and which artifacts the engine  *)
(* cleans up. A hook's failure is the argument ok; what the hook does to   *)
(* the installation is the adapter's (LinuxUpdate, WindowsUpdate), which   *)
(* conjoins its effect with the engine's step.                             *)
(***************************************************************************)
CONSTANT None

VARIABLES
  phase,    (* the hook that is called next                                  *)
  staged,   (* the staging directory exists                                  *)
  backup,   (* the snapshot's backup artifact exists                         *)
  outcome   (* what the transaction returned                                 *)

engine == <<phase, staged, backup, outcome>>

Outcomes == {"NoOp", "Err", "Installed", "RolledBack", "RollbackVerificationFailed"}

ASSUME OutcomeAssumption == None \notin Outcomes

Phases == {"resolve", "stage", "backup", "preSwap", "swap", "postSwap", "health",
           "rollback", "done", "dead"}

EngineTypeOK ==
  /\ phase \in Phases
  /\ staged \in BOOLEAN
  /\ backup \in BOOLEAN
  /\ outcome \in Outcomes \cup {None}
  /\ outcome # None <=> phase = "done"
  /\ backup => phase \notin {"resolve", "stage", "backup"}

EngineInit ==
  /\ phase = "resolve"
  /\ staged = FALSE
  /\ backup = FALSE
  /\ outcome = None

(* A cleanup is best effort: its failure is ignored.                       *)
Remains(artifact) == {FALSE, artifact}

Finish(o) ==
  /\ phase' = "done"
  /\ outcome' = o

(* resolve_action: no target, nothing newer or older, or a target tag.     *)
Resolve ==
  /\ phase = "resolve"
  /\ \/ phase' = "stage" /\ UNCHANGED outcome
     \/ \E o \in {"NoOp", "Err"} : Finish(o)
  /\ UNCHANGED <<staged, backup>>

(* A failed stage cleans up after itself.                                  *)
Stage(ok) ==
  /\ phase = "stage"
  /\ staged' \in IF ok THEN {TRUE} ELSE Remains(TRUE)
  /\ IF ok THEN phase' = "backup" /\ UNCHANGED outcome ELSE Finish("Err")
  /\ UNCHANGED backup

Backup(ok) ==
  /\ phase = "backup"
  /\ backup' = ok
  /\ IF ok THEN phase' = "preSwap" /\ UNCHANGED <<outcome, staged>>
     ELSE Finish("Err") /\ staged' \in Remains(staged)

(* From here on every failure leads to the rollback.                       *)
Hook(at, next, ok) ==
  /\ phase = at
  /\ phase' = IF ok THEN next ELSE "rollback"
  /\ UNCHANGED <<staged, backup, outcome>>

PreSwap(ok)  == Hook("preSwap", "swap", ok)
Swap(ok)     == Hook("swap", "postSwap", ok)
PostSwap(ok) == Hook("postSwap", "health", ok)

HealthCheck(ok) ==
  IF ok
  THEN /\ phase = "health"
       /\ Finish("Installed")
       /\ backup' \in Remains(backup)
       /\ staged' \in Remains(staged)
  ELSE Hook("health", "done", FALSE)

(* Mutant: the backup is removed whatever the rollback reports.            *)
FinishRollbackCleansUp(verified) ==
  /\ phase = "rollback"
  /\ Finish(IF verified THEN "RolledBack" ELSE "RollbackVerificationFailed")
  /\ backup' \in Remains(backup)
  /\ staged' \in Remains(staged)

(* An unverified rollback keeps the backup for the operator.               *)
FinishRollback(verified) ==
  /\ phase = "rollback"
  /\ Finish(IF verified THEN "RolledBack" ELSE "RollbackVerificationFailed")
  /\ backup' \in IF verified THEN Remains(backup) ELSE {backup}
  /\ staged' \in Remains(staged)

Running == phase \notin {"done", "dead"}

(* The updating process is killed, or the machine loses power.             *)
Die ==
  /\ Running
  /\ phase' = "dead"
  /\ UNCHANGED <<staged, backup, outcome>>

=============================================================================
