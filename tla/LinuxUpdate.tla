----------------------------- MODULE LinuxUpdate -----------------------------
(***************************************************************************)
(* wifimic_server upgrade: LinuxUpdateAdapter (upgrade.rs) and the file    *)
(* and systemd operations it calls (upgrade_native.rs), under the shared   *)
(* engine, beside the unit it stops and restarts (ServerUnit). The command *)
(* runs from the installed binary, so the install path is current_exe(),   *)
(* made canonical anew by every hook that needs it.                        *)
(***************************************************************************)
EXTENDS UpdateTransaction, ServerUnit

VARIABLES
  installed,   (* the program at the install path                            *)
  linked,      (* the path of the running executable still exists            *)
  restored,    (* rollback: what the restore reported, None before it        *)
  touched,     (* history: installed or managed state was changed            *)
  broken       (* history: a file or systemctl call of the rollback failed   *)

ASSUME RestoredAssumption == None \notin BOOLEAN

binary == <<installed, linked>>

vars == <<engine, service, binary, restored, touched, broken>>

TypeOK ==
  /\ EngineTypeOK
  /\ UnitTypeOK
  /\ installed \in {"prior", "new"}
  /\ linked \in BOOLEAN
  /\ restored \in BOOLEAN \cup {None}
  /\ touched \in BOOLEAN
  /\ broken \in BOOLEAN

Init ==
  /\ EngineInit
  /\ UnitInit
  /\ installed = "prior"
  /\ linked = TRUE
  /\ restored = None
  /\ touched = FALSE
  /\ broken = FALSE

(* The file an executable was started from is replaced by rename(2): its   *)
(* own path then reads "... (deleted)" and cannot be made canonical.       *)
Replace(program) ==
  /\ installed' = program
  /\ linked' = FALSE

(* current_exe() made canonical.                                           *)
InstallPath == linked

(* Mutant: a release is unpacked straight into the install path.           *)
StageInPlace ==
  /\ \E ok \in BOOLEAN :
       /\ Stage(ok)
       /\ installed' = IF ok THEN "new" ELSE installed
  /\ UNCHANGED <<linked, service, restored, touched, broken>>

StageRelease ==
  /\ \E ok \in BOOLEAN : Stage(ok)
  /\ UNCHANGED <<service, binary, restored, touched, broken>>

BackupBinary ==
  /\ \E ok \in BOOLEAN : (ok => InstallPath) /\ Backup(ok)
  /\ UNCHANGED <<service, binary, restored, touched, broken>>

(* systemctl may have done its work and still report a failure.            *)
Stopped(ok) == Stop \/ (~ok /\ UNCHANGED service)

Restarted(ok) ==
  \/ Start(FALSE) /\ (ok => unit' = "active")
  \/ ~ok /\ UNCHANGED service

StopService ==
  /\ \E ok \in BOOLEAN : PreSwap(ok) /\ Stopped(ok)
  /\ touched' = TRUE
  /\ UNCHANGED <<binary, restored, broken>>

(* Copy next to the install path, then rename over it.                     *)
SwapBinary ==
  /\ \E ok \in BOOLEAN :
       /\ ok => InstallPath
       /\ Swap(ok)
       /\ IF ok THEN Replace("new") ELSE UNCHANGED binary
  /\ UNCHANGED <<service, restored, touched, broken>>

RestartService ==
  /\ \E ok \in BOOLEAN : PostSwap(ok) /\ Restarted(ok)
  /\ UNCHANGED <<binary, restored, touched, broken>>

(* is-active answers once, the deadline passes, or the query fails.        *)
WaitForActive ==
  /\ \E ok \in BOOLEAN : (ok => unit = "active") /\ HealthCheck(ok)
  /\ UNCHANGED <<service, binary, restored, touched, broken>>

(* rollback: the backup is renamed over the install path, if that path can *)
(* still be found.                                                         *)
RestoreBinary ==
  /\ phase = "rollback" /\ restored = None
  /\ \E copied \in BOOLEAN :
       /\ restored' = (InstallPath /\ copied)
       /\ broken' = (InstallPath /\ ~copied)
       /\ IF restored' THEN Replace("prior") ELSE UNCHANGED binary
  /\ UNCHANGED <<phase, staged, backup, outcome, service, touched>>

(* Mutant: verified as soon as the service is running again.               *)
RestartPriorUnchecked ==
  /\ restored # None
  /\ \E ok \in BOOLEAN :
       /\ FinishRollback(ok)
       /\ Restarted(ok)
       /\ broken' = (broken \/ ~ok)
  /\ UNCHANGED <<binary, restored, touched>>

(* Mutant: without the prior binary there is nothing to restart.           *)
RestartPriorIfRestored ==
  /\ restored # None
  /\ \E ok \in BOOLEAN :
       /\ FinishRollback(restored /\ ok)
       /\ IF restored THEN Restarted(ok) ELSE UNCHANGED service
       /\ broken' = (broken \/ ~ok)
  /\ UNCHANGED <<binary, restored, touched>>

(* The service is restarted whether or not the binary was restored.        *)
RestartPrior ==
  /\ restored # None
  /\ \E ok \in BOOLEAN :
       /\ FinishRollback(restored /\ ok)
       /\ Restarted(ok)
       /\ broken' = (broken \/ ~ok)
  /\ UNCHANGED <<binary, restored, touched>>

Transaction ==
  \/ Resolve /\ UNCHANGED <<service, binary, restored, touched, broken>>
  \/ StageRelease
  \/ BackupBinary
  \/ StopService
  \/ SwapBinary
  \/ RestartService
  \/ WaitForActive
  \/ RestoreBinary
  \/ RestartPrior

Next ==
  \/ Transaction
  \/ ServiceStep /\ UNCHANGED <<engine, binary, restored, touched, broken>>
  \/ Die /\ UNCHANGED <<service, binary, restored, touched, broken>>

(* The command goes on unless it is killed.                                *)
Spec == Init /\ [][Next]_vars /\ WF_vars(Transaction) /\ ServiceFairness

-----------------------------------------------------------------------------
(* Properties.                                                             *)

(* The adapter under the engine keeps the contract of the update: a        *)
(* failure before the backup changes nothing, and wherever the transaction *)
(* fails or is killed, either the prior program is installed or its backup *)
(* is kept until the new one has been accepted.                            *)
Contract == INSTANCE UpdateContract

ImplementsContract == Contract!Spec

(* A rollback that reports success has put the prior program back, and one *)
(* that does not leaves its copy: the report can be acted on.              *)
OutcomeIsTruthful ==
  /\ outcome = "RolledBack" => installed = "prior"
  /\ outcome = "RollbackVerificationFailed" => backup
  /\ outcome = "Installed" => installed = "new"

(* Whatever becomes of the update, and however often the address goes away:*)
(* once it stays, the server serves again, unless the unit has failed for  *)
(* good, or systemctl failed in the rollback as well. A unit that the      *)
(* update never stopped, or that a killed update had stopped, may stay so. *)
ServiceComesBack ==
  <>[]bindable =>
    <>[](\/ server = "serving"
         \/ unit = "failed"
         \/ unit = "inactive" /\ (~touched \/ phase = "dead" \/ broken))

(* CONTEXT.md on the update contract: "with automatic rollback to the      *)
(* prior binary on any failure". With no failure in the rollback itself,   *)
(* the prior binary is back when it ends.                                  *)
RollbackRestoresPrior ==
  phase = "done" /\ restored # None /\ ~broken => installed = "prior"

=============================================================================
