---------------------------- MODULE WindowsUpdate ----------------------------
(***************************************************************************)
(* wifimic_client --internal-apply-upgrade: WindowsUpgradeAdapter          *)
(* (updater_native.rs) under the shared engine, while Task Scheduler, the  *)
(* user and the client processes go on around it. Windows refuses to       *)
(* replace an executable that a process is running; the updater itself     *)
(* runs from a copy (the handoff's runner).                                *)
(*                                                                         *)
(* A hook that makes several calls takes several steps here; `step` is the *)
(* call that comes next in the current hook.                               *)
(***************************************************************************)
EXTENDS UpdateTransaction

VARIABLES
  installed,   (* the program at the install path                            *)
  task,        (* the scheduled task: enabled, its definition xml, and the   *)
               (* program its running instance executes, or None             *)
  stray,       (* the program a client outside the task executes, or None    *)
  snapshot,    (* what backup() captured of the task, or None                *)
  step,
  sound,       (* rollback: every call so far succeeded                      *)
  touched      (* history: installed or managed state was changed            *)

ASSUME SnapshotAssumption == None \notin [enabled : BOOLEAN, running : BOOLEAN]

world == <<installed, task, stray>>

vars == <<phase, staged, backup, outcome,
          installed, task, stray, snapshot, step, sound, touched>>

Program == {"prior", "new"}

Steps == {"only", "disable", "end", "wait", "kill", "restore", "start",
          "stop", "executable", "definition", "restart"}

TypeOK ==
  /\ EngineTypeOK
  /\ installed \in Program
  /\ task \in [enabled : BOOLEAN, xml : {"prior", "delayed"}, runs : Program \cup {None}]
  /\ stray \in Program \cup {None}
  /\ snapshot \in [enabled : BOOLEAN, running : BOOLEAN] \cup {None}
  /\ step \in Steps
  /\ sound \in BOOLEAN
  /\ touched \in BOOLEAN
  /\ backup => snapshot # None

Init ==
  /\ EngineInit
  /\ installed = "prior"
  /\ task \in [enabled : BOOLEAN, xml : {"prior"}, runs : {"prior", None}]
  /\ stray \in {"prior", None}
  /\ snapshot = None
  /\ step = "only"
  /\ sound = TRUE
  /\ touched = FALSE

At(hook, call) == phase = hook /\ step = call

(* The call a hook begins with.                                            *)
FirstStep(hook) ==
  CASE hook = "preSwap"  -> "disable"
    [] hook = "postSwap" -> "restore"
    [] hook = "rollback" -> "stop"
    [] OTHER             -> "only"

Enter == step' = FirstStep(phase')

(* The hook goes on with the call `next`.                                  *)
GoOn(next) ==
  /\ step' = next
  /\ UNCHANGED engine

(* Mutant: a program that is running is moved aside, which Windows allows. *)
MovedAside == TRUE

(* fs::rename over the install path is refused while a process runs it.    *)
Unlocked == task.runs = None /\ stray = None

ReleaseStep ==
  /\ \/ Resolve
     \/ \E ok \in BOOLEAN : Stage(ok)
  /\ Enter
  /\ UNCHANGED <<world, snapshot, sound, touched>>

(* Copies the program, then reads the task's definition and state.         *)
BackupClient ==
  /\ \E ok \in BOOLEAN :
       /\ Backup(ok)
       /\ snapshot' = IF ok THEN [enabled |-> task.enabled, running |-> task.runs # None]
                      ELSE None
  /\ Enter
  /\ UNCHANGED <<world, sound, touched>>

-----------------------------------------------------------------------------
(* pre_swap                                                                *)
DisableTask ==
  /\ At("preSwap", "disable")
  /\ \/ /\ task' = [task EXCEPT !.enabled = FALSE]
        /\ GoOn(IF snapshot.running THEN "end" ELSE "kill")
     \/ PreSwap(FALSE) /\ Enter /\ UNCHANGED task
  /\ touched' = TRUE
  /\ UNCHANGED <<installed, stray, snapshot, sound>>

(* schtasks /End asks the instance to end.                                 *)
EndTask ==
  /\ At("preSwap", "end")
  /\ \/ GoOn("wait")
     \/ PreSwap(FALSE) /\ Enter
  /\ UNCHANGED <<world, snapshot, sound, touched>>

(* Polls until the instance is gone, the deadline passes or a query fails. *)
WaitStopped ==
  /\ At("preSwap", "wait")
  /\ \/ task.runs = None /\ GoOn("kill")
     \/ PreSwap(FALSE) /\ Enter
  /\ UNCHANGED <<world, snapshot, sound, touched>>

(* Terminates every other process of the client's name until none is left. *)
KillClients ==
  /\ At("preSwap", "kill")
  /\ \/ PreSwap(TRUE) /\ task' = [task EXCEPT !.runs = None] /\ stray' = None
     \/ PreSwap(FALSE) /\ UNCHANGED <<task, stray>>
  /\ Enter
  /\ UNCHANGED <<installed, snapshot, sound, touched>>

-----------------------------------------------------------------------------
(* swap, post_swap and health_check                                        *)
SwapClient ==
  /\ \E ok \in BOOLEAN :
       /\ ok => Unlocked
       /\ Swap(ok)
       /\ installed' = IF ok THEN "new" ELSE installed
  /\ Enter
  /\ UNCHANGED <<task, stray, snapshot, sound, touched>>

(* restore_task creates the task from `xml`, then sets its enabled state.  *)
Defined(xml) == [task EXCEPT !.xml = xml, !.enabled = snapshot.enabled]

RestoreTask ==
  /\ At("postSwap", "restore")
  /\ \/ /\ task' = Defined("delayed")
        /\ IF snapshot.enabled THEN GoOn("start") ELSE PostSwap(TRUE) /\ Enter
     \/ /\ task' \in {task, Defined("delayed")}
        /\ PostSwap(FALSE) /\ Enter
  /\ UNCHANGED <<installed, stray, snapshot, sound, touched>>

(* schtasks /Run, which may not bring the instance up.                     *)
Run(ok) ==
  /\ ok => task.enabled
  /\ task' \in IF ok /\ task.runs = None THEN {task, [task EXCEPT !.runs = installed]} ELSE {task}

StartTask ==
  /\ At("postSwap", "start")
  /\ \E ok \in BOOLEAN : Run(ok) /\ PostSwap(ok)
  /\ Enter
  /\ UNCHANGED <<installed, stray, snapshot, sound, touched>>

(* An enabled task must run, and the endpoint exist, before the deadline.  *)
WaitForHealthy ==
  /\ phase = "health"
  /\ \E ok \in BOOLEAN :
       /\ ok /\ snapshot.enabled => task.enabled /\ task.runs # None
       /\ HealthCheck(ok)
  /\ Enter
  /\ UNCHANGED <<world, snapshot, sound, touched>>

-----------------------------------------------------------------------------
(* rollback: every call is made, whatever the earlier ones reported.       *)
RollbackStop ==
  /\ At("rollback", "stop")
  /\ \E ok \in BOOLEAN : (ok => task.runs = None) /\ sound' = ok
  /\ GoOn("executable")
  /\ UNCHANGED <<world, snapshot, touched>>

RollbackExecutable ==
  /\ At("rollback", "executable")
  /\ \E ok \in BOOLEAN :
       /\ ok => Unlocked
       /\ sound' = (sound /\ ok)
       /\ installed' = IF ok THEN "prior" ELSE installed
  /\ GoOn("definition")
  /\ UNCHANGED <<task, stray, snapshot, touched>>

RollbackTask ==
  /\ At("rollback", "definition")
  /\ \/ task' = Defined("prior") /\ UNCHANGED sound
     \/ task' \in {task, Defined("prior")} /\ sound' = FALSE
  /\ GoOn("restart")
  /\ UNCHANGED <<installed, stray, snapshot, touched>>

(* Mutant: the rollback's verdict forgets the calls before the last.       *)
RollbackRestartDecides ==
  /\ At("rollback", "restart")
  /\ \E ok \in BOOLEAN :
       /\ IF snapshot.running THEN Run(ok) ELSE ok /\ UNCHANGED task
       /\ FinishRollback(ok)
  /\ Enter
  /\ UNCHANGED <<installed, stray, snapshot, sound, touched>>

(* Restarts a task that was running, and gives the verdict.                *)
RollbackRestart ==
  /\ At("rollback", "restart")
  /\ \E ok \in BOOLEAN :
       /\ IF snapshot.running THEN Run(ok) ELSE ok /\ UNCHANGED task
       /\ FinishRollback(sound /\ ok)
  /\ Enter
  /\ UNCHANGED <<installed, stray, snapshot, sound, touched>>

-----------------------------------------------------------------------------
(* Around the update: the logon trigger starts an enabled task, the user   *)
(* starts a client by hand, and either exits.                              *)
LogonTrigger ==
  /\ task.enabled /\ task.runs = None
  /\ task' = [task EXCEPT !.runs = installed]
  /\ UNCHANGED <<engine, installed, stray, snapshot, step, sound, touched>>

UserStarts ==
  /\ stray = None
  /\ stray' = installed
  /\ UNCHANGED <<engine, installed, task, snapshot, step, sound, touched>>

ClientExits ==
  /\ \/ task.runs # None /\ task' = [task EXCEPT !.runs = None] /\ UNCHANGED stray
     \/ stray # None /\ stray' = None /\ UNCHANGED task
  /\ UNCHANGED <<engine, installed, snapshot, step, sound, touched>>

Transaction ==
  \/ ReleaseStep
  \/ BackupClient
  \/ DisableTask
  \/ EndTask
  \/ WaitStopped
  \/ KillClients
  \/ SwapClient
  \/ RestoreTask
  \/ StartTask
  \/ WaitForHealthy
  \/ RollbackStop
  \/ RollbackExecutable
  \/ RollbackTask
  \/ RollbackRestart

Next ==
  \/ Transaction
  \/ LogonTrigger
  \/ UserStarts
  \/ ClientExits
  \/ Die /\ UNCHANGED <<world, snapshot, step, sound, touched>>

Spec == Init /\ [][Next]_vars

-----------------------------------------------------------------------------
(* Properties.                                                             *)

(* The same contract as on Linux: see UpdateContract.                      *)
Contract == INSTANCE UpdateContract

ImplementsContract == Contract!Spec

(* When the update ends with a verdict, every client that runs or will run *)
(* is the one the verdict names, although clients started by the user come *)
(* and go between the calls; and a verified rollback has put back the      *)
(* task's definition and its enabled state.                                *)
OneProgramAtTheEnd ==
  /\ outcome = "Installed" => {installed, task.runs, stray} \subseteq {"new", None}
  /\ outcome = "RolledBack" => /\ {installed, task.runs, stray} \subseteq {"prior", None}
                               /\ task.xml = "prior"
                               /\ task.enabled = snapshot.enabled

(* Swaps and rollbacks never leave an old client running beside a new one, *)
(* whoever started either: the pair would fight over the microphone        *)
(* session with two versions of the protocol.                              *)
NoMixedClients ==
  task.runs # None /\ stray # None => task.runs = stray

=============================================================================
