-------------------------- MODULE WindowsUpdateProofs --------------------------
(***************************************************************************)
(* Proofs about WindowsUpdate and WindowsHandoff: the update alone first,  *)
(* then run from the script.                                               *)
(***************************************************************************)
EXTENDS WindowsHandoff, TLAPS

(* Whatever runs is what is installed: a program is only replaced while    *)
(* nobody runs it.                                                         *)
ClientsCurrent == {task.runs, stray} \subseteq {installed, None}

(* What each hook finds: what is installed, whether anything was touched,  *)
(* and the artifacts of the backup.                                        *)
Stages ==
  /\ phase \in {"resolve", "stage", "backup"} => ~touched /\ installed = "prior"
  /\ phase \in {"preSwap", "swap", "postSwap", "health", "rollback"} => backup
  /\ phase = "preSwap" => /\ installed = "prior"
                          /\ step \in {"disable", "end", "wait", "kill"}
                          /\ step # "disable" => touched
  /\ phase = "swap" => installed = "prior" /\ touched
  /\ phase \in {"postSwap", "health"} => installed = "new" /\ touched
  /\ phase = "rollback" => touched /\ step \in {"stop", "executable", "definition", "restart"}

(* What the calls of a rollback that all succeeded have put back so far.   *)
PutBack ==
  phase = "rollback" /\ sound =>
    /\ step \in {"definition", "restart"} => installed = "prior"
    /\ step = "restart" => task.xml = "prior" /\ task.enabled = snapshot.enabled

(* What the outcome tells.                                                 *)
Verdicts ==
  /\ outcome \in {"NoOp", "Err"} => ~touched /\ installed = "prior" /\ ~backup
  /\ outcome = "Installed" => installed = "new"
  /\ outcome = "RolledBack" =>
       installed = "prior" /\ task.xml = "prior" /\ task.enabled = snapshot.enabled

UpdateInv == TypeOK /\ ClientsCurrent /\ Stages /\ PutBack /\ Verdicts

(* Before the runner was started nothing has begun, and without it nothing *)
(* ever will.                                                              *)
NotBegun ==
  /\ ~started => phase = "resolve"
  /\ handoff \in Command \cup {"waiting", "copying", "declined"} => ~started /\ ~runner
  /\ handoff \in Command \cup {"waiting", "copying", "starting", "declined"} => exitCode = 0
  /\ handoff = "starting" => ~started
  /\ handoff \in {"copying", "starting"} => ~parent

(* What the exit code says once the script has one; a script that was      *)
(* killed on its way may have none.                                        *)
CodeTells ==
  /\ exitCode \in {10, 11, 20} => ~started
  /\ handoff \in {"removingRunner", "removingScript", "ended"} =>
       /\ exitCode \in {10, 11, 20, 31}
       /\ parent => exitCode \in {10, 11}

ScriptInv ==
  /\ UpdateInv
  /\ HandoffTypeOK
  /\ ParentGoneFirst
  /\ NotBegun
  /\ CodeTells

-----------------------------------------------------------------------------
(* The types.                                                              *)

(* What a step of the engine leaves of its types.                          *)
LEMMA EngineSteps ==
  ASSUME EngineTypeOK,
         \/ Resolve
         \/ \E ok \in BOOLEAN : \/ Stage(ok) \/ Backup(ok) \/ PreSwap(ok) \/ Swap(ok)
                                \/ PostSwap(ok) \/ HealthCheck(ok) \/ FinishRollback(ok)
         \/ Die
         \/ UNCHANGED engine
  PROVE  EngineTypeOK'
  <1> USE OutcomeAssumption DEF EngineTypeOK, Phases, Outcomes, Finish, Remains
  <1>1. CASE Resolve
    BY <1>1 DEF Resolve
  <1>2. ASSUME NEW ok \in BOOLEAN, Stage(ok)
        PROVE  EngineTypeOK'
    BY <1>2 DEF Stage
  <1>3. ASSUME NEW ok \in BOOLEAN, Backup(ok)
        PROVE  EngineTypeOK'
    BY <1>3 DEF Backup
  <1>4. ASSUME NEW ok \in BOOLEAN, PreSwap(ok) \/ Swap(ok) \/ PostSwap(ok)
        PROVE  EngineTypeOK'
    BY <1>4 DEF PreSwap, Swap, PostSwap, Hook
  <1>5. ASSUME NEW ok \in BOOLEAN, HealthCheck(ok)
        PROVE  EngineTypeOK'
    BY <1>5 DEF HealthCheck, Hook
  <1>6. ASSUME NEW ok \in BOOLEAN, FinishRollback(ok)
        PROVE  EngineTypeOK'
    BY <1>6 DEF FinishRollback
  <1>7. CASE Die \/ UNCHANGED engine
    BY <1>7 DEF Die, Running, engine
  <1> QED
    BY <1>1, <1>2, <1>3, <1>4, <1>5, <1>6, <1>7

LEMMA UpdateInitially == Init => UpdateInv
  <1> SUFFICES ASSUME Init
               PROVE  UpdateInv
    OBVIOUS
  <1>1. TypeOK
    BY OutcomeAssumption DEF Init, EngineInit, TypeOK, EngineTypeOK, Phases, Outcomes, Program, Steps
  <1>2. ClientsCurrent
    BY DEF Init, ClientsCurrent
  <1>3. Stages /\ PutBack /\ Verdicts
    BY OutcomeAssumption DEF Init, EngineInit, Stages, PutBack, Verdicts, Outcomes
  <1> QED
    BY <1>1, <1>2, <1>3 DEF UpdateInv

(* A hook begins with its first call.                                      *)
LEMMA FirstSteps ==
  /\ FirstStep("preSwap") = "disable"
  /\ FirstStep("postSwap") = "restore"
  /\ FirstStep("rollback") = "stop"
  /\ \A hook : FirstStep(hook) \in Steps
  BY DEF FirstStep, Steps

LEMMA SnapshotTyped ==
  ASSUME TypeOK, backup
  PROVE  snapshot.enabled \in BOOLEAN /\ snapshot.running \in BOOLEAN
  BY DEF TypeOK

-----------------------------------------------------------------------------
(* One lemma per hook: its calls keep the invariant.                       *)

LEMMA ReleaseKeeps ==
  ASSUME UpdateInv, ReleaseStep
  PROVE  UpdateInv'
  <1> USE DEF UpdateInv
  <1>1. UNCHANGED <<world, snapshot, sound, touched, backup>> /\ step' = FirstStep(phase')
    BY DEF ReleaseStep, Enter, Resolve, Stage
  <1>2. EngineTypeOK'
    BY EngineSteps DEF ReleaseStep, TypeOK
  <1>3. TypeOK'
    BY <1>1, <1>2, FirstSteps DEF TypeOK, world
  <1>4. phase' \in {"stage", "backup", "done"} /\ phase \in {"resolve", "stage"}
    BY DEF ReleaseStep, Resolve, Stage, Finish
  <1>5. outcome' \in {"NoOp", "Err"} \/ outcome' = outcome
    BY DEF ReleaseStep, Resolve, Stage, Finish
  <1>6. Stages' /\ PutBack' /\ ClientsCurrent'
    BY <1>1, <1>4 DEF world, Stages, PutBack, ClientsCurrent
  <1>7. Verdicts'
    BY <1>1, <1>4, <1>5 DEF world, Stages, Verdicts, TypeOK, EngineTypeOK
  <1> QED
    BY <1>3, <1>6, <1>7

LEMMA BackupKeeps ==
  ASSUME UpdateInv, BackupClient
  PROVE  UpdateInv'
  <1> USE DEF UpdateInv
  <1>1. PICK ok \in BOOLEAN :
          /\ Backup(ok)
          /\ snapshot' = IF ok THEN [enabled |-> task.enabled, running |-> task.runs # None]
                         ELSE None
    BY DEF BackupClient
  <1>2. UNCHANGED <<world, sound, touched>> /\ step' = FirstStep(phase')
    BY DEF BackupClient, Enter
  <1>3. EngineTypeOK'
    BY <1>1, EngineSteps DEF TypeOK
  <1>4. snapshot' \in [enabled : BOOLEAN, running : BOOLEAN] \cup {None}
        /\ (backup' => snapshot' # None)
    <2>1. task.enabled \in BOOLEAN
      BY DEF TypeOK
    <2>2. CASE ok = TRUE
      <3>1. snapshot' = [enabled |-> task.enabled, running |-> task.runs # None]
        BY <1>1, <2>2
      <3>2. snapshot' \in [enabled : BOOLEAN, running : BOOLEAN]
        BY <2>1, <3>1
      <3> QED
        BY <3>2, SnapshotAssumption
    <2>3. CASE ok = FALSE
      BY <1>1, <2>3 DEF Backup
    <2> QED
      BY <2>2, <2>3
  <1>5. TypeOK'
    BY <1>2, <1>3, <1>4, FirstSteps DEF TypeOK, world
  <1>6. phase = "backup" /\ (backup' => phase' = "preSwap") /\ (~backup' => phase' = "done")
    BY <1>1 DEF Backup, Finish
  <1>7. phase' \in {"preSwap", "done"} /\ (phase' = "preSwap" => backup' /\ step' = "disable")
    BY <1>1, <1>2, FirstSteps DEF Backup, Finish
  <1>8. Stages' /\ PutBack' /\ ClientsCurrent'
    BY <1>2, <1>6, <1>7 DEF world, Stages, PutBack, ClientsCurrent
  <1>9. (outcome' = "Err" /\ ~backup') \/ outcome' = outcome
    BY <1>1 DEF Backup, Finish
  <1>10. Verdicts'
    BY <1>2, <1>6, <1>9, OutcomeAssumption
       DEF world, Stages, Verdicts, TypeOK, EngineTypeOK, Outcomes
  <1> QED
    BY <1>5, <1>8, <1>10

(* A step inside the transaction that leaves the outcome open.             *)
LEMMA OpenVerdict ==
  ASSUME TypeOK, phase # "done", outcome' = outcome
  PROVE  Verdicts'
  BY OutcomeAssumption DEF TypeOK, EngineTypeOK, Verdicts, Outcomes

(* pre_swap                                                                *)
LEMMA PreSwapKeeps ==
  ASSUME UpdateInv, DisableTask \/ EndTask \/ WaitStopped \/ KillClients
  PROVE  UpdateInv'
  <1> USE DEF UpdateInv
  <1>1. phase = "preSwap" /\ UNCHANGED <<staged, backup, outcome, installed, snapshot, sound>>
    BY DEF DisableTask, EndTask, WaitStopped, KillClients, At, GoOn, PreSwap, Hook, engine, world
  <1>2. touched' /\ touched' \in BOOLEAN
    BY DEF DisableTask, EndTask, WaitStopped, KillClients, At, world, Stages, TypeOK
  <1>3. \/ phase' = "preSwap" /\ step' \in {"end", "wait", "kill"}
        \/ phase' = "rollback" /\ step' = "stop"
        \/ phase' = "swap" /\ step' \in Steps
    BY FirstSteps
       DEF DisableTask, EndTask, WaitStopped, KillClients, At, GoOn, PreSwap, Hook, engine, Enter
  <1>4. EngineTypeOK'
    BY <1>1, <1>3 DEF TypeOK, EngineTypeOK, Phases
  <1>5. /\ task' \in [enabled : BOOLEAN, xml : {"prior", "delayed"}, runs : Program \cup {None}]
        /\ task'.runs \in {task.runs, None} /\ stray' \in {stray, None}
    BY DEF DisableTask, EndTask, WaitStopped, KillClients, world, TypeOK
  <1>6. TypeOK'
    BY <1>1, <1>2, <1>3, <1>4, <1>5 DEF TypeOK, Steps
  <1>7. Stages' /\ PutBack'
    BY <1>1, <1>2, <1>3 DEF Stages, PutBack
  <1>8. ClientsCurrent'
    BY <1>1, <1>5 DEF ClientsCurrent
  <1> QED
    BY <1>1, <1>6, <1>7, <1>8, OpenVerdict

LEMMA SwapKeeps ==
  ASSUME UpdateInv, SwapClient
  PROVE  UpdateInv'
  <1> USE DEF UpdateInv
  <1>1. PICK ok \in BOOLEAN : /\ ok => Unlocked
                              /\ Swap(ok)
                              /\ installed' = IF ok THEN "new" ELSE installed
    BY DEF SwapClient
  <1>2. UNCHANGED <<task, stray, snapshot, sound, touched, staged, backup, outcome>>
        /\ phase = "swap" /\ step' = FirstStep(phase')
    BY <1>1 DEF SwapClient, Swap, Hook, Enter
  <1>3. \/ phase' = "postSwap" /\ installed' = "new" /\ Unlocked
        \/ phase' = "rollback" /\ installed' = installed
    BY <1>1 DEF Swap, Hook
  <1>4. EngineTypeOK'
    BY <1>1, EngineSteps DEF TypeOK
  <1>5. TypeOK'
    BY <1>2, <1>3, <1>4, FirstSteps DEF TypeOK, Program
  <1>6. Stages' /\ PutBack' /\ ClientsCurrent'
    BY <1>2, <1>3, FirstSteps DEF Stages, PutBack, ClientsCurrent, Unlocked
  <1> QED
    BY <1>2, <1>5, <1>6, OpenVerdict

(* A /Run starts what is installed.                                        *)
LEMMA RunTyped ==
  ASSUME TypeOK, NEW ok \in BOOLEAN, Run(ok)
  PROVE  /\ task' \in [enabled : BOOLEAN, xml : {"prior", "delayed"}, runs : Program \cup {None}]
         /\ task'.runs \in {task.runs, installed}
         /\ task'.xml = task.xml /\ task'.enabled = task.enabled
  BY DEF TypeOK, Run

LEMMA DefinedTyped ==
  ASSUME TypeOK, backup, NEW xml \in {"prior", "delayed"}
  PROVE  /\ Defined(xml) \in
              [enabled : BOOLEAN, xml : {"prior", "delayed"}, runs : Program \cup {None}]
         /\ Defined(xml).runs = task.runs
         /\ Defined(xml).xml = xml /\ Defined(xml).enabled = snapshot.enabled
  BY SnapshotTyped DEF TypeOK, Defined

(* post_swap and health_check                                              *)
LEMMA PostSwapKeeps ==
  ASSUME UpdateInv, RestoreTask \/ StartTask
  PROVE  UpdateInv'
  <1> USE DEF UpdateInv
  <1>1. phase = "postSwap" /\ backup
        /\ UNCHANGED <<staged, backup, outcome, installed, stray, snapshot, sound, touched>>
    BY DEF RestoreTask, StartTask, At, GoOn, PostSwap, Hook, engine, Stages
  <1>2. \/ phase' = "postSwap" /\ step' = "start"
        \/ phase' = "rollback" /\ step' = "stop"
        \/ phase' = "health" /\ step' \in Steps
    BY FirstSteps DEF RestoreTask, StartTask, At, GoOn, PostSwap, Hook, engine, Enter
  <1>3. EngineTypeOK'
    BY <1>1, <1>2 DEF TypeOK, EngineTypeOK, Phases
  <1>4. /\ task' \in [enabled : BOOLEAN, xml : {"prior", "delayed"}, runs : Program \cup {None}]
        /\ task'.runs \in {task.runs, installed}
    <2>1. CASE RestoreTask
      <3>1. task' \in {task, Defined("delayed")}
        BY <2>1 DEF RestoreTask
      <3> QED
        BY <1>1, <3>1, DefinedTyped DEF TypeOK
    <2>2. CASE StartTask
      BY <2>2, RunTyped DEF StartTask
    <2> QED
      BY <2>1, <2>2
  <1>5. TypeOK'
    BY <1>1, <1>2, <1>3, <1>4 DEF TypeOK, Steps
  <1>6. Stages' /\ PutBack'
    BY <1>1, <1>2 DEF Stages, PutBack
  <1>7. ClientsCurrent'
    BY <1>1, <1>4 DEF ClientsCurrent
  <1> QED
    BY <1>1, <1>5, <1>6, <1>7, OpenVerdict

LEMMA HealthKeeps ==
  ASSUME UpdateInv, WaitForHealthy
  PROVE  UpdateInv'
  <1> USE DEF UpdateInv
  <1>1. PICK ok \in BOOLEAN : HealthCheck(ok)
    BY DEF WaitForHealthy
  <1>2. UNCHANGED <<world, snapshot, sound, touched>> /\ phase = "health"
        /\ step' = FirstStep(phase')
    BY DEF WaitForHealthy, Enter
  <1>3. EngineTypeOK'
    BY <1>1, EngineSteps DEF TypeOK
  <1>4. \/ phase' = "done" /\ outcome' = "Installed"
        \/ phase' = "rollback" /\ UNCHANGED <<backup, outcome>>
    BY <1>1 DEF HealthCheck, Hook, Finish
  <1>5. backup' => backup
    BY <1>1 DEF HealthCheck, Hook, Remains
  <1>6. TypeOK'
    BY <1>2, <1>3, <1>5, FirstSteps DEF TypeOK, world
  <1>7. Stages' /\ PutBack' /\ ClientsCurrent'
    BY <1>2, <1>4, FirstSteps DEF world, Stages, PutBack, ClientsCurrent
  <1>8. CASE outcome' = "Installed"
    BY <1>2, <1>6, <1>7, <1>8 DEF world, Stages, Verdicts
  <1>9. CASE outcome' = outcome
    BY <1>2, <1>6, <1>7, <1>9, OpenVerdict
  <1> QED
    BY <1>4, <1>8, <1>9

(* rollback                                                                *)
LEMMA RollbackKeeps ==
  ASSUME UpdateInv, RollbackStop \/ RollbackExecutable \/ RollbackTask
  PROVE  UpdateInv'
  <1> USE DEF UpdateInv
  <1>1. phase = "rollback" /\ backup /\ UNCHANGED <<phase, staged, backup, outcome, stray, snapshot, touched>>
    BY DEF RollbackStop, RollbackExecutable, RollbackTask, At, GoOn, engine, world, Stages
  <1>2. step' \in {"executable", "definition", "restart"}
    BY DEF RollbackStop, RollbackExecutable, RollbackTask, GoOn
  <1>3. /\ task' \in [enabled : BOOLEAN, xml : {"prior", "delayed"}, runs : Program \cup {None}]
        /\ task'.runs = task.runs
    <2>1. CASE RollbackStop \/ RollbackExecutable
      BY <2>1 DEF RollbackStop, RollbackExecutable, world, TypeOK
    <2>2. CASE RollbackTask
      <3>1. task' \in {task, Defined("prior")}
        BY <2>2 DEF RollbackTask
      <3> QED
        BY <1>1, <3>1, DefinedTyped DEF TypeOK
    <2> QED
      BY <2>1, <2>2
  <1>4. installed' \in Program /\ sound' \in BOOLEAN
    BY DEF RollbackStop, RollbackExecutable, RollbackTask, world, TypeOK, Program
  <1>5. TypeOK'
    BY <1>1, <1>2, <1>3, <1>4 DEF TypeOK, EngineTypeOK, Steps
  <1>6. installed' = installed \/ Unlocked
    BY DEF RollbackStop, RollbackExecutable, RollbackTask, world
  <1>7. ClientsCurrent'
    BY <1>1, <1>3, <1>6 DEF ClientsCurrent, Unlocked
  <1>8. Stages'
    BY <1>1, <1>2 DEF Stages
  <1>9. PutBack'
    <2>1. CASE RollbackStop
      BY <2>1 DEF RollbackStop, GoOn, PutBack
    <2>2. CASE RollbackExecutable
      BY <2>2 DEF RollbackExecutable, GoOn, PutBack
    <2>3. CASE RollbackTask
      <3>1. step = "definition" /\ step' = "restart" /\ installed' = installed
        BY <2>3 DEF RollbackTask, At, GoOn
      <3>2. sound' => sound /\ task' = Defined("prior")
        BY <2>3 DEF RollbackTask
      <3> QED
        BY <1>1, <3>1, <3>2, DefinedTyped DEF PutBack
    <2> QED
      BY <2>1, <2>2, <2>3
  <1> QED
    BY <1>1, <1>5, <1>7, <1>8, <1>9, OpenVerdict

LEMMA RestartKeeps ==
  ASSUME UpdateInv, RollbackRestart
  PROVE  UpdateInv'
  <1> USE DEF UpdateInv
  <1>1. PICK ok \in BOOLEAN : /\ Run(ok) \/ (ok /\ UNCHANGED task)
                              /\ FinishRollback(sound /\ ok)
    BY DEF RollbackRestart
  <1>2. /\ phase = "rollback" /\ step = "restart" /\ backup
        /\ UNCHANGED <<installed, stray, snapshot, sound, touched>>
        /\ step' = FirstStep(phase')
    BY DEF RollbackRestart, At, Enter, Stages
  <1>3. /\ task' \in [enabled : BOOLEAN, xml : {"prior", "delayed"}, runs : Program \cup {None}]
        /\ task'.runs \in {task.runs, installed}
        /\ task'.xml = task.xml /\ task'.enabled = task.enabled
    BY <1>1, RunTyped DEF TypeOK
  <1>4. sound \in BOOLEAN /\ (sound /\ ok) \in BOOLEAN
    BY DEF TypeOK
  <1>5. EngineTypeOK'
    BY <1>1, <1>4, EngineSteps DEF TypeOK
  <1>6. TypeOK'
    BY <1>2, <1>3, <1>5, FirstSteps DEF TypeOK
  <1>7. phase' = "done" /\ outcome' \in {"RolledBack", "RollbackVerificationFailed"}
        /\ (outcome' = "RolledBack" => sound)
    BY <1>1 DEF FinishRollback, Finish
  <1>8. Stages' /\ PutBack' /\ ClientsCurrent'
    BY <1>2, <1>3, <1>7 DEF Stages, PutBack, ClientsCurrent
  <1>9. Verdicts'
    BY <1>2, <1>3, <1>7 DEF Verdicts, PutBack
  <1> QED
    BY <1>6, <1>8, <1>9

(* Task Scheduler and the user start what is installed, at any moment; a   *)
(* client that exits is gone.                                              *)
LEMMA SurroundingsKeep ==
  ASSUME UpdateInv, LogonTrigger \/ UserStarts \/ ClientExits
  PROVE  UpdateInv'
  <1> USE DEF UpdateInv
  <1>1. UNCHANGED <<phase, staged, backup, outcome, installed, snapshot, step, sound, touched>>
    BY DEF LogonTrigger, UserStarts, ClientExits, engine
  <1>2. /\ task' \in [enabled : BOOLEAN, xml : {"prior", "delayed"}, runs : Program \cup {None}]
        /\ task'.runs \in {task.runs, installed, None}
        /\ task'.xml = task.xml /\ task'.enabled = task.enabled
    BY DEF LogonTrigger, UserStarts, ClientExits, TypeOK
  <1>3. stray' \in {stray, installed, None}
    BY DEF LogonTrigger, UserStarts, ClientExits
  <1>4. TypeOK'
    BY <1>1, <1>2, <1>3 DEF TypeOK, EngineTypeOK
  <1>5. ClientsCurrent'
    BY <1>1, <1>2, <1>3 DEF ClientsCurrent
  <1>6. Stages'
    BY <1>1 DEF Stages
  <1>7. PutBack' /\ Verdicts'
    BY <1>1, <1>2 DEF PutBack, Verdicts
  <1> QED
    BY <1>4, <1>5, <1>6, <1>7

LEMMA DieKeeps ==
  ASSUME UpdateInv, Die, UNCHANGED <<world, snapshot, step, sound, touched>>
  PROVE  UpdateInv'
  <1> USE DEF UpdateInv
  <1>1. UNCHANGED <<staged, backup, outcome, installed, task, stray>> /\ phase' = "dead"
        /\ phase # "done"
    BY DEF Die, Running, world
  <1>2. EngineTypeOK'
    BY EngineSteps DEF TypeOK
  <1>3. TypeOK' /\ ClientsCurrent'
    BY <1>1, <1>2 DEF TypeOK, ClientsCurrent
  <1>4. Stages' /\ PutBack'
    BY <1>1 DEF Stages, PutBack
  <1> QED
    BY <1>1, <1>3, <1>4, OpenVerdict

LEMMA UpdateKeeps == UpdateInv /\ [Next]_vars => UpdateInv'
  <1> SUFFICES ASSUME UpdateInv, [Next]_vars
               PROVE  UpdateInv'
    OBVIOUS
  <1>1. CASE UNCHANGED vars
    BY <1>1 DEF vars, UpdateInv, TypeOK, EngineTypeOK, ClientsCurrent, Stages, PutBack, Verdicts
  <1> QED
    BY <1>1, ReleaseKeeps, BackupKeeps, PreSwapKeeps, SwapKeeps, PostSwapKeeps, HealthKeeps,
       RollbackKeeps, RestartKeeps, SurroundingsKeep, DieKeeps
       DEF Next, Transaction

LEMMA UpdateInvariant == Spec => []UpdateInv
  BY UpdateInitially, UpdateKeeps, PTL DEF Spec

-----------------------------------------------------------------------------
(* The refinement.                                                         *)

LEMMA MapsInit == Init => Contract!Init
  BY DEF Init, EngineInit, Contract!Init

LEMMA MapsStep ==
  ASSUME UpdateInv, Transaction
  PROVE  [Contract!Next]_(Contract!vars)
  <1> USE DEF UpdateInv, Contract!Next, Contract!vars
  <1>1. CASE ReleaseStep
    <2>1. phase \in {"resolve", "stage"} /\ UNCHANGED <<installed, touched, backup>>
      BY <1>1 DEF ReleaseStep, Resolve, Stage, world
    <2>2. outcome' \in {"NoOp", "Err"} \/ outcome' = outcome
      BY <1>1 DEF ReleaseStep, Resolve, Stage, Finish
    <2>3. outcome = None /\ ~touched
      BY <2>1 DEF TypeOK, EngineTypeOK, Stages
    <2> QED
      BY <2>1, <2>2, <2>3 DEF Contract!Decline
  <1>2. CASE BackupClient
    <2>1. PICK ok \in BOOLEAN : Backup(ok)
      BY <1>2 DEF BackupClient
    <2>2. outcome = None /\ ~touched /\ backup = FALSE /\ UNCHANGED <<installed, touched>>
      BY <1>2, <2>1 DEF BackupClient, Backup, world, TypeOK, EngineTypeOK, Stages
    <2>3. CASE ok = TRUE
      BY <2>1, <2>2, <2>3 DEF Backup, Contract!BackUp
    <2>4. CASE ok = FALSE
      BY <2>1, <2>2, <2>4 DEF Backup, Finish, Contract!Decline
    <2> QED
      BY <2>3, <2>4
  <1>3. CASE DisableTask \/ SwapClient \/ RollbackExecutable
    <2>1. /\ phase \in {"preSwap", "swap", "rollback"} /\ UNCHANGED <<backup, outcome>>
          /\ installed' \in {"prior", "new"}
      BY <1>3 DEF DisableTask, SwapClient, RollbackExecutable, At, GoOn, engine, PreSwap, Swap,
                  Hook, TypeOK, Program
    <2>2. touched' = TRUE
      BY <1>3 DEF DisableTask, SwapClient, RollbackExecutable, At, Swap, Hook, Stages, TypeOK
    <2>3. outcome = None /\ backup
      BY <2>1 DEF TypeOK, EngineTypeOK, Stages
    <2> QED
      BY <2>1, <2>2, <2>3 DEF Contract!Mutate
  <1>4. CASE EndTask \/ WaitStopped \/ KillClients \/ RestoreTask \/ StartTask
    BY <1>4 DEF EndTask, WaitStopped, KillClients, RestoreTask, StartTask, GoOn, engine, world,
                PreSwap, PostSwap, Hook
  <1>5. CASE RollbackStop \/ RollbackTask
    BY <1>5 DEF RollbackStop, RollbackTask, GoOn, engine, world
  <1>6. CASE WaitForHealthy
    <2>1. PICK ok \in BOOLEAN : HealthCheck(ok)
      BY <1>6 DEF WaitForHealthy
    <2>2. UNCHANGED <<installed, touched>> /\ phase = "health"
      BY <1>6 DEF WaitForHealthy, world
    <2>3. CASE ok = TRUE
      <3>1. outcome' = "Installed" /\ backup' \in BOOLEAN
        BY <2>1, <2>3 DEF HealthCheck, Finish, Remains, TypeOK, EngineTypeOK
      <3>2. outcome = None /\ installed = "new"
        BY <2>2 DEF TypeOK, EngineTypeOK, Stages
      <3> QED
        BY <2>2, <3>1, <3>2 DEF Contract!Accept
    <2>4. CASE ok = FALSE
      BY <2>1, <2>2, <2>4 DEF HealthCheck, Hook
    <2> QED
      BY <2>3, <2>4
  <1>7. CASE RollbackRestart
    <2>1. PICK ok \in BOOLEAN : FinishRollback(sound /\ ok)
      BY <1>7 DEF RollbackRestart
    <2>2. /\ phase = "rollback" /\ step = "restart" /\ UNCHANGED <<installed, touched>>
          /\ outcome = None /\ backup = TRUE /\ sound \in BOOLEAN
      BY <1>7 DEF RollbackRestart, At, TypeOK, EngineTypeOK, Stages
    <2>3. CASE sound = TRUE /\ ok = TRUE
      <3>1. installed = "prior"
        BY <2>2, <2>3 DEF PutBack
      <3> QED
        BY <2>1, <2>2, <2>3, <3>1 DEF FinishRollback, Finish, Remains, Contract!Revert
    <2>4. CASE ~(sound /\ ok)
      BY <2>1, <2>2, <2>4 DEF FinishRollback, Finish, Contract!GiveUp
    <2> QED
      BY <2>2, <2>3, <2>4
  <1> QED
    BY <1>1, <1>2, <1>3, <1>4, <1>5, <1>6, <1>7 DEF Transaction

LEMMA MapsNext ==
  ASSUME UpdateInv, [Next]_vars
  PROVE  [Contract!Next]_(Contract!vars)
  <1>1. CASE Transaction
    BY <1>1, MapsStep
  <1>2. CASE ~Transaction
    BY <1>2 DEF Next, LogonTrigger, UserStarts, ClientExits, Die, engine, world, vars,
                Contract!vars
  <1> QED
    BY <1>1, <1>2

LEMMA UpdateKeepsContract == Spec => ImplementsContract
  <1>1. UpdateInv /\ [Next]_vars => [Contract!Next]_(Contract!vars)
    BY MapsNext
  <1> QED
    BY <1>1, MapsInit, UpdateInvariant, PTL DEF Spec, ImplementsContract, Contract!Spec

-----------------------------------------------------------------------------
(* The script.                                                             *)

(* Command, script and runner together only take steps of the update, so   *)
(* that what holds of it holds of them.                                    *)
LEMMA HandoffSteps ==
  ASSUME [HandoffNext]_allVars
  PROVE  [Next]_vars
  <1>1. CASE RunnerStep \/ Surroundings
    BY <1>1 DEF RunnerStep, Surroundings, Next
  <1>2. CASE ~(RunnerStep \/ Surroundings)
    BY <1>2 DEF HandoffNext, allVars, ResolveAndWrite, Launch, ParentExits, WaitForParent,
                CopyRunner, StartRunner, RemoveRunner, RemoveScript, ScriptKilled
  <1> QED
    BY <1>1, <1>2

LEMMA HandoffRefinesUpdate == HandoffSpec => Spec
  <1>1. HandoffInit => Init
    BY DEF HandoffInit
  <1>2. [HandoffNext]_allVars => [Next]_vars
    BY HandoffSteps
  <1> QED
    BY <1>1, <1>2, PTL DEF HandoffSpec, Spec

LEMMA ScriptInitially == HandoffInit => ScriptInv
  <1> SUFFICES ASSUME HandoffInit
               PROVE  ScriptInv
    OBVIOUS
  <1> USE DEF HandoffInit
  <1>1. UpdateInv
    BY UpdateInitially
  <1>2. HandoffTypeOK
    BY <1>1 DEF HandoffTypeOK, UpdateInv, Command, Script, ExitCodes, Init, EngineInit
  <1>3. ParentGoneFirst /\ NotBegun /\ CodeTells
    BY DEF ParentGoneFirst, NotBegun, CodeTells, Command, Script, Init, EngineInit
  <1> QED
    BY <1>1, <1>2, <1>3 DEF ScriptInv

(* The command and the script change nothing of the update, and keep what  *)
(* they know of it.                                                        *)
LEMMA CommandKeeps ==
  ASSUME ScriptInv, UpdateInv', UNCHANGED vars,
         ResolveAndWrite \/ Launch \/ ParentExits \/ ScriptKilled
  PROVE  ScriptInv'
  <1> USE DEF ScriptInv, files
  <1>1. UNCHANGED <<phase, staged, backup, outcome, exitCode>>
    BY DEF vars, ResolveAndWrite, Launch, ParentExits, ScriptKilled
  <1>2. HandoffTypeOK'
    BY <1>1 DEF UpdateInv, HandoffTypeOK, NotBegun, Command, Script, ExitCodes, ResolveAndWrite,
                Launch, ParentExits, ScriptKilled, Running
  <1>3. ParentGoneFirst'
    BY <1>1 DEF ParentGoneFirst, ResolveAndWrite, Launch, ParentExits, ScriptKilled
  <1>4. NotBegun'
    BY <1>1 DEF NotBegun, Command, Script, ResolveAndWrite, Launch, ParentExits, ScriptKilled
  <1>5. CodeTells'
    BY <1>1 DEF CodeTells, Command, Script, ResolveAndWrite, Launch, ParentExits, ScriptKilled
  <1> QED
    BY <1>2, <1>3, <1>4, <1>5

LEMMA ScriptKeeps ==
  ASSUME ScriptInv, UpdateInv', UNCHANGED vars,
         WaitForParent \/ CopyRunner \/ StartRunner \/ RemoveRunner \/ RemoveScript
  PROVE  ScriptInv'
  <1> USE DEF ScriptInv, files, Fail, OrElse
  <1>1. UNCHANGED <<phase, staged, backup, outcome, parent>>
    BY DEF vars, WaitForParent, CopyRunner, StartRunner, RemoveRunner, RemoveScript
  <1>2. HandoffTypeOK'
    BY <1>1 DEF UpdateInv, HandoffTypeOK, CodeTells, Command, Script, ExitCodes, WaitForParent,
                CopyRunner, StartRunner, RemoveRunner, RemoveScript
  <1>3. ParentGoneFirst'
    BY <1>1 DEF ParentGoneFirst, NotBegun, CodeTells, WaitForParent, CopyRunner, StartRunner,
                RemoveRunner, RemoveScript
  <1>4. NotBegun'
    BY <1>1 DEF NotBegun, Command, WaitForParent, CopyRunner, StartRunner, RemoveRunner,
                RemoveScript
  <1>5. CodeTells'
    BY <1>1 DEF CodeTells, NotBegun, Command, WaitForParent, CopyRunner, StartRunner,
                RemoveRunner, RemoveScript
  <1> QED
    BY <1>2, <1>3, <1>4, <1>5

(* The runner works beside the script, or after it, once it was started.   *)
LEMMA RunnerKeeps ==
  ASSUME ScriptInv, UpdateInv', RunnerStep \/ Surroundings
  PROVE  ScriptInv'
  <1> USE DEF ScriptInv
  <1>1. UNCHANGED handoffVars
    BY DEF RunnerStep, Surroundings
  <1>2. started \/ UNCHANGED <<phase, outcome>>
    BY DEF RunnerStep, Surroundings, LogonTrigger, UserStarts, ClientExits, engine
  <1>3. HandoffTypeOK'
    BY <1>1 DEF UpdateInv, HandoffTypeOK, handoffVars, files
  <1>4. ParentGoneFirst' /\ NotBegun'
    BY <1>1, <1>2 DEF ParentGoneFirst, NotBegun, Command, handoffVars, files
  <1>5. CodeTells'
    BY <1>1 DEF CodeTells, handoffVars, files
  <1> QED
    BY <1>3, <1>4, <1>5

LEMMA ScriptStep == ScriptInv /\ [HandoffNext]_allVars => ScriptInv'
  <1> SUFFICES ASSUME ScriptInv, [HandoffNext]_allVars
               PROVE  ScriptInv'
    OBVIOUS
  <1>1. UpdateInv'
    BY HandoffSteps, UpdateKeeps DEF ScriptInv
  <1>2. CASE UNCHANGED allVars
    BY <1>1, <1>2 DEF ScriptInv, allVars, handoffVars, files, vars, HandoffTypeOK, UpdateInv,
                      ParentGoneFirst, NotBegun, CodeTells
  <1>3. CASE ResolveAndWrite \/ Launch \/ ParentExits \/ ScriptKilled
    BY <1>1, <1>3, CommandKeeps DEF ResolveAndWrite, Launch, ParentExits, ScriptKilled
  <1>4. CASE WaitForParent \/ CopyRunner \/ StartRunner \/ RemoveRunner \/ RemoveScript
    BY <1>1, <1>4, ScriptKeeps
       DEF WaitForParent, CopyRunner, StartRunner, RemoveRunner, RemoveScript
  <1>5. CASE RunnerStep \/ Surroundings
    BY <1>1, <1>5, RunnerKeeps
  <1> QED
    BY <1>2, <1>3, <1>4, <1>5 DEF HandoffNext

LEMMA ScriptInvariant == HandoffSpec => []ScriptInv
  BY ScriptInitially, ScriptStep, PTL DEF HandoffSpec

-----------------------------------------------------------------------------
(* The results.                                                            *)

(* An update that ends with a verdict has left one program: what is        *)
(* installed, what the task runs and what the user started are the one     *)
(* that it names, and a verified rollback has restored the task.           *)
THEOREM VerdictNamesTheProgram == HandoffSpec => []OneProgramAtTheEnd
  <1>1. UpdateInv => OneProgramAtTheEnd
    BY DEF UpdateInv, ClientsCurrent, Verdicts, OneProgramAtTheEnd
  <1> QED
    BY <1>1, UpdateInvariant, HandoffRefinesUpdate, PTL

(* Whoever starts a client while the update replaces the program, no two   *)
(* versions of it ever run side by side.                                   *)
THEOREM ClientsNeverMixed == HandoffSpec => []NoMixedClients
  <1>1. UpdateInv => NoMixedClients
    BY DEF UpdateInv, ClientsCurrent, NoMixedClients
  <1> QED
    BY <1>1, UpdateInvariant, HandoffRefinesUpdate, PTL

(* The types, and the order of the processes: the runner begins after the  *)
(* command, which runs the executable it replaces, is gone.                *)
THEOREM HandoffOrdered == HandoffSpec => []HandoffInv
  <1>1. ScriptInv => HandoffInv
    BY DEF ScriptInv, HandoffInv
  <1> QED
    BY <1>1, ScriptInvariant, PTL

(* A refused elevation and a code from before the runner mean a client     *)
(* that is untouched and stays so; a script that has started the update    *)
(* ends with 31, whatever becomes of the update.                           *)
THEOREM ExitCodeTellsUntouched == HandoffSpec => []ExitTellsUntouched
  <1>1. ASSUME ScriptInv
        PROVE  ExitTellsUntouched
    <2>1. phase = "resolve" => Untouched
      BY <1>1 DEF ScriptInv, UpdateInv, TypeOK, EngineTypeOK, Stages, Untouched
    <2>2. handoff = "declined" \/ exitCode \in {10, 11, 20} => ~started
      BY <1>1 DEF ScriptInv, NotBegun, CodeTells
    <2>3. ~started => Untouched
      BY <1>1, <2>1 DEF ScriptInv, NotBegun
    <2>4. handoff = "ended" => exitCode \in {10, 11, 20, 31}
      BY <1>1 DEF ScriptInv, CodeTells
    <2> QED
      BY <2>2, <2>3, <2>4 DEF ExitTellsUntouched
  <1>2. ScriptInv => ExitTellsUntouched
    BY <1>1
  <1> QED
    BY <1>2, ScriptInvariant, PTL

(* The Windows update, with the task, the user and the clients acting      *)
(* between its calls, and with each of its processes killed anywhere, is a *)
(* contract-keeping update.                                                *)
THEOREM WindowsKeepsContract == HandoffSpec => ImplementsContract
  BY UpdateKeepsContract, HandoffRefinesUpdate, PTL

=============================================================================
