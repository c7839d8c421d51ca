---------------------------- MODULE WindowsHandoff ----------------------------
(***************************************************************************)
(* wifimic_client upgrade: the command (handoff.rs) resolves the target,   *)
(* writes a PowerShell script and launches it elevated; the script         *)
(* (update-handoff.ps1.template) waits until the command's process is      *)
(* gone, copies the client to a runner, starts the runner to apply the     *)
(* update (WindowsUpdate), and removes the runner and itself. Command,     *)
(* script and runner are processes of their own, and each may be killed.   *)
(*                                                                         *)
(* The script does not wait for the runner. The client is built for the    *)
(* Windows subsystem (main.rs), and PowerShell goes on at once after it    *)
(* has called such a program by `&`, without setting $LASTEXITCODE; to     *)
(* read an unset variable is an error under Set-StrictMode, which the      *)
(* script catches as the failure to run the runner. The update then goes   *)
(* on beside the rest of the script and after its end.                     *)
(***************************************************************************)
EXTENDS WindowsUpdate, Integers

VARIABLES
  handoff,    (* what the command or the script does next                    *)
  parent,     (* the command's process, which runs the client's executable   *)
  script,     (* the script's file exists                                    *)
  runner,     (* the copy of the client exists                               *)
  started,    (* the runner's process was started                            *)
  exitCode    (* $exitCode                                                   *)

files == <<script, runner>>
handoffVars == <<handoff, parent, script, runner, started, exitCode>>
allVars == <<vars, handoffVars>>

Command == {"resolving", "launching"}
Script == {"waiting", "copying", "starting", "removingRunner", "removingScript"}
ExitCodes == {0, 10, 11, 20, 30, 31, 50, 60}

(* "declined": no script was launched; "ended": the script exited.         *)
HandoffTypeOK ==
  /\ TypeOK
  /\ handoff \in Command \cup Script \cup {"declined", "ended", "killed"}
  /\ {parent, script, runner, started} \subseteq BOOLEAN
  /\ exitCode \in ExitCodes

HandoffInit ==
  /\ Init
  /\ handoff = "resolving"
  /\ parent = TRUE
  /\ script = FALSE
  /\ runner = FALSE
  /\ started = FALSE
  /\ exitCode = 0

-----------------------------------------------------------------------------
(* The command. A target that is installed, or that cannot be resolved,    *)
(* ends it; a script that could be created and not written stays behind.   *)
ResolveAndWrite ==
  /\ handoff = "resolving" /\ parent
  /\ \/ handoff' = "launching" /\ script' = TRUE
     \/ handoff' = "declined" /\ script' \in BOOLEAN
  /\ UNCHANGED <<vars, parent, runner, started, exitCode>>

(* The user may refuse the elevation.                                      *)
Launch ==
  /\ handoff = "launching" /\ parent
  /\ handoff' \in {"waiting", "declined"}
  /\ UNCHANGED <<vars, parent, files, started, exitCode>>

(* The command returns, or is killed before it has launched anything.      *)
ParentExits ==
  /\ parent
  /\ parent' = FALSE
  /\ handoff' = IF handoff \in Command THEN "declined" ELSE handoff
  /\ UNCHANGED <<vars, files, started, exitCode>>

-----------------------------------------------------------------------------
(* The script.                                                             *)
Fail(code) == exitCode' = code /\ handoff' = "removingRunner"

(* Mutant: a wait that is given up and not failed.                         *)
WaitForAWhile ==
  /\ handoff = "waiting"
  /\ handoff' = "copying"
  /\ UNCHANGED <<vars, parent, files, started, exitCode>>

(* The wait ends with the process, or fails: by its deadline, which another *)
(* process that was given the same identifier may make it reach, or by an   *)
(* error.                                                                   *)
WaitForParent ==
  /\ handoff = "waiting"
  /\ \/ ~parent /\ handoff' = "copying" /\ UNCHANGED exitCode
     \/ \E code \in {10, 11} : Fail(code)
  /\ UNCHANGED <<vars, parent, files, started>>

CopyRunner ==
  /\ handoff = "copying"
  /\ \/ runner' = TRUE /\ handoff' = "starting" /\ UNCHANGED exitCode
     \/ runner' \in BOOLEAN /\ Fail(20)
  /\ UNCHANGED <<vars, parent, script, started>>

(* Whether the runner starts or not, the script ends up in its catch.      *)
StartRunner ==
  /\ handoff = "starting"
  /\ started' \in BOOLEAN
  /\ Fail(31)
  /\ UNCHANGED <<vars, parent, files>>

RunnerAlive == started /\ Running

(* Mutant: the last failure names the exit code.                           *)
Latest(code) == code

(* The first failure names the exit code.                                  *)
OrElse(code) == IF exitCode = 0 THEN code ELSE exitCode

(* Windows does not remove the executable of a process that lives.         *)
RemoveRunner ==
  /\ handoff = "removingRunner"
  /\ handoff' = "removingScript"
  /\ \/ ~RunnerAlive /\ runner' = FALSE /\ UNCHANGED exitCode
     \/ runner /\ exitCode' = OrElse(50) /\ UNCHANGED runner
  /\ UNCHANGED <<vars, parent, script, started>>

RemoveScript ==
  /\ handoff = "removingScript"
  /\ handoff' = "ended"
  /\ \/ script' = FALSE /\ UNCHANGED exitCode
     \/ exitCode' = OrElse(60) /\ UNCHANGED script
  /\ UNCHANGED <<vars, parent, runner, started>>

(* The user closes the script's window, to which the runner does not belong. *)
ScriptKilled ==
  /\ handoff \in Script
  /\ handoff' = "killed"
  /\ UNCHANGED <<vars, parent, files, started, exitCode>>

-----------------------------------------------------------------------------
(* The runner's transaction, or its end by force.                          *)
RunnerStep ==
  /\ started
  /\ Transaction \/ (Die /\ UNCHANGED <<world, snapshot, step, sound, touched>>)
  /\ UNCHANGED handoffVars

Surroundings ==
  /\ LogonTrigger \/ UserStarts \/ ClientExits
  /\ UNCHANGED handoffVars

HandoffNext ==
  \/ ResolveAndWrite
  \/ Launch
  \/ ParentExits
  \/ WaitForParent
  \/ CopyRunner
  \/ StartRunner
  \/ RemoveRunner
  \/ RemoveScript
  \/ ScriptKilled
  \/ RunnerStep
  \/ Surroundings

HandoffSpec == HandoffInit /\ [][HandoffNext]_allVars

-----------------------------------------------------------------------------
(* Properties.                                                             *)

(* The process of the upgrade command runs the executable that the update  *)
(* replaces, and bears the name of the clients that it kills: while it     *)
(* lives, the update has not begun, and a script that ended has given up   *)
(* its wait and will never begin it.                                       *)
ParentGoneFirst ==
  parent => /\ phase = "resolve" /\ ~runner /\ ~started
            /\ handoff = "ended" => exitCode \in {10, 11}

(* The types, and the order of the processes.                              *)
HandoffInv == HandoffTypeOK /\ ParentGoneFirst

Untouched == installed = "prior" /\ ~touched /\ ~backup

(* What the exit code can tell. A refused elevation, and a code from       *)
(* before the runner, mean an untouched client, now and ever after. A      *)
(* script that has started the update ends with 31, whatever becomes of    *)
(* the update and of the files it cleans up: its code is never taken for   *)
(* that of an untouched client, and never for the end of an update that    *)
(* may still be at work.                                                   *)
ExitTellsUntouched ==
  /\ handoff = "declined" \/ exitCode \in {10, 11, 20} => ~started /\ Untouched
  /\ handoff = "ended" /\ started => exitCode = 31

=============================================================================
