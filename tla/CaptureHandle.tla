---------------------------- MODULE CaptureHandle ----------------------------
(***************************************************************************)
(* The server's CaptureHandle (capture.rs, capture_reader.rs) and the      *)
(* parec processes it spawns (capture_process.rs), down to the pipes       *)
(* between them. The server's only thread makes one call at a time and     *)
(* blocks in it; parec writes, closes, hangs and exits as it likes.        *)
(*                                                                         *)
(* Sample values and the texts of stderr are left out: a pipe holds a      *)
(* number of bytes. What stderr is read into is bounded in the code and    *)
(* goes into error messages only.                                          *)
(***************************************************************************)
EXTENDS Integers

CONSTANTS
  FrameBytes,   (* PCM_PAYLOAD_BYTES                                         *)
  PipeBytes,    (* external: what a pipe holds                               *)
  MaxSpawns,    (* bound: the processes spawned                              *)
  MaxFailures,  (* bound: failures of reads and of reaping                   *)
  None

ASSUME CaptureAssumption ==
  /\ {FrameBytes, PipeBytes} \subseteq Nat \ {0}
  /\ {MaxSpawns, MaxFailures} \subseteq Nat
  /\ None \notin 1..MaxSpawns

VARIABLES
  call,      (* what the thread does: nothing, or where in which call it is  *)
  owned,     (* CaptureHandle.process                                        *)
  taken,     (* the process that a call has taken out of it                  *)
  got,       (* bytes_read of read_one_frame                                 *)
  result,    (* what the last call returned                                  *)
  parec,     (* the processes                                                *)
  spawned,   (* how many there were                                          *)
  failures   (* history: how often reading from, and reaping, each failed    *)

thread == <<call, owned, taken, got, result>>
vars == <<thread, parec, spawned, failures>>

Process == 1..MaxSpawns

(* "closed" is each of the errors that read_frame returns after the end of *)
(* the file: the process is gone in all of them.                           *)
Calls == {"idle", "reading", "finishing", "stopping"}
Returns == {"pending", "started", "spawnFailed", "frame", "readError", "closed",
            "notRunning", "stopped", "stopFailed"}

(* An unborn, running or dead process, one that blocks in a write to its   *)
(* full stderr, or one that is dead and reaped.                            *)
Life == {"unborn", "running", "wedged", "dead", "reaped"}

(* out and err are the bytes in its pipes, outOpen tells whether it can    *)
(* still write to stdout; shift is how far into a frame of its output the  *)
(* next byte of stdout is.                                                 *)
ProcessRecord ==
  [life : Life, outOpen : BOOLEAN, out : 0..PipeBytes, err : 0..PipeBytes,
   shift : 0..(FrameBytes - 1)]

Unborn == [life |-> "unborn", outOpen |-> FALSE, out |-> 0, err |-> 0, shift |-> 0]

Alive(p) == parec[p].life \in {"running", "wedged"}

TypeOK ==
  /\ call \in Calls
  /\ {owned, taken} \subseteq Process \cup {None}
  /\ got \in 0..(FrameBytes - 1)
  /\ result \in Returns
  /\ parec \in [Process -> ProcessRecord]
  /\ spawned \in 0..MaxSpawns
  /\ failures \in [Process -> [read : 0..MaxFailures, reap : 0..MaxFailures]]
  /\ call = "reading" => owned # None
  /\ call \in {"finishing", "stopping"} <=> taken # None
  /\ \A p \in Process : parec[p].outOpen => Alive(p)

Init ==
  /\ call = "idle"
  /\ owned = None
  /\ taken = None
  /\ got = 0
  /\ result = "pending"
  /\ parec = [p \in Process |-> Unborn]
  /\ spawned = 0
  /\ failures = [p \in Process |-> [read |-> 0, reap |-> 0]]

-----------------------------------------------------------------------------
(* The calls of the handle.                                                *)
Idle == call = "idle"

(* The process whose ends of the pipes the server has.                     *)
Held == IF taken # None THEN taken ELSE owned

NextCall ==
  /\ Idle
  /\ result # "pending"
  /\ result' = "pending"
  /\ UNCHANGED <<call, owned, taken, got, parec, spawned, failures>>

Return(r) ==
  /\ result' = r
  /\ call' = "idle"

Fails(p, what) ==
  /\ failures[p][what] < MaxFailures
  /\ failures' = [failures EXCEPT ![p][what] = @ + 1]

Spawn ==
  /\ Idle /\ result = "pending" /\ owned = None
  /\ spawned < MaxSpawns
  /\ owned' = spawned + 1
  /\ spawned' = spawned + 1
  /\ parec' = [parec EXCEPT ![spawned + 1].life = "running", ![spawned + 1].outOpen = TRUE]
  /\ Return("started")
  /\ UNCHANGED <<taken, got, failures>>

SpawnFails ==
  /\ Idle /\ result = "pending" /\ owned = None
  /\ Return("spawnFailed")
  /\ UNCHANGED <<owned, taken, got, parec, spawned, failures>>

(* start() over a process that is owned does nothing, whatever its state.  *)
StartOwned ==
  /\ Idle /\ result = "pending" /\ owned # None
  /\ Return("started")
  /\ UNCHANGED <<owned, taken, got, parec, spawned, failures>>

BeginRead ==
  /\ Idle /\ result = "pending"
  /\ IF owned = None THEN Return("notRunning") ELSE call' = "reading" /\ UNCHANGED result
  /\ got' = 0
  /\ UNCHANGED <<owned, taken, parec, spawned, failures>>

Stop ==
  /\ Idle /\ result = "pending"
  /\ IF owned = None THEN Return("stopped") ELSE call' = "stopping" /\ UNCHANGED result
  /\ taken' = owned
  /\ owned' = None
  /\ UNCHANGED <<got, parec, spawned, failures>>

-----------------------------------------------------------------------------
(* read_one_frame                                                          *)

Wanted == FrameBytes - got

(* Mutant: the loop ends one byte early.                                   *)
CompleteButOne(bytes) == bytes + 1 >= FrameBytes

Complete(bytes) == bytes = FrameBytes

(* One read takes some of what the pipe holds.                             *)
ReadSome ==
  /\ call = "reading"
  /\ \E n \in 1..parec[owned].out :
       /\ n <= Wanted
       /\ parec' = [parec EXCEPT ![owned].out = @ - n,
                                 ![owned].shift = (@ + n) % FrameBytes]
       /\ IF Complete(got + n)
            THEN got' = 0 /\ Return("frame")
            ELSE got' = got + n /\ UNCHANGED <<call, result>>
  /\ UNCHANGED <<owned, taken, spawned, failures>>

(* Mutant: the handle keeps the process that has ended.                    *)
ReadEofKeeps ==
  /\ call = "reading"
  /\ parec[owned].out = 0 /\ ~parec[owned].outOpen
  /\ got' = 0
  /\ Return("closed")
  /\ UNCHANGED <<owned, taken, parec, spawned, failures>>

(* End of file, perhaps within a frame: finish_after_eof.                  *)
ReadEof ==
  /\ call = "reading"
  /\ parec[owned].out = 0 /\ ~parec[owned].outOpen
  /\ call' = "finishing"
  /\ taken' = owned
  /\ owned' = None
  /\ UNCHANGED <<got, result, parec, spawned, failures>>

(* An error drops what was read of the frame and keeps the process. Only a *)
(* pipe that has a writer can fail.                                        *)
ReadFails ==
  /\ call = "reading"
  /\ parec[owned].outOpen
  /\ Fails(owned, "read")
  /\ got' = 0
  /\ Return("readError")
  /\ UNCHANGED <<owned, taken, parec, spawned>>

-----------------------------------------------------------------------------
(* finish_after_eof and stop: the child is reaped, after a kill if it has  *)
(* not exited, and then its stderr is read to the end.                     *)
Given == {"finishing", "stopping"}
Success == IF call = "finishing" THEN "closed" ELSE "stopped"
Failure == IF call = "finishing" THEN "closed" ELSE "stopFailed"

(* The process is dropped, and the server's ends of its pipes with it.     *)
GiveUp(r, life) ==
  /\ parec' = [parec EXCEPT ![taken] = [Unborn EXCEPT !.life = life]]
  /\ taken' = None
  /\ got' = 0
  /\ Return(r)

(* Mutant: the child is waited for and not killed.                         *)
ReapWaits ==
  /\ call \in Given /\ parec[taken].life = "dead"
  /\ parec' = [parec EXCEPT ![taken].life = "reaped"]
  /\ UNCHANGED <<thread, spawned, failures>>

Reap ==
  /\ call \in Given /\ parec[taken].life # "reaped"
  /\ parec' = [parec EXCEPT ![taken].life = "reaped", ![taken].outOpen = FALSE]
  /\ UNCHANGED <<thread, spawned, failures>>

(* Mutant: a process that could not be reaped is forgotten.                *)
ReapFailsUndropped ==
  /\ call \in Given /\ parec[taken].life # "reaped"
  /\ Fails(taken, "reap")
  /\ GiveUp(Failure, parec[taken].life)
  /\ UNCHANGED <<owned, spawned>>

(* A query, kill or wait that fails returns the error and drops the        *)
(* process; Drop tries once more, and its failure is ignored.              *)
ReapFails ==
  /\ call \in Given /\ parec[taken].life # "reaped"
  /\ \/ Fails(taken, "reap") /\ GiveUp(Failure, "reaped")
     \/ /\ failures[taken].reap + 1 < MaxFailures
        /\ failures' = [failures EXCEPT ![taken].reap = @ + 2]
        /\ \E life \in {parec[taken].life, "dead"} : GiveUp(Failure, life)
  /\ UNCHANGED <<owned, spawned>>

(* The end of stderr comes when nobody is left to write to it.             *)
Drain ==
  /\ call \in Given /\ parec[taken].life = "reaped"
  /\ GiveUp(Success, "reaped")
  /\ UNCHANGED <<owned, spawned, failures>>

DrainFails ==
  /\ call \in Given /\ parec[taken].life = "reaped"
  /\ Fails(taken, "read")
  /\ GiveUp(Failure, "reaped")
  /\ UNCHANGED <<owned, spawned>>

-----------------------------------------------------------------------------
(* External: parec. It is nobody's duty to read its stderr while it runs.  *)
Write(p) ==
  /\ parec[p].life = "running" /\ parec[p].outOpen
  /\ \E n \in 1..(PipeBytes - parec[p].out) : parec' = [parec EXCEPT ![p].out = @ + n]
  /\ UNCHANGED <<thread, spawned, failures>>

Complain(p) ==
  /\ p = Held
  /\ parec[p].life = "running"
  /\ parec' = IF parec[p].err < PipeBytes
                 THEN [parec EXCEPT ![p].err = @ + 1]
                 ELSE [parec EXCEPT ![p].life = "wedged"]
  /\ UNCHANGED <<thread, spawned, failures>>

CloseStdout(p) ==
  /\ parec[p].life = "running" /\ parec[p].outOpen
  /\ parec' = [parec EXCEPT ![p].outOpen = FALSE]
  /\ UNCHANGED <<thread, spawned, failures>>

(* It exits, or is killed by someone else.                                 *)
Exit(p) ==
  /\ Alive(p)
  /\ parec' = [parec EXCEPT ![p].life = "dead", ![p].outOpen = FALSE]
  /\ UNCHANGED <<thread, spawned, failures>>

-----------------------------------------------------------------------------
(* Steps that a call takes by itself, unless it waits for parec.           *)
CallStep == ReadSome \/ ReadEof \/ Reap \/ Drain

Next ==
  \/ NextCall \/ Spawn \/ SpawnFails \/ StartOwned \/ BeginRead \/ Stop
  \/ CallStep \/ ReadFails \/ ReapFails \/ DrainFails
  \/ \E p \in Process : Write(p) \/ Complain(p) \/ CloseStdout(p) \/ Exit(p)

(* The server's thread is scheduled. Nothing makes it call, and nothing    *)
(* makes parec write or exit.                                              *)
Spec == Init /\ [][Next]_vars /\ WF_vars(CallStep)

-----------------------------------------------------------------------------
(* Properties.                                                             *)

(* A parec that still runs, and so still captures the microphone, is the   *)
(* handle's to stop: there are never two, and none is left behind unless   *)
(* killing it failed, and failed again when it was dropped.                *)
LiveParecIsHeld ==
  \A p \in Process : Alive(p) => p = Held \/ failures[p].reap >= 2

(* The types, and with them who owns which process, and that no process    *)
(* is left behind.                                                         *)
HandleInv == TypeOK /\ LiveParecIsHeld

(* Frames are cut out of parec's output without a gap: every read of a     *)
(* frame begins where a frame does. Only a failed read, which throws away  *)
(* what it had and keeps the process, can shift the frames, and then for   *)
(* good.                                                                   *)
FramesAligned ==
  owned # None /\ failures[owned].read = 0 => parec[owned].shift = got

(* A call returns, or waits for a parec that can still write to stdout:    *)
(* neither the end of the capture, in the middle of a frame or not, nor    *)
(* reading the stderr of a process that has closed its stdout and goes on  *)
(* living can hold the server's only thread.                               *)
CallsReturn ==
  call # "idle" ~> call = "idle" \/ (call = "reading" /\ parec[owned].outOpen)

(* The calls are what CaptureContract says, with a capture that is alive   *)
(* as long as a frame may still come out of it.                            *)
CaptureState ==
  IF Held = None THEN "none"
  ELSE IF parec[Held].outOpen \/ got + parec[Held].out >= FrameBytes THEN "alive"
  ELSE "exited"

Contract == INSTANCE CaptureContract WITH capture <- CaptureState

ImplementsContract == Contract!Spec

=============================================================================
