-------------------------- MODULE CaptureHandleProofs --------------------------
(***************************************************************************)
(* Proofs about CaptureHandle, for every frame and pipe size and every     *)
(* number of processes and failures.                                       *)
(***************************************************************************)
EXTENDS CaptureHandle, TLAPS

(* A process that is not spawned yet has done nothing.                     *)
UnbornBeyond ==
  \A p \in Process : p > spawned =>
    parec[p] = Unborn /\ failures[p] = [read |-> 0, reap |-> 0]

(* The process of the handle, or of a call, was spawned; it is not both    *)
(* the handle's and a call's.                                              *)
HeldIsSpawned ==
  /\ owned # None => owned <= spawned /\ taken = None
  /\ taken # None => taken <= spawned

(* Between calls no part of a frame is kept; a call that is under way has  *)
(* no result; and only an ended stdout is finished after.                  *)
CallInv ==
  /\ call \in {"idle", "stopping"} => got = 0
  /\ call # "idle" => result = "pending"
  /\ call = "finishing" => ~parec[taken].outOpen /\ parec[taken].out = 0

CaptureInv ==
  /\ TypeOK
  /\ UnbornBeyond
  /\ HeldIsSpawned
  /\ CallInv
  /\ LiveParecIsHeld
  /\ FramesAligned

-----------------------------------------------------------------------------
(* Arithmetic of frames.                                                   *)

(* A read leaves the next byte where the frame that is being read wants it. *)
LEMMA ShiftFollows ==
  ASSUME NEW size \in Nat \ {0}, NEW at \in 0..(size - 1), NEW n \in Nat, n <= size - at
  PROVE  /\ at + n = size => (at + n) % size = 0
         /\ at + n # size => (at + n) % size = at + n
  BY SMT

LEMMA Remainder ==
  ASSUME NEW a \in Nat, NEW b \in Nat \ {0}
  PROVE  a % b \in 0..(b - 1)
  BY SMT

-----------------------------------------------------------------------------
(* The types.                                                              *)

LEMMA UnbornType == Unborn \in ProcessRecord
  <1>1. 0 \in 0..PipeBytes /\ 0 \in 0..(FrameBytes - 1)
    BY CaptureAssumption
  <1>2. "unborn" \in Life
    BY DEF Life
  <1> QED
    BY <1>1, <1>2 DEF Unborn, ProcessRecord

(* What is left of a process that is given up.                             *)
LEMMA Dropped ==
  ASSUME NEW life \in Life
  PROVE  /\ [Unborn EXCEPT !.life = life] \in ProcessRecord
         /\ [Unborn EXCEPT !.life = life].life = life
         /\ ~[Unborn EXCEPT !.life = life].outOpen
  <1> DEFINE r == [Unborn EXCEPT !.life = life]
  <1>1. r \in ProcessRecord
    BY UnbornType DEF ProcessRecord
  <1>2. r.life = life /\ ~r.outOpen
    BY DEF Unborn
  <1> QED
    BY <1>1, <1>2

LEMMA InitInv == Init => CaptureInv
  <1> SUFFICES ASSUME Init
               PROVE  CaptureInv
    OBVIOUS
  <1> USE CaptureAssumption DEF Init
  <1>2. TypeOK
    BY UnbornType DEF TypeOK, Calls, Returns, Process, Alive, Unborn
  <1>3. UnbornBeyond /\ HeldIsSpawned /\ CallInv /\ FramesAligned
    BY DEF UnbornBeyond, HeldIsSpawned, CallInv, FramesAligned
  <1>4. LiveParecIsHeld
    BY DEF LiveParecIsHeld, Alive, Unborn
  <1> QED
    BY <1>2, <1>3, <1>4 DEF CaptureInv

(* A step changes one process at most, and within its type.                *)
ChangesOne ==
  \/ UNCHANGED parec
  \/ \E p \in Process, r \in ProcessRecord :
       /\ r.outOpen => r.life \in {"running", "wedged"}
       /\ parec' = [parec EXCEPT ![p] = r]

LEMMA TypesKept ==
  ASSUME TypeOK, ChangesOne
  PROVE  /\ parec' \in [Process -> ProcessRecord]
         /\ \A p \in Process : parec'[p].outOpen => Alive(p)'
  BY DEF TypeOK, ChangesOne, Alive

LEMMA StepChangesOne ==
  ASSUME CaptureInv, [Next]_vars
  PROVE  ChangesOne
  <1> USE CaptureAssumption DEF CaptureInv, TypeOK
  <1>1. ASSUME NextCall \/ SpawnFails \/ StartOwned \/ BeginRead \/ Stop \/ ReadEof \/ ReadFails
        PROVE  ChangesOne
    BY <1>1 DEF ChangesOne, NextCall, SpawnFails, StartOwned, BeginRead, Stop, ReadEof, ReadFails
  <1>2. CASE Spawn
    <2>1. spawned + 1 \in Process
      BY <1>2 DEF Spawn, Process
    <2> DEFINE r == [parec[spawned + 1] EXCEPT !.life = "running", !.outOpen = TRUE]
    <2>2. r \in ProcessRecord /\ r.life = "running"
      BY <2>1 DEF ProcessRecord, Life
    <2>3. parec' = [parec EXCEPT ![spawned + 1] = r]
      BY <1>2 DEF Spawn
    <2> QED
      BY <2>1, <2>2, <2>3 DEF ChangesOne
  <1>3. CASE ReadSome
    <2>1. owned \in Process
      BY <1>3 DEF ReadSome
    <2>2. PICK n \in 1..parec[owned].out :
            parec' = [parec EXCEPT ![owned].out = @ - n,
                                   ![owned].shift = (@ + n) % FrameBytes]
      BY <1>3 DEF ReadSome
    <2> DEFINE r == [parec[owned] EXCEPT !.out = @ - n, !.shift = (@ + n) % FrameBytes]
    <2>3. parec[owned] \in ProcessRecord
      BY <2>1
    <2>4. (parec[owned].shift + n) % FrameBytes \in 0..(FrameBytes - 1)
      <3>1. parec[owned].shift + n \in Nat
        BY <2>3 DEF ProcessRecord
      <3>2. FrameBytes \in Nat \ {0}
        OBVIOUS
      <3> QED
        BY <3>1, <3>2, Remainder
    <2>5. parec[owned].out - n \in 0..PipeBytes
      BY <2>3 DEF ProcessRecord
    <2>6. r \in ProcessRecord
      BY <2>3, <2>4, <2>5 DEF ProcessRecord
    <2>7. r.outOpen => r.life \in {"running", "wedged"}
      BY <2>1, <2>3 DEF ProcessRecord, Alive
    <2>8. parec' = [parec EXCEPT ![owned] = r]
      BY <2>2, <2>1
    <2> QED
      BY <2>1, <2>6, <2>7, <2>8 DEF ChangesOne
  <1>4. CASE Reap
    <2>1. taken \in Process
      BY <1>4 DEF Reap, Given
    <2> DEFINE r == [parec[taken] EXCEPT !.life = "reaped", !.outOpen = FALSE]
    <2>2. r \in ProcessRecord /\ ~r.outOpen
      BY <2>1 DEF ProcessRecord, Life
    <2>3. parec' = [parec EXCEPT ![taken] = r]
      BY <1>4 DEF Reap
    <2> QED
      BY <2>1, <2>2, <2>3 DEF ChangesOne
  <1>5. ASSUME NEW r \in Returns, NEW life \in Life, call \in Given, GiveUp(r, life)
        PROVE  ChangesOne
    <2>1. taken \in Process
      BY <1>5 DEF Given
    <2> QED
      BY <1>5, <2>1, Dropped DEF ChangesOne, GiveUp
  <1>6. CASE ReapFails \/ Drain \/ DrainFails
    <2>1. call \in Given
      BY <1>6 DEF ReapFails, Drain, DrainFails
    <2>2. parec[taken].life \in Life
      BY <2>1 DEF Given, ProcessRecord
    <2>3. \E r \in Returns, life \in Life : GiveUp(r, life)
      BY <1>6, <2>2 DEF ReapFails, Drain, DrainFails, Life, Failure, Success, Returns
    <2> QED
      BY <1>5, <2>1, <2>3
  <1>7. ASSUME NEW p \in Process, Write(p) \/ Complain(p) \/ CloseStdout(p) \/ Exit(p)
        PROVE  ChangesOne
    <2>1. parec[p] \in ProcessRecord
      OBVIOUS
    <2>2. CASE Write(p)
      <3>1. PICK n \in 1..(PipeBytes - parec[p].out) : parec' = [parec EXCEPT ![p].out = @ + n]
        BY <2>2 DEF Write
      <3> DEFINE r == [parec[p] EXCEPT !.out = @ + n]
      <3>2. parec[p].out + n \in 0..PipeBytes
        BY <2>1 DEF ProcessRecord
      <3>3. r \in ProcessRecord /\ r.life = "running"
        BY <2>1, <2>2, <3>2 DEF ProcessRecord, Write
      <3>4. parec' = [parec EXCEPT ![p] = r]
        BY <3>1
      <3> QED
        BY <3>3, <3>4 DEF ChangesOne
    <2>3. CASE Complain(p) /\ parec[p].err < PipeBytes
      <3> DEFINE r == [parec[p] EXCEPT !.err = @ + 1]
      <3>1. parec[p].err + 1 \in 0..PipeBytes
        BY <2>1, <2>3 DEF ProcessRecord
      <3>2. r \in ProcessRecord /\ r.life = "running"
        BY <2>1, <2>3, <3>1 DEF ProcessRecord, Complain
      <3>3. parec' = [parec EXCEPT ![p] = r]
        BY <2>3 DEF Complain
      <3> QED
        BY <3>2, <3>3 DEF ChangesOne
    <2>4. CASE Complain(p) /\ ~(parec[p].err < PipeBytes)
      <3> DEFINE r == [parec[p] EXCEPT !.life = "wedged"]
      <3>1. r \in ProcessRecord /\ r.life = "wedged"
        BY <2>1 DEF ProcessRecord, Life
      <3>2. parec' = [parec EXCEPT ![p] = r]
        BY <2>4 DEF Complain
      <3> QED
        BY <3>1, <3>2 DEF ChangesOne
    <2>5. CASE CloseStdout(p)
      <3> DEFINE r == [parec[p] EXCEPT !.outOpen = FALSE]
      <3>1. r \in ProcessRecord /\ ~r.outOpen
        BY <2>1 DEF ProcessRecord
      <3>2. parec' = [parec EXCEPT ![p] = r]
        BY <2>5 DEF CloseStdout
      <3> QED
        BY <3>1, <3>2 DEF ChangesOne
    <2>6. CASE Exit(p)
      <3> DEFINE r == [parec[p] EXCEPT !.life = "dead", !.outOpen = FALSE]
      <3>1. r \in ProcessRecord /\ ~r.outOpen
        BY <2>1 DEF ProcessRecord, Life
      <3>2. parec' = [parec EXCEPT ![p] = r]
        BY <2>6 DEF Exit
      <3> QED
        BY <3>1, <3>2 DEF ChangesOne
    <2> QED
      BY <1>7, <2>2, <2>3, <2>4, <2>5, <2>6
  <1>8. CASE UNCHANGED vars
    BY <1>8 DEF ChangesOne, vars
  <1> QED
    BY <1>1, <1>2, <1>3, <1>4, <1>6, <1>7, <1>8 DEF Next, CallStep

(* A failure that is counted stays within its bound.                       *)
LEMMA FailureCounted ==
  ASSUME TypeOK, NEW p \in Process, NEW what \in {"read", "reap"}, Fails(p, what)
  PROVE  failures' \in [Process -> [read : 0..MaxFailures, reap : 0..MaxFailures]]
  <1> DEFINE r == [failures[p] EXCEPT ![what] = @ + 1]
  <1>1. failures[p] \in [read : 0..MaxFailures, reap : 0..MaxFailures]
    BY DEF TypeOK
  <1>2. failures[p][what] + 1 \in 0..MaxFailures
    BY <1>1, CaptureAssumption DEF Fails
  <1>3. r \in [read : 0..MaxFailures, reap : 0..MaxFailures]
    BY <1>1, <1>2
  <1>4. failures' = [failures EXCEPT ![p] = r]
    BY DEF Fails
  <1> QED
    BY <1>3, <1>4 DEF TypeOK

LEMMA TypePreserved ==
  ASSUME CaptureInv, [Next]_vars
  PROVE  TypeOK'
  <1> USE CaptureAssumption DEF CaptureInv
  <1>1. /\ parec' \in [Process -> ProcessRecord]
        /\ \A p \in Process : parec'[p].outOpen => Alive(p)'
    BY TypesKept, StepChangesOne
  <1> DEFINE Thread == /\ call' \in Calls
                       /\ {owned', taken'} \subseteq Process \cup {None}
                       /\ got' \in 0..(FrameBytes - 1)
                       /\ result' \in Returns
                       /\ call' = "reading" => owned' # None
                       /\ call' \in {"finishing", "stopping"} <=> taken' # None
             Counts == /\ spawned' \in 0..MaxSpawns
                       /\ failures' \in
                            [Process -> [read : 0..MaxFailures, reap : 0..MaxFailures]]
  <1>2. CASE UNCHANGED vars
    BY <1>1, <1>2 DEF TypeOK, vars, thread
  <1>3. ASSUME NextCall \/ SpawnFails \/ StartOwned \/ BeginRead \/ Stop \/ ReadEof
        PROVE  Thread /\ Counts
    BY <1>3 DEF TypeOK, NextCall, SpawnFails, StartOwned, BeginRead, Stop, ReadEof, Idle, Return,
                Calls, Returns
  <1>4. CASE Spawn
    <2>1. spawned + 1 \in Process /\ spawned + 1 \in 0..MaxSpawns
      BY <1>4 DEF Spawn, TypeOK, Process
    <2> QED
      BY <1>1, <1>4, <2>1 DEF Spawn, TypeOK, Return, Idle, Calls, Returns
  <1>5. CASE ReadSome
    <2>1. PICK n \in 1..parec[owned].out :
            /\ n <= Wanted
            /\ IF Complete(got + n)
                 THEN got' = 0 /\ Return("frame")
                 ELSE got' = got + n /\ UNCHANGED <<call, result>>
      BY <1>5 DEF ReadSome
    <2>2. n \in Nat
      BY <1>5 DEF ReadSome, TypeOK, ProcessRecord
    <2>3. got' \in 0..(FrameBytes - 1)
      BY <2>1, <2>2 DEF TypeOK, Wanted, Complete
    <2> QED
      BY <1>1, <1>5, <2>1, <2>3 DEF ReadSome, TypeOK, Return, Calls, Returns
  <1>6. CASE ReadFails
    <2>1. owned \in Process
      BY <1>6 DEF ReadFails, TypeOK
    <2> QED
      BY <1>1, <1>6, <2>1, FailureCounted DEF ReadFails, TypeOK, Return, Calls, Returns
  <1>7. ASSUME NEW r \in Returns, NEW life, GiveUp(r, life), UNCHANGED <<owned, spawned>>, Counts
        PROVE  TypeOK'
    BY <1>1, <1>7 DEF GiveUp, TypeOK, Return, Calls
  <1>8. CASE Reap
    BY <1>1, <1>8 DEF Reap, TypeOK, thread
  <1>9. Success \in Returns /\ Failure \in Returns
    BY DEF Success, Failure, Returns
  <1>10. CASE Drain
    BY <1>7, <1>9, <1>10 DEF Drain, TypeOK
  <1>11. CASE DrainFails
    <2>1. taken \in Process
      BY <1>11 DEF DrainFails, Given, TypeOK
    <2>2. Counts
      BY <1>11, <2>1, FailureCounted DEF DrainFails, TypeOK
    <2> QED
      BY <1>7, <1>9, <1>11, <2>2 DEF DrainFails
  <1>12. CASE ReapFails
    <2>1. taken \in Process
      BY <1>12 DEF ReapFails, Given, TypeOK
    <2>2. CASE Fails(taken, "reap") /\ GiveUp(Failure, "reaped")
      <3>1. Counts
        BY <1>12, <2>1, <2>2, FailureCounted DEF ReapFails, TypeOK
      <3> QED
        BY <1>7, <1>9, <1>12, <2>2, <3>1 DEF ReapFails
    <2>3. CASE /\ failures[taken].reap + 1 < MaxFailures
               /\ failures' = [failures EXCEPT ![taken].reap = @ + 2]
               /\ \E life \in {parec[taken].life, "dead"} : GiveUp(Failure, life)
      <3> DEFINE r == [failures[taken] EXCEPT !.reap = @ + 2]
      <3>1. failures[taken] \in [read : 0..MaxFailures, reap : 0..MaxFailures]
        BY <2>1 DEF TypeOK
      <3>2. failures[taken].reap + 2 \in 0..MaxFailures
        BY <2>3, <3>1
      <3>3. r \in [read : 0..MaxFailures, reap : 0..MaxFailures]
        BY <3>1, <3>2
      <3>4. failures' = [failures EXCEPT ![taken] = r]
        BY <2>3
      <3>5. Counts
        BY <1>12, <3>3, <3>4 DEF ReapFails, TypeOK
      <3> QED
        BY <1>7, <1>9, <1>12, <2>3, <3>5 DEF ReapFails
    <2> QED
      BY <1>12, <2>2, <2>3 DEF ReapFails
  <1>13. ASSUME NEW p \in Process, Write(p) \/ Complain(p) \/ CloseStdout(p) \/ Exit(p)
         PROVE  TypeOK'
    BY <1>1, <1>13 DEF Write, Complain, CloseStdout, Exit, TypeOK, thread
  <1>14. ASSUME Thread, Counts
         PROVE  TypeOK'
    BY <1>1, <1>14 DEF TypeOK
  <1> QED
    BY <1>2, <1>3, <1>4, <1>5, <1>6, <1>8, <1>10, <1>11, <1>12, <1>13, <1>14 DEF Next, CallStep

-----------------------------------------------------------------------------
(* Who owns what.                                                          *)

(* A call works on the process that is held, and it was spawned.           *)
LEMMA HeldProcess ==
  ASSUME CaptureInv
  PROVE  /\ call = "reading" => owned \in Process /\ owned <= spawned /\ Held = owned
         /\ call \in Given => taken \in Process /\ taken <= spawned /\ Held = taken
                              /\ owned = None
         /\ call = "idle" => taken = None /\ Held = owned
  BY DEF CaptureInv, TypeOK, HeldIsSpawned, Held, Given

(* A process that is not spawned yet is untouched by every step.           *)
LEMMA UnbornUntouched ==
  ASSUME CaptureInv, [Next]_vars
  PROVE  /\ spawned' >= spawned
         /\ \A p \in Process : p > spawned' => parec'[p] = parec[p] /\ failures'[p] = failures[p]
  <1> USE CaptureAssumption DEF CaptureInv
  <1>0. spawned \in Nat /\ \A p \in Process : p \in Nat
    BY DEF TypeOK, Process
  <1>1. ASSUME \/ UNCHANGED vars
               \/ NextCall \/ SpawnFails \/ StartOwned \/ BeginRead \/ Stop \/ ReadEof
        PROVE  UNCHANGED <<spawned, parec, failures>>
    BY <1>1 DEF vars, NextCall, SpawnFails, StartOwned, BeginRead, Stop, ReadEof
  <1>2. CASE Spawn
    BY <1>0, <1>2 DEF Spawn, TypeOK
  <1>3. CASE ReadSome
    <2>1. spawned' = spawned /\ failures' = failures /\ owned \in Process /\ owned <= spawned
      BY <1>3, HeldProcess DEF ReadSome
    <2>2. \A p \in Process \ {owned} : parec'[p] = parec[p]
      BY <1>3 DEF ReadSome, TypeOK
    <2> QED
      BY <1>0, <2>1, <2>2
  <1>8. CASE ReadFails
    <2>1. spawned' = spawned /\ parec' = parec /\ owned \in Process /\ owned <= spawned
      BY <1>8, HeldProcess DEF ReadFails
    <2>2. \A p \in Process \ {owned} : failures'[p] = failures[p]
      BY <1>8 DEF ReadFails, Fails, TypeOK
    <2> QED
      BY <1>0, <2>1, <2>2
  <1>4. CASE Reap \/ Drain
    BY <1>0, <1>4, HeldProcess DEF Reap, Drain, GiveUp, TypeOK
  <1>5. CASE ReapFails \/ DrainFails
    BY <1>0, <1>5, HeldProcess DEF ReapFails, DrainFails, GiveUp, Fails, TypeOK
  <1>6. ASSUME NEW p \in Process, Write(p) \/ Complain(p) \/ CloseStdout(p) \/ Exit(p)
        PROVE  /\ UNCHANGED <<spawned, failures>>
               /\ p <= spawned
               /\ \A q \in Process \ {p} : parec'[q] = parec[q]
    <2>1. parec[p].life # "unborn"
      BY <1>6 DEF Write, Complain, CloseStdout, Exit, Alive
    <2>2. p <= spawned
      BY <1>0, <2>1 DEF UnbornBeyond, Unborn
    <2> QED
      BY <1>6, <2>2 DEF Write, Complain, CloseStdout, Exit, TypeOK
  <1>7. ASSUME NEW p \in Process, Write(p) \/ Complain(p) \/ CloseStdout(p) \/ Exit(p)
        PROVE  \A q \in Process : q > spawned' => parec'[q] = parec[q] /\ failures'[q] = failures[q]
    BY <1>0, <1>6, <1>7
  <1>9. CASE UNCHANGED <<spawned, parec, failures>>
    BY <1>0, <1>9
  <1>10. CASE \E p \in Process : Write(p) \/ Complain(p) \/ CloseStdout(p) \/ Exit(p)
    BY <1>0, <1>6, <1>7, <1>10
  <1> QED
    BY <1>1, <1>2, <1>3, <1>4, <1>5, <1>8, <1>9, <1>10 DEF Next, CallStep

LEMMA UnbornPreserved ==
  ASSUME CaptureInv, [Next]_vars
  PROVE  UnbornBeyond'
  <1>1. spawned \in Int /\ spawned' \in Int /\ spawned' >= spawned
    BY TypePreserved, UnbornUntouched DEF CaptureInv, TypeOK
  <1>2. ASSUME NEW p \in Process, p > spawned'
        PROVE  p > spawned
    BY <1>1, <1>2 DEF Process
  <1> QED
    BY <1>2, UnbornUntouched DEF CaptureInv, UnbornBeyond

LEMMA HeldPreserved ==
  ASSUME CaptureInv, [Next]_vars
  PROVE  HeldIsSpawned' /\ CallInv'
  <1> USE CaptureAssumption DEF CaptureInv
  <1>0. spawned \in Nat /\ \A p \in Process : p \in Nat
    BY DEF TypeOK, Process
  <1>1. CASE UNCHANGED vars
    BY <1>1 DEF vars, thread, HeldIsSpawned, CallInv
  <1>2. CASE NextCall \/ SpawnFails \/ StartOwned
    BY <1>2 DEF NextCall, SpawnFails, StartOwned, Idle, Return, HeldIsSpawned, CallInv, TypeOK
  <1>3. CASE BeginRead \/ Stop
    BY <1>3 DEF BeginRead, Stop, Idle, Return, HeldIsSpawned, CallInv, TypeOK
  <1>4. CASE Spawn
    BY <1>0, <1>4, HeldProcess DEF Spawn, Idle, Return, HeldIsSpawned, CallInv
  <1>5. CASE ReadSome
    <2>1. got' = 0 \/ call' = "reading"
      BY <1>5 DEF ReadSome
    <2>2. call' \in {"idle", "reading"} /\ (call' = "idle" => got' = 0)
      BY <1>5 DEF ReadSome, Return
    <2>3. result = "pending" /\ (call' # "idle" => result' = "pending")
      BY <1>5 DEF ReadSome, CallInv, Return
    <2> QED
      BY <1>5, <2>2, <2>3 DEF ReadSome, HeldIsSpawned, CallInv
  <1>6. CASE ReadEof
    BY <1>6, HeldProcess DEF ReadEof, HeldIsSpawned, CallInv
  <1>7. CASE ReadFails
    BY <1>7 DEF ReadFails, Return, HeldIsSpawned, CallInv
  <1>8. CASE Reap
    <2>1. taken \in Process
      BY <1>8, HeldProcess DEF Reap
    <2>2. ~parec'[taken].outOpen /\ parec'[taken].out = parec[taken].out
      BY <1>8, <2>1 DEF Reap, TypeOK, ProcessRecord
    <2> QED
      BY <1>8, <2>2 DEF Reap, thread, HeldIsSpawned, CallInv
  <1>9. CASE ReapFails \/ Drain \/ DrainFails
    BY <1>9, HeldProcess
       DEF ReapFails, Drain, DrainFails, GiveUp, Return, HeldIsSpawned, CallInv
  <1>10. ASSUME NEW p \in Process, Write(p) \/ Complain(p) \/ CloseStdout(p) \/ Exit(p)
         PROVE  HeldIsSpawned' /\ CallInv'
    <2>1. UNCHANGED <<thread, spawned>>
      BY <1>10 DEF Write, Complain, CloseStdout, Exit
    <2>2. call = "finishing" => taken \in Process
      BY HeldProcess DEF Given
    <2>3. ASSUME call = "finishing"
          PROVE  ~parec'[taken].outOpen /\ parec'[taken].out = 0
      <3>1. ~parec[taken].outOpen /\ parec[taken].out = 0
        BY <2>3 DEF CallInv
      <3>2. CASE Write(p)
        BY <2>2, <2>3, <3>1, <3>2 DEF Write, TypeOK
      <3>3. CASE Complain(p)
        BY <2>2, <2>3, <3>1, <3>3 DEF Complain, TypeOK
      <3>4. CASE CloseStdout(p) \/ Exit(p)
        BY <2>2, <2>3, <3>1, <3>4 DEF CloseStdout, Exit, TypeOK, ProcessRecord
      <3> QED
        BY <1>10, <3>2, <3>3, <3>4
    <2> QED
      BY <2>1, <2>3 DEF thread, HeldIsSpawned, CallInv
  <1> QED
    BY <1>1, <1>2, <1>3, <1>4, <1>5, <1>6, <1>7, <1>8, <1>9, <1>10 DEF Next, CallStep

-----------------------------------------------------------------------------
(* Who lives, and where the frames begin.                                  *)

(* What a step does to a process that lives after it.                      *)
LEMMA LiveSteps ==
  ASSUME CaptureInv, [Next]_vars, NEW q \in Process, Alive(q)', q # Held'
  PROVE  failures'[q].reap >= 2
  <1> USE CaptureAssumption DEF CaptureInv
  <1>0. /\ spawned \in Nat
        /\ \A p \in Process : p \in Nat /\ p # None
        /\ failures[q].reap \in Nat
    BY DEF TypeOK, Process
  <1>1. ASSUME Alive(q), q # Held, failures'[q].reap >= failures[q].reap
        PROVE  failures'[q].reap >= 2
    <2>1. failures[q].reap >= 2
      BY <1>1 DEF LiveParecIsHeld
    <2>2. failures'[q].reap \in Int
      BY TypePreserved DEF TypeOK
    <2> QED
      BY <1>0, <1>1, <2>1, <2>2
  <1>2. ASSUME UNCHANGED <<parec, failures>>, Held' = Held
        PROVE  failures'[q].reap >= 2
    BY <1>0, <1>1, <1>2 DEF Alive
  <1>3. CASE UNCHANGED vars
    BY <1>2, <1>3 DEF vars, thread, Held
  <1>4. CASE NextCall \/ SpawnFails \/ StartOwned \/ BeginRead
    BY <1>2, <1>4 DEF NextCall, SpawnFails, StartOwned, BeginRead, Held
  <1>5. CASE Stop
    <2>1. taken = None /\ owned' = None /\ taken' = owned
      BY <1>5, HeldProcess DEF Stop, Idle
    <2> QED
      BY <1>2, <1>5, <2>1 DEF Stop, Held
  <1>6. CASE ReadEof
    <2>1. taken = None /\ owned' = None /\ taken' = owned
      BY <1>6 DEF ReadEof, HeldIsSpawned, TypeOK
    <2> QED
      BY <1>2, <1>6, <2>1 DEF ReadEof, Held
  <1>7. CASE Spawn
    <2>1. Held = None /\ Held' = spawned + 1
      BY <1>7, HeldProcess DEF Spawn, Idle, Held
    <2>2. Alive(q) /\ failures' = failures
      BY <1>7, <2>1 DEF Spawn, Alive, TypeOK
    <2> QED
      BY <1>0, <1>1, <2>1, <2>2
  <1>8. CASE ReadSome
    <2>1. Held' = Held /\ failures' = failures
      BY <1>8 DEF ReadSome, Held
    <2>2. owned \in Process
      BY <1>8, HeldProcess DEF ReadSome
    <2>3. parec'[q].life = parec[q].life
      BY <1>8, <2>2 DEF ReadSome, TypeOK, ProcessRecord
    <2> QED
      BY <1>0, <1>1, <2>1, <2>3 DEF Alive
  <1>9. CASE ReadFails
    <2>1. Held' = Held /\ parec' = parec /\ owned \in Process
      BY <1>9, HeldProcess DEF ReadFails, Held
    <2>2. failures'[q].reap = failures[q].reap
      BY <1>9, <2>1 DEF ReadFails, Fails, TypeOK
    <2> QED
      BY <1>0, <1>1, <2>1, <2>2 DEF Alive
  <1>10. CASE Reap
    <2>1. Held' = Held /\ failures' = failures /\ taken \in Process
      BY <1>10, HeldProcess DEF Reap, Held, thread
    <2>2. Alive(q)
      BY <1>10, <2>1 DEF Reap, Alive, TypeOK, ProcessRecord
    <2> QED
      BY <1>0, <1>1, <2>1, <2>2
  <1>11. ASSUME NEW life \in Life, NEW r, GiveUp(r, life), call \in Given, q # taken
         PROVE  Alive(q) /\ q # Held
    <2>1. taken \in Process /\ Held = taken
      BY <1>11, HeldProcess
    <2> QED
      BY <1>11, <2>1 DEF GiveUp, Alive, TypeOK
  <1>12. ASSUME NEW life \in Life, NEW r, GiveUp(r, life), call \in Given, q = taken
         PROVE  life \in {"running", "wedged"}
    <2>1. parec'[q].life = life
      BY <1>12, Dropped DEF GiveUp, TypeOK
    <2> QED
      BY <2>1 DEF Alive
  <1>13. CASE Drain
    BY <1>0, <1>1, <1>11, <1>12, <1>13 DEF Drain, Life
  <1>14. CASE DrainFails
    <2>1. taken \in Process
      BY <1>14, HeldProcess DEF DrainFails
    <2>2. failures'[q].reap = failures[q].reap
      BY <1>14, <2>1 DEF DrainFails, Fails, TypeOK
    <2> QED
      BY <1>0, <1>1, <1>11, <1>12, <1>14, <2>2 DEF DrainFails, Life
  <1>15. CASE ReapFails
    <2>1. taken \in Process /\ call \in Given
      BY <1>15, HeldProcess DEF ReapFails
    <2>2. CASE Fails(taken, "reap") /\ GiveUp(Failure, "reaped")
      <3>1. q # taken
        BY <1>12, <2>1, <2>2 DEF Life
      <3>2. failures'[q].reap = failures[q].reap
        BY <2>1, <2>2, <3>1 DEF Fails, TypeOK
      <3> QED
        BY <1>0, <1>1, <1>11, <2>1, <2>2, <3>1, <3>2 DEF Life
    <2>3. CASE /\ failures' = [failures EXCEPT ![taken].reap = @ + 2]
               /\ \E life \in {parec[taken].life, "dead"} : GiveUp(Failure, life)
      <3>1. CASE q = taken
        BY <1>0, <2>1, <2>3, <3>1 DEF TypeOK
      <3>2. CASE q # taken
        <4>1. failures'[q].reap = failures[q].reap
          BY <2>1, <2>3, <3>2 DEF TypeOK
        <4>2. parec[taken].life \in Life
          BY <2>1 DEF TypeOK, ProcessRecord
        <4> QED
          BY <1>0, <1>1, <1>11, <2>1, <2>3, <3>2, <4>1, <4>2 DEF Life
      <3> QED
        BY <3>1, <3>2
    <2> QED
      BY <1>15, <2>2, <2>3 DEF ReapFails
  <1>16. ASSUME NEW p \in Process, Write(p) \/ Complain(p) \/ CloseStdout(p) \/ Exit(p)
         PROVE  failures'[q].reap >= 2
    <2>1. Held' = Held /\ failures' = failures
      BY <1>16 DEF Write, Complain, CloseStdout, Exit, Held, thread
    <2>2. Alive(q)
      <3>1. CASE Write(p)
        BY <3>1 DEF Write, Alive, TypeOK, ProcessRecord
      <3>2. CASE Complain(p)
        BY <3>2 DEF Complain, Alive, TypeOK, ProcessRecord
      <3>3. CASE CloseStdout(p)
        BY <3>3 DEF CloseStdout, Alive, TypeOK, ProcessRecord
      <3>4. CASE Exit(p)
        BY <3>4 DEF Exit, Alive, TypeOK, ProcessRecord
      <3> QED
        BY <1>16, <3>1, <3>2, <3>3, <3>4
    <2> QED
      BY <1>0, <1>1, <2>1, <2>2
  <1> QED
    BY <1>3, <1>4, <1>5, <1>6, <1>7, <1>8, <1>9, <1>10, <1>13, <1>14, <1>15, <1>16
       DEF Next, CallStep

LEMMA LivePreserved ==
  ASSUME CaptureInv, [Next]_vars
  PROVE  LiveParecIsHeld'
  <1> SUFFICES ASSUME NEW q \in Process, Alive(q)', q # Held'
               PROVE  failures'[q].reap >= 2
    BY DEF LiveParecIsHeld
  <1> QED
    BY LiveSteps

LEMMA AlignedPreserved ==
  ASSUME CaptureInv, [Next]_vars
  PROVE  FramesAligned'
  <1> USE CaptureAssumption DEF CaptureInv
  <1> SUFFICES ASSUME owned' # None, failures'[owned'].read = 0
               PROVE  parec'[owned'].shift = got'
    BY DEF FramesAligned
  <1>1. ASSUME UNCHANGED <<owned, got, parec, failures>>
        PROVE  parec'[owned'].shift = got'
    BY <1>1 DEF FramesAligned
  <1>2. CASE UNCHANGED vars \/ NextCall \/ SpawnFails \/ StartOwned
    BY <1>1, <1>2 DEF vars, thread, NextCall, SpawnFails, StartOwned
  <1>3. CASE BeginRead
    BY <1>3 DEF BeginRead, Idle, FramesAligned, CallInv
  <1>4. CASE Stop \/ ReadEof
    BY <1>4 DEF Stop, ReadEof
  <1>5. CASE Spawn
    <2>1. spawned + 1 \in Process /\ spawned + 1 > spawned
      BY <1>5 DEF Spawn, TypeOK, Process
    <2>2. parec[spawned + 1].shift = 0
      BY <2>1 DEF UnbornBeyond, Unborn
    <2>3. parec'[spawned + 1].shift = 0
      BY <1>5, <2>1, <2>2 DEF Spawn, TypeOK, ProcessRecord
    <2> QED
      BY <1>5, <2>3 DEF Spawn, Idle, CallInv
  <1>6. CASE ReadSome
    <2>1. PICK n \in 1..parec[owned].out :
            /\ n <= Wanted
            /\ parec' = [parec EXCEPT ![owned].out = @ - n,
                                      ![owned].shift = (@ + n) % FrameBytes]
            /\ IF Complete(got + n)
                 THEN got' = 0 /\ Return("frame")
                 ELSE got' = got + n /\ UNCHANGED <<call, result>>
      BY <1>6 DEF ReadSome
    <2>2. owned \in Process /\ owned' = owned /\ failures' = failures
      BY <1>6, HeldProcess DEF ReadSome
    <2>3. parec[owned].shift = got
      BY <2>2 DEF FramesAligned
    <2>4. parec'[owned].shift = (got + n) % FrameBytes
      BY <2>1, <2>2, <2>3 DEF TypeOK, ProcessRecord
    <2>5. n \in Nat /\ n <= FrameBytes - got
      BY <2>1, <2>2 DEF TypeOK, ProcessRecord, Wanted
    <2>6. FrameBytes \in Nat \ {0} /\ got \in 0..(FrameBytes - 1)
      BY DEF TypeOK
    <2>7. /\ got + n = FrameBytes => (got + n) % FrameBytes = 0
          /\ got + n # FrameBytes => (got + n) % FrameBytes = got + n
      BY <2>5, <2>6, ShiftFollows
    <2>8. CASE got + n = FrameBytes
      BY <2>1, <2>2, <2>4, <2>7, <2>8 DEF Complete
    <2>9. CASE got + n # FrameBytes
      BY <2>1, <2>2, <2>4, <2>7, <2>9 DEF Complete
    <2> QED
      BY <2>8, <2>9
  <1>7. CASE ReadFails
    <2>1. owned \in Process /\ owned' = owned
      BY <1>7, HeldProcess DEF ReadFails
    <2>2. failures'[owned].read = failures[owned].read + 1 /\ failures[owned].read \in Nat
      BY <1>7, <2>1 DEF ReadFails, Fails, TypeOK
    <2> QED
      BY <2>1, <2>2
  <1>8. CASE Reap \/ ReapFails \/ Drain \/ DrainFails
    BY <1>8, HeldProcess DEF Reap, ReapFails, Drain, DrainFails, thread
  <1>9. ASSUME NEW p \in Process, Write(p) \/ Complain(p) \/ CloseStdout(p) \/ Exit(p)
        PROVE  parec'[owned'].shift = got'
    <2>1. owned' = owned /\ got' = got /\ failures' = failures /\ owned \in Process
      BY <1>9 DEF Write, Complain, CloseStdout, Exit, thread, TypeOK
    <2>2. parec'[owned].shift = parec[owned].shift
      <3>1. CASE Write(p)
        BY <2>1, <3>1 DEF Write, TypeOK, ProcessRecord
      <3>2. CASE Complain(p)
        BY <2>1, <3>2 DEF Complain, TypeOK, ProcessRecord
      <3>3. CASE CloseStdout(p)
        BY <2>1, <3>3 DEF CloseStdout, TypeOK, ProcessRecord
      <3>4. CASE Exit(p)
        BY <2>1, <3>4 DEF Exit, TypeOK, ProcessRecord
      <3> QED
        BY <1>9, <3>1, <3>2, <3>3, <3>4
    <2> QED
      BY <2>1, <2>2 DEF FramesAligned
  <1> QED
    BY <1>2, <1>3, <1>4, <1>5, <1>6, <1>7, <1>8, <1>9 DEF Next, CallStep

LEMMA StepInv == CaptureInv /\ [Next]_vars => CaptureInv'
  BY TypePreserved, UnbornPreserved, HeldPreserved, LivePreserved, AlignedPreserved
     DEF CaptureInv

LEMMA CaptureInvariant == Spec => []CaptureInv
  BY InitInv, StepInv, PTL DEF Spec

(* The types, and who owns which process: a parec that lives is the one    *)
(* that the handle holds, unless killing it failed twice, in every step of *)
(* CaptureHandle's calls and of the processes themselves.                  *)
THEOREM NoCaptureLeftBehind == Spec => []HandleInv
  <1>1. CaptureInv => HandleInv
    BY DEF CaptureInv, HandleInv
  <1> QED
    BY <1>1, CaptureInvariant, PTL

(* read_one_frame cuts the frames out of parec's output without a gap,     *)
(* whatever sizes the reads have, until a read fails.                      *)
THEOREM FramesStayAligned == Spec => []FramesAligned
  <1>1. CaptureInv => FramesAligned
    BY DEF CaptureInv
  <1> QED
    BY <1>1, CaptureInvariant, PTL

-----------------------------------------------------------------------------
(* The calls implement CaptureContract.                                    *)

(* The mapped state, for a process that is held and for none.              *)
LEMMA MappedState ==
  /\ Held = None => CaptureState = "none"
  /\ Held # None =>
       CaptureState =
         IF parec[Held].outOpen \/ got + parec[Held].out >= FrameBytes THEN "alive"
         ELSE "exited"
  BY DEF CaptureState

LEMMA MapsInit == Init => Contract!Init
  BY DEF Init, Contract!Init, CaptureState, Held

(* A step that only makes a capture poorer is nothing, or its end.         *)
Fades ==
  /\ UNCHANGED <<Held, got, result>>
  /\ Held # None /\ ~parec'[Held].outOpen => parec'[Held].out = parec[Held].out

LEMMA FadingMaps ==
  ASSUME Fades, Held # None => ~parec'[Held].outOpen \/ parec[Held].outOpen
  PROVE  Contract!Ends \/ UNCHANGED Contract!vars
  <1>1. CASE Held = None
    BY <1>1, MappedState DEF Fades, CaptureState, Contract!vars
  <1>2. CASE Held # None /\ parec'[Held].outOpen
    BY <1>2 DEF Fades, CaptureState, Contract!vars
  <1>3. CASE Held # None /\ ~parec'[Held].outOpen
    BY <1>3 DEF Fades, CaptureState, Contract!vars, Contract!Ends
  <1> QED
    BY <1>1, <1>2, <1>3

(* What another process does, or the one that is held.                     *)
LEMMA ParecMaps ==
  ASSUME CaptureInv, NEW p \in Process, Write(p) \/ Complain(p) \/ CloseStdout(p) \/ Exit(p)
  PROVE  Contract!Ends \/ UNCHANGED Contract!vars
  <1> USE DEF CaptureInv
  <1>1. UNCHANGED <<Held, got, result>>
    BY DEF Write, Complain, CloseStdout, Exit, thread, Held
  <1>2. Held # None => Held \in Process
    BY DEF TypeOK, Held
  <1>3. ASSUME Held # None
        PROVE  /\ ~parec'[Held].outOpen \/ parec[Held].outOpen
               /\ ~parec'[Held].outOpen => parec'[Held].out = parec[Held].out
    <2>1. CASE Write(p)
      BY <1>2, <1>3, <2>1 DEF Write, TypeOK, ProcessRecord
    <2>2. CASE Complain(p)
      BY <1>2, <1>3, <2>2 DEF Complain, TypeOK, ProcessRecord
    <2>3. CASE CloseStdout(p)
      BY <1>2, <1>3, <2>3 DEF CloseStdout, TypeOK, ProcessRecord
    <2>4. CASE Exit(p)
      BY <1>2, <1>3, <2>4 DEF Exit, TypeOK, ProcessRecord
    <2> QED
      BY <2>1, <2>2, <2>3, <2>4
  <1> QED
    BY <1>1, <1>3, FadingMaps DEF Fades

(* A read takes bytes from the pipe to the frame, or completes it.         *)
LEMMA ReadMaps ==
  ASSUME CaptureInv, ReadSome
  PROVE  Contract!Frame \/ UNCHANGED Contract!vars
  <1> USE CaptureAssumption DEF CaptureInv
  <1>1. PICK n \in 1..parec[owned].out :
          /\ n <= Wanted
          /\ parec' = [parec EXCEPT ![owned].out = @ - n,
                                    ![owned].shift = (@ + n) % FrameBytes]
          /\ IF Complete(got + n)
               THEN got' = 0 /\ Return("frame")
               ELSE got' = got + n /\ UNCHANGED <<call, result>>
    BY DEF ReadSome
  <1>2. owned \in Process /\ Held = owned /\ Held' = owned
    BY HeldProcess DEF ReadSome, Held
  <1>3. owned # None
    BY <1>2 DEF Process
  <1>4. /\ parec'[owned].out = parec[owned].out - n
        /\ parec'[owned].outOpen = parec[owned].outOpen
    BY <1>1, <1>2 DEF TypeOK, ProcessRecord
  <1>5. /\ parec[owned].out \in Nat /\ n \in Nat /\ n <= parec[owned].out
        /\ got \in Nat /\ FrameBytes \in Nat
    BY <1>1, <1>2 DEF TypeOK, ProcessRecord
  <1>6. CASE Complete(got + n)
    <2>1. got + parec[owned].out >= FrameBytes
      BY <1>5, <1>6 DEF Complete
    <2>2. CaptureState = "alive"
      BY <1>2, <1>3, <2>1, MappedState
    <2>3. CaptureState' \in {"alive", "exited"}
      BY <1>2, <1>3 DEF CaptureState
    <2> QED
      BY <1>1, <1>6, <2>2, <2>3 DEF Contract!Frame, Return
  <1>7. CASE ~Complete(got + n)
    <2>1. got' + parec'[owned].out = got + parec[owned].out
      BY <1>1, <1>4, <1>5, <1>7
    <2>2. CaptureState' = CaptureState
      BY <1>2, <1>4, <2>1 DEF CaptureState
    <2> QED
      BY <1>1, <1>7, <2>2 DEF Contract!vars
  <1> QED
    BY <1>6, <1>7

(* A process is given up: the call ends, and the capture with it.          *)
LEMMA GiveUpMaps ==
  ASSUME CaptureInv, NEW r, NEW life, GiveUp(r, life), call \in Given, UNCHANGED owned,
         call = "finishing" => r = "closed",
         call = "stopping" => r \in {"stopped", "stopFailed"}
  PROVE  Contract!Closed \/ Contract!Stop
  <1> USE CaptureAssumption DEF CaptureInv
  <1>1. Held = taken /\ taken \in Process /\ owned = None
    BY HeldProcess
  <1>2. taken # None /\ Held' = None
    BY <1>1 DEF GiveUp, Held, Process
  <1>3. CaptureState' = "none" /\ result' = r
    BY <1>2 DEF CaptureState, GiveUp, Return
  <1>4. CASE call = "finishing"
    <2>1. ~(parec[taken].outOpen \/ got + parec[taken].out >= FrameBytes)
      BY <1>4 DEF CallInv, TypeOK
    <2>2. CaptureState = "exited"
      BY <1>1, <1>2, <2>1, MappedState
    <2> QED
      BY <1>3, <1>4, <2>2 DEF Contract!Closed
  <1>5. CASE call = "stopping"
    <2>1. CaptureState # "none"
      BY <1>1, <1>2 DEF CaptureState
    <2> QED
      BY <1>3, <1>5, <2>1 DEF Contract!Stop
  <1> QED
    BY <1>4, <1>5 DEF Given

LEMMA MapsNext ==
  ASSUME CaptureInv, [Next]_vars
  PROVE  Contract!Next \/ UNCHANGED Contract!vars
  <1> USE CaptureAssumption DEF CaptureInv
  <1>1. CASE UNCHANGED vars
    BY <1>1 DEF vars, thread, CaptureState, Held, Contract!vars
  <1>2. CASE NextCall
    BY <1>2 DEF NextCall, CaptureState, Held, Contract!Next, Contract!Call
  <1>3. CASE Spawn
    <2>1. Held = None /\ Held' = spawned + 1 /\ spawned + 1 \in Process
      BY <1>3, HeldProcess DEF Spawn, Idle, Held, TypeOK, Process
    <2>2. parec'[spawned + 1].outOpen /\ spawned + 1 # None
      BY <1>3, <2>1 DEF Spawn, TypeOK, ProcessRecord, Process
    <2>3. CaptureState = "none" /\ CaptureState' = "alive"
      BY <2>1, <2>2 DEF CaptureState
    <2> QED
      BY <1>3, <2>3 DEF Spawn, Return, Contract!Next, Contract!Start
  <1>4. CASE SpawnFails
    <2>1. CaptureState = "none" /\ CaptureState' = CaptureState
      BY <1>4, HeldProcess DEF SpawnFails, Idle, CaptureState, Held
    <2> QED
      BY <1>4, <2>1 DEF SpawnFails, Return, Contract!Next, Contract!Start
  <1>5. CASE StartOwned
    <2>1. CaptureState # "none" /\ CaptureState' = CaptureState
      BY <1>5, HeldProcess DEF StartOwned, Idle, CaptureState, Held
    <2> QED
      BY <1>5, <2>1 DEF StartOwned, Return, Contract!Next, Contract!Start
  <1>6. CASE BeginRead
    <2>1. Held = owned /\ CaptureState' = CaptureState
      BY <1>6, HeldProcess DEF BeginRead, Idle, CaptureState, Held, CallInv
    <2> QED
      BY <1>6, <2>1
         DEF BeginRead, Return, CaptureState, Contract!Next, Contract!NotRunning, Contract!vars
  <1>7. CASE Stop
    <2>1. Held = owned /\ Held' = owned
      BY <1>7, HeldProcess DEF Stop, Idle, Held
    <2>2. CaptureState' = CaptureState
      BY <1>7, <2>1 DEF Stop, CaptureState
    <2> QED
      BY <1>7, <2>1, <2>2
         DEF Stop, Return, CaptureState, Contract!Next, Contract!Stop, Contract!vars
  <1>8. CASE ReadSome
    BY <1>8, ReadMaps DEF Contract!Next
  <1>9. CASE ReadEof
    <2>1. Held = owned /\ Held' = owned
      BY <1>9, HeldProcess DEF ReadEof, Held
    <2> QED
      BY <1>9, <2>1 DEF ReadEof, CaptureState, Contract!vars
  <1>10. CASE ReadFails
    <2>1. Held = owned /\ Held' = owned /\ owned # None
      BY <1>10, HeldProcess DEF ReadFails, Held, TypeOK
    <2>2. CaptureState = "alive" /\ CaptureState' = "alive"
      BY <1>10, <2>1 DEF ReadFails, CaptureState
    <2> QED
      BY <1>10, <2>2 DEF ReadFails, Return, Contract!Next, Contract!ReadError
  <1>11. CASE Reap
    <2>1. Held = taken /\ taken \in Process /\ UNCHANGED <<Held, got, result>>
      BY <1>11, HeldProcess DEF Reap, thread, Held
    <2>2. ~parec'[taken].outOpen /\ parec'[taken].out = parec[taken].out
      BY <1>11, <2>1 DEF Reap, TypeOK, ProcessRecord
    <2> QED
      BY <2>1, <2>2, FadingMaps DEF Fades, Contract!Next
  <1>12. CASE ReapFails \/ Drain \/ DrainFails
    BY <1>12, GiveUpMaps
       DEF ReapFails, Drain, DrainFails, Success, Failure, Given, Contract!Next
  <1>13. CASE \E p \in Process : Write(p) \/ Complain(p) \/ CloseStdout(p) \/ Exit(p)
    BY <1>13, ParecMaps DEF Contract!Next
  <1> QED
    BY <1>1, <1>2, <1>3, <1>4, <1>5, <1>6, <1>7, <1>8, <1>9, <1>10, <1>11, <1>12, <1>13
       DEF Next, CallStep

(* Down to its pipes the handle is what ServerControl takes it to be: a    *)
(* capture that is started, yields frames, ends or fails, and is stopped,  *)
(* with one result for every call.                                         *)
THEOREM HandleImplementsContract == Spec => ImplementsContract
  <1>1. CaptureInv /\ [Next]_vars => [Contract!Next]_(Contract!vars)
    BY MapsNext
  <1> QED
    BY <1>1, MapsInit, CaptureInvariant, PTL DEF Spec, ImplementsContract, Contract!Spec

=============================================================================
