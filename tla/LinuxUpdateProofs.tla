--------------------------- MODULE LinuxUpdateProofs ---------------------------
(***************************************************************************)
(* Proofs about LinuxUpdate and the unit it restarts, for every number of  *)
(* bind attempts, every interval and every start limit that the attempts   *)
(* of LimitBurst starts outlast.                                           *)
(***************************************************************************)
EXTENDS LinuxUpdate, TLAPS

-----------------------------------------------------------------------------
(* The start limit.                                                        *)

(* The time that the starts before the last one took, had each of them     *)
(* tried every bind attempt.                                               *)
Before == (starts - 1) * Cycle

(* As long as the window has seen nothing but exhausted bind attempts, it  *)
(* is as old as they took.                                                 *)
Paced ==
  ~blamed /\ ~WindowPassed =>
    /\ starts > 0
    /\ Before <= window
    /\ server = "binding" => Before + attempts * RetryInterval <= window + left
    /\ unit = "restarting" /\ exhausted => Before + Cycle <= window + left

UnitInv == UnitTypeOK /\ Paced /\ TransientNeverFatal

LEMMA CycleTyped ==
  ASSUME UnitAssumption
  PROVE  /\ Cycle \in Nat \ {0}
         /\ Cycle = (RetryAttempts - 1) * RetryInterval + RestartSec
         /\ RetryAttempts \in Nat \ {0} /\ RetryInterval \in Nat \ {0} /\ RestartSec \in Nat \ {0}
         /\ LimitInterval \in Nat /\ LimitBurst \in Nat \ {0}
         /\ LimitBurst * Cycle > LimitInterval
  <1>1. RetryAttempts - 1 \in Nat /\ RetryInterval \in Nat \ {0} /\ RestartSec \in Nat \ {0}
    BY DEF UnitAssumption
  <1>2. (RetryAttempts - 1) * RetryInterval \in Nat
    BY <1>1, SMT
  <1> QED
    BY <1>1, <1>2 DEF UnitAssumption, Cycle

LEMMA OneMore ==
  ASSUME NEW a \in Int, NEW b \in Int
  PROVE  /\ (a - 1) * b \in Int /\ a * b \in Int
         /\ (a + 1) * b = a * b + b
         /\ ((a + 1) - 1) * b = (a - 1) * b + b
         /\ a * b = (a - 1) * b + b
         /\ (1 - 1) * b = 0
  BY SMT

(* A tick makes the window older by as much as it makes a sleep shorter.   *)
LEMMA OneTick ==
  ASSUME NEW spent \in Int, NEW age \in Int, NEW rest \in Int, NEW rest2 \in Int,
         spent <= age + rest, rest2 + 1 >= rest
  PROVE  spent <= (age + 1) + rest2
  OBVIOUS

(* A start after exhausted attempts finds the window too old to be full.   *)
LEMMA StartKeeps ==
  ASSUME UnitAssumption, UnitInv, NEW because \in BOOLEAN, Start(because),
         because => unit = "restarting" /\ exhausted /\ left = 0
  PROVE  UnitInv'
  <1>1. starts \in Nat /\ window \in Int /\ left \in Nat /\ blamed \in BOOLEAN
    BY CycleTyped DEF UnitInv, UnitTypeOK, UnitAssumption
  <1>2. UnitTypeOK'
    <2>1. blamed' \in BOOLEAN /\ UNCHANGED <<bindable, exhausted, errors>>
      BY DEF UnitInv, UnitTypeOK, Start
    <2>2. /\ unit' \in {"active", "failed"} /\ server' \in {"off", "binding"}
          /\ unit' = "active" <=> server' # "off"
      BY DEF Start, Launched
    <2>3. attempts' \in 0..(RetryAttempts - 1) /\ left' \in Nat
      BY CycleTyped DEF UnitInv, UnitTypeOK, Start, Launched
    <2>4. window' \in 0..(LimitInterval + 1) /\ starts' \in 0..LimitBurst
      BY CycleTyped DEF UnitInv, UnitTypeOK, Start
    <2> QED
      BY <2>1, <2>2, <2>3, <2>4 DEF UnitInv, UnitTypeOK
  <1>3. Before \in Int
    BY <1>1, CycleTyped, OneMore DEF Before
  <1>4. CASE WindowPassed /\ window' = 0 /\ starts' = 1 /\ blamed' = FALSE /\ Launched
    <2>1. Before' = 0
      BY <1>4, CycleTyped, OneMore DEF Before, Cycle
    <2>2. Paced'
      BY <1>4, <2>1, CycleTyped DEF Paced, Launched
    <2> QED
      BY <1>2, <1>4, <2>2 DEF UnitInv, TransientNeverFatal, Launched
  <1>5. CASE /\ ~WindowPassed /\ starts' = starts + 1 /\ blamed' = (blamed \/ ~because)
             /\ Launched /\ window' = window
    <2>1. SUFFICES ASSUME ~blamed, because
                   PROVE  Paced'
      BY <1>2, <1>5 DEF UnitInv, TransientNeverFatal, Paced, Launched
    <2>2. Before + Cycle <= window
      BY <1>1, <1>3, <1>5, <2>1, CycleTyped DEF UnitInv, Paced
    <2>3. Before' = Before + Cycle
      BY <1>1, <1>5, CycleTyped, OneMore DEF Before, Cycle
    <2> QED
      BY <1>1, <1>5, <2>2, <2>3, CycleTyped DEF Paced, Launched
  <1>6. CASE /\ ~WindowPassed /\ starts = LimitBurst /\ unit' = "failed" /\ server' = "off"
             /\ blamed' = (blamed \/ ~because) /\ UNCHANGED <<attempts, window, starts>>
    <2>1. blamed \/ ~because
      <3> SUFFICES ASSUME ~blamed, because
                   PROVE  FALSE
        OBVIOUS
      <3>1. Before + Cycle <= window
        BY <1>1, <1>3, <1>6, CycleTyped DEF UnitInv, Paced
      <3>2. Before + Cycle = LimitBurst * Cycle
        BY <1>1, <1>6, CycleTyped, OneMore DEF Before
      <3> QED
        BY <1>1, <1>6, <3>1, <3>2, CycleTyped DEF WindowPassed
    <2> QED
      BY <1>2, <1>6, <2>1 DEF UnitInv, TransientNeverFatal, Paced
  <1> QED
    BY <1>4, <1>5, <1>6 DEF Start

LEMMA BindFailsKeeps ==
  ASSUME UnitAssumption, UnitInv, BindFails
  PROVE  UnitInv'
  <1>1. starts \in Nat /\ window \in Int /\ left = 0 /\ attempts \in 0..(RetryAttempts - 1)
    BY CycleTyped DEF UnitInv, UnitTypeOK, BindFails, Binding
  <1>2. UnitTypeOK'
    <2>1. UNCHANGED <<window, starts, bindable, blamed, errors>> /\ exhausted' \in {exhausted, TRUE}
      BY DEF BindFails, Exit
    <2>2. /\ unit' \in {unit, "restarting"} /\ server' \in {server, "off"}
          /\ unit' = "active" <=> server' # "off"
      BY DEF UnitInv, UnitTypeOK, BindFails, Exit
    <2>3. attempts' \in 0..(RetryAttempts - 1) /\ left' \in Nat
      BY <1>1, CycleTyped DEF BindFails, Exit, Again
    <2> QED
      BY <2>1, <2>2, <2>3 DEF UnitInv, UnitTypeOK
  <1>3. /\ UNCHANGED <<Before, window, starts, blamed, WindowPassed>>
        /\ server = "binding"
    BY DEF BindFails, Exit, Before, WindowPassed, Binding
  <1>4. SUFFICES ASSUME ~blamed, ~WindowPassed
                 PROVE  Paced'
    BY <1>2, <1>3 DEF UnitInv, TransientNeverFatal, Paced, BindFails, Exit
  <1>5. starts > 0 /\ Before <= window /\ Before + attempts * RetryInterval <= window
    BY <1>1, <1>3, <1>4, CycleTyped DEF UnitInv, Paced
  <1>6. Before \in Int /\ attempts * RetryInterval \in Int
    BY <1>1, CycleTyped, OneMore DEF Before
  <1>7. CASE Again(attempts) /\ attempts' = attempts + 1 /\ left' = RetryInterval /\ UNCHANGED unit
    <2>1. attempts' * RetryInterval = attempts * RetryInterval + RetryInterval
      BY <1>1, <1>7, CycleTyped, OneMore
    <2>2. unit # "restarting"
      BY <1>3 DEF UnitInv, UnitTypeOK
    <2> QED
      BY <1>1, <1>3, <1>5, <1>6, <1>7, <2>1, <2>2, CycleTyped DEF Paced
  <1>8. CASE ~Again(attempts) /\ Exit(TRUE)
    <2>1. attempts = RetryAttempts - 1
      BY <1>1, <1>8, CycleTyped DEF Again
    <2>2. Before + Cycle <= window + RestartSec
      BY <1>1, <1>5, <1>6, <2>1, CycleTyped
    <2>3. unit' = "restarting" /\ server' = "off" /\ left' = RestartSec
      BY <1>8 DEF Exit
    <2>4. Cycle' = Cycle
      BY DEF Cycle
    <2> QED
      BY <1>3, <1>5, <2>2, <2>3, <2>4 DEF Paced
  <1> QED
    BY <1>7, <1>8 DEF BindFails

LEMMA TickKeeps ==
  ASSUME UnitAssumption, UnitInv, Tick
  PROVE  UnitInv'
  <1>1. window \in 0..(LimitInterval + 1) /\ left \in Nat /\ LimitInterval \in Nat
    BY CycleTyped DEF UnitInv, UnitTypeOK
  <1>2. UnitTypeOK'
    BY <1>1 DEF UnitInv, UnitTypeOK, Tick, WindowPassed
  <1>3. Before \in Int /\ attempts * RetryInterval \in Int /\ Cycle \in Int
    <2>1. starts \in Int /\ attempts \in Int
      BY CycleTyped DEF UnitInv, UnitTypeOK
    <2> QED
      BY <2>1, CycleTyped, OneMore DEF Before
  <1>4. UNCHANGED <<Before, attempts, starts, blamed, server, unit, exhausted>>
    BY DEF Tick, Before
  <1>5. ~WindowPassed' => ~WindowPassed /\ window' = window + 1 /\ left' + 1 >= left
    BY <1>1 DEF Tick, WindowPassed
  <1>6. left' \in Nat
    BY <1>2 DEF UnitTypeOK
  <1>7. Paced'
    <2>1. Cycle' = Cycle /\ attempts' * RetryInterval = attempts * RetryInterval
      BY <1>4 DEF Cycle
    <2>2. window \in Int /\ left \in Int /\ left' \in Int
      BY <1>1, <1>6
    <2> SUFFICES ASSUME ~blamed', ~WindowPassed'
                 PROVE  /\ starts' > 0 /\ Before' <= window'
                        /\ server' = "binding" => Before' + attempts' * RetryInterval <= window' + left'
                        /\ unit' = "restarting" /\ exhausted' => Before' + Cycle' <= window' + left'
      BY DEF Paced
    <2>3. Paced /\ ~blamed /\ ~WindowPassed
      BY <1>4, <1>5 DEF UnitInv
    <2>4. starts' > 0 /\ Before' <= window'
      BY <1>3, <1>4, <1>5, <2>2, <2>3 DEF Paced
    <2> DEFINE spent == attempts * RetryInterval
    <2>7. window' = window + 1 /\ left' + 1 >= left /\ spent \in Int /\ Before' = Before
      BY <1>3, <1>4, <1>5
    <2>8. server = "binding" => Before + spent <= window + left
      BY <2>3 DEF Paced
    <2> HIDE DEF spent
    <2>5. server' = "binding" => Before' + attempts' * RetryInterval <= window' + left'
      <3>1. server = "binding" => Before + spent <= window' + left'
        <4>1. Before + spent \in Int
          BY <1>3, <2>7
        <4>2. server = "binding" => Before + spent <= (window + 1) + left'
          BY <2>2, <2>7, <2>8, <4>1, OneTick
        <4> QED
          BY <2>7, <4>2
      <3> QED
        BY <1>4, <2>1, <2>7, <3>1 DEF spent
    <2>6. unit' = "restarting" /\ exhausted' => Before' + Cycle' <= window' + left'
      <3>1. unit = "restarting" /\ exhausted => Before + Cycle <= window + left
        BY <2>3 DEF Paced
      <3>2. unit = "restarting" /\ exhausted => Before + Cycle <= window' + left'
        <4>1. Before + Cycle \in Int
          BY <1>3
        <4>2. unit = "restarting" /\ exhausted => Before + Cycle <= (window + 1) + left'
          BY <2>2, <2>7, <3>1, <4>1, OneTick
        <4> QED
          BY <2>7, <4>2
      <3> QED
        BY <1>4, <2>1, <2>7, <3>2
    <2> QED
      BY <2>4, <2>5, <2>6
  <1> QED
    BY <1>2, <1>4, <1>7 DEF UnitInv, TransientNeverFatal
(* What is left of the unit's steps begins no start, and only forgets how  *)
(* far the program was.                                                    *)
LEMMA QuietKeeps ==
  ASSUME UnitAssumption, UnitInv, Stop \/ Bind \/ ServerFails \/ AddressChanges \/ UNCHANGED service
  PROVE  UnitInv'
  <1>1. /\ UNCHANGED <<window, starts, blamed, attempts>>
        /\ bindable' \in BOOLEAN /\ exhausted' \in BOOLEAN
    BY DEF Stop, Bind, ServerFails, Exit, AddressChanges, service, UnitInv, UnitTypeOK
  <1>2. /\ unit' \in {"inactive", "active", "restarting", "failed"}
        /\ server' \in {"off", "binding", "serving"}
        /\ unit' = "active" <=> server' # "off"
        /\ unit' = "failed" => unit = "failed"
    BY DEF Stop, Bind, Binding, ServerFails, Exit, AddressChanges, service, UnitInv, UnitTypeOK
  <1>3. left' \in Nat /\ errors' \in 0..MaxErrors
    BY CycleTyped DEF Stop, Bind, ServerFails, Exit, AddressChanges, service, UnitInv, UnitTypeOK,
                      UnitAssumption
  <1>4. UnitTypeOK'
    BY <1>1, <1>2, <1>3 DEF UnitInv, UnitTypeOK
  <1>5. server' = "binding" => server = "binding" /\ left' = left
    BY DEF Stop, Bind, ServerFails, Exit, AddressChanges, service
  <1>6. unit' = "restarting" /\ exhausted' => unit = "restarting" /\ exhausted /\ left' = left
    BY DEF Stop, Bind, ServerFails, Exit, AddressChanges, service, UnitInv, UnitTypeOK
  <1>7. Before' = Before /\ WindowPassed' = WindowPassed /\ Cycle' = Cycle
    BY <1>1 DEF Before, WindowPassed, Cycle
  <1>8. Paced'
    BY <1>1, <1>5, <1>6, <1>7 DEF UnitInv, Paced
  <1> QED
    BY <1>1, <1>2, <1>4, <1>8 DEF UnitInv, TransientNeverFatal

LEMMA UnitKeeps ==
  ASSUME UnitAssumption, UnitInv, [Next]_vars
  PROVE  UnitInv'
  <1>1. CASE ServiceStep
    <2>1. CASE AutoRestart
      <3>1. exhausted \in BOOLEAN
        BY DEF UnitInv, UnitTypeOK
      <3> QED
        BY <2>1, <3>1, StartKeeps DEF AutoRestart
    <2> QED
      BY <1>1, <2>1, BindFailsKeeps, TickKeeps, QuietKeeps DEF ServiceStep
  <1>2. CASE Transaction
    <2>1. Stop \/ Start(FALSE) \/ UNCHANGED service
      BY <1>2 DEF Transaction, StageRelease, BackupBinary, StopService, Stopped, SwapBinary,
                  RestartService, Restarted, WaitForActive, RestoreBinary, RestartPrior
    <2> QED
      BY <2>1, QuietKeeps, StartKeeps
  <1>3. CASE UNCHANGED service
    BY <1>3, QuietKeeps
  <1> QED
    BY <1>1, <1>2, <1>3 DEF Next, vars

LEMMA UnitInitially ==
  ASSUME UnitAssumption, Init
  PROVE  UnitInv
  <1>1. WindowPassed
    BY CycleTyped DEF Init, UnitInit, WindowPassed
  <1>2. UnitTypeOK
    <2>1. /\ unit \in {"inactive", "active"} /\ server \in {"off", "binding", "serving"}
          /\ unit = "active" <=> server # "off"
      BY DEF Init, UnitInit
    <2>2. /\ attempts \in 0..(RetryAttempts - 1) /\ left \in Nat
          /\ window \in 0..(LimitInterval + 1) /\ starts \in 0..LimitBurst /\ errors \in 0..MaxErrors
      BY CycleTyped DEF Init, UnitInit, UnitAssumption
    <2> QED
      BY <2>1, <2>2 DEF Init, UnitInit, UnitTypeOK
  <1> QED
    BY <1>1, <1>2 DEF Init, UnitInit, UnitInv, Paced, TransientNeverFatal

(* Whatever numbers the unit file and the program give, as long as the     *)
(* bind attempts of LimitBurst starts outlast the window: an address that  *)
(* cannot be bound never uses up the start limit by itself.                *)
THEOREM TransientIsNeverFatal == Spec => []TransientNeverFatal
  <1>1. Init => UnitInv
    BY UnitAssumption, UnitInitially
  <1>2. UnitInv /\ [Next]_vars => UnitInv'
    BY UnitAssumption, UnitKeeps
  <1>3. UnitInv => TransientNeverFatal
    BY DEF UnitInv
  <1> QED
    BY <1>1, <1>2, <1>3, PTL DEF Spec

-----------------------------------------------------------------------------
(* The transaction.                                                        *)

(* Where the transaction is tells what it has touched, what is kept and    *)
(* what is installed.                                                      *)
Stages ==
  /\ phase \in {"resolve", "stage", "backup"} => ~touched /\ installed = "prior"
  /\ phase \in {"preSwap", "swap", "postSwap", "health", "rollback"} => backup
  /\ phase \in {"swap", "postSwap", "health", "rollback"} => touched
  /\ phase \in {"postSwap", "health"} => installed = "new"
  /\ restored = TRUE => installed = "prior"
  /\ restored # None => phase \in {"rollback", "done", "dead"}
  /\ touched \/ backup => phase \notin {"resolve", "stage", "backup"}

TransactionInv ==
  /\ EngineTypeOK
  /\ installed \in {"prior", "new"} /\ touched \in BOOLEAN
  /\ restored \in BOOLEAN \cup {None}
  /\ Stages
  /\ OutcomeIsTruthful

LEMMA TransactionInitially ==
  ASSUME OutcomeAssumption, Init
  PROVE  TransactionInv
  BY DEF Init, EngineInit, TransactionInv, EngineTypeOK, Phases, Outcomes, Stages, OutcomeIsTruthful,
         OutcomeAssumption

LEMMA BeforeTheSwap ==
  ASSUME OutcomeAssumption, RestoredAssumption, TransactionInv,
         (Resolve /\ UNCHANGED <<service, binary, restored, touched, broken>>) \/ StageRelease
           \/ BackupBinary \/ StopService \/ SwapBinary
  PROVE  TransactionInv'
  <1>1. CASE Resolve /\ UNCHANGED <<service, binary, restored, touched, broken>>
    BY <1>1 DEF Resolve, Finish, binary, TransactionInv, EngineTypeOK, Phases, Outcomes, Stages,
                OutcomeIsTruthful, OutcomeAssumption
  <1>2. CASE StageRelease
    <2>1. /\ UNCHANGED <<installed, restored, touched, backup>> /\ phase = "stage" /\ staged' \in BOOLEAN
          /\ \/ phase' = "backup" /\ UNCHANGED outcome
             \/ phase' = "done" /\ outcome' = "Err"
      BY <1>2 DEF StageRelease, Stage, Finish, Remains, binary
    <2> QED
      BY <2>1 DEF TransactionInv, EngineTypeOK, Phases, Outcomes, Stages, OutcomeIsTruthful,
                  OutcomeAssumption
  <1>3. CASE BackupBinary
    <2>1. /\ UNCHANGED <<installed, restored, touched>> /\ phase = "backup"
          /\ \/ phase' = "preSwap" /\ backup' = TRUE /\ UNCHANGED <<outcome, staged>>
             \/ phase' = "done" /\ backup' = FALSE /\ outcome' = "Err" /\ staged' \in {FALSE, staged}
      BY <1>3 DEF BackupBinary, Backup, Finish, Remains, binary
    <2> QED
      BY <2>1 DEF TransactionInv, EngineTypeOK, Phases, Outcomes, Stages, OutcomeIsTruthful,
                  OutcomeAssumption
  <1>4. CASE StopService
    <2>1. /\ UNCHANGED <<installed, restored, staged, backup, outcome>> /\ touched' = TRUE
          /\ phase = "preSwap" /\ phase' \in {"swap", "rollback"}
      BY <1>4 DEF StopService, PreSwap, Hook, binary
    <2> QED
      BY <2>1 DEF TransactionInv, EngineTypeOK, Phases, Outcomes, Stages, OutcomeIsTruthful,
                  OutcomeAssumption, RestoredAssumption
  <1>5. CASE SwapBinary
    <2>1. /\ UNCHANGED <<restored, touched, staged, backup, outcome>> /\ phase = "swap"
          /\ \/ phase' = "postSwap" /\ installed' = "new"
             \/ phase' = "rollback" /\ installed' = installed
      BY <1>5 DEF SwapBinary, Swap, Hook, Replace, binary
    <2> QED
      BY <2>1 DEF TransactionInv, EngineTypeOK, Phases, Outcomes, Stages, OutcomeIsTruthful,
                  OutcomeAssumption, RestoredAssumption
  <1> QED
    BY <1>1, <1>2, <1>3, <1>4, <1>5

LEMMA AfterTheSwap ==
  ASSUME OutcomeAssumption, RestoredAssumption, TransactionInv,
         RestartService \/ WaitForActive \/ RestoreBinary \/ RestartPrior
  PROVE  TransactionInv'
  <1>1. CASE RestartService
    BY <1>1 DEF RestartService, PostSwap, Hook, binary, TransactionInv, EngineTypeOK, Phases,
                Outcomes, Stages, OutcomeIsTruthful
  <1>2. CASE WaitForActive
    <2>1. UNCHANGED <<installed, linked, restored, touched>> /\ phase = "health"
      BY <1>2 DEF WaitForActive, HealthCheck, Hook, binary
    <2>2. CASE phase' = "rollback" /\ UNCHANGED <<staged, backup, outcome>>
      BY <2>1, <2>2 DEF TransactionInv, EngineTypeOK, Phases, Stages, OutcomeIsTruthful
    <2>3. CASE Finish("Installed") /\ backup' \in {FALSE, backup} /\ staged' \in {FALSE, staged}
      BY <2>1, <2>3 DEF Finish, TransactionInv, EngineTypeOK, Phases, Outcomes, Stages,
                        OutcomeIsTruthful, OutcomeAssumption
    <2> QED
      BY <1>2, <2>2, <2>3 DEF WaitForActive, HealthCheck, Hook, Remains
  <1>3. CASE RestoreBinary
    <2>1. /\ UNCHANGED <<phase, staged, backup, outcome, touched>> /\ phase = "rollback"
          /\ restored' \in BOOLEAN
          /\ installed' \in {"prior", installed} /\ (restored' = TRUE => installed' = "prior")
      BY <1>3 DEF RestoreBinary, Replace, binary, InstallPath
    <2> QED
      BY <2>1 DEF TransactionInv, EngineTypeOK, Phases, Outcomes, Stages, OutcomeIsTruthful,
                  OutcomeAssumption, RestoredAssumption
  <1>4. CASE RestartPrior
    <2>1. PICK ok \in BOOLEAN : FinishRollback(restored /\ ok)
      BY <1>4 DEF RestartPrior
    <2>2. UNCHANGED <<installed, restored, touched>> /\ phase = "rollback" /\ phase' = "done"
      BY <1>4, <2>1 DEF RestartPrior, FinishRollback, Finish, binary
    <2>3. \/ outcome' = "RolledBack" /\ restored = TRUE
          \/ outcome' = "RollbackVerificationFailed" /\ backup' = backup
      BY <1>4, <2>1 DEF RestartPrior, FinishRollback, Finish, TransactionInv
    <2>4. backup' \in BOOLEAN /\ staged' \in BOOLEAN
      BY <2>1 DEF FinishRollback, Remains, TransactionInv, EngineTypeOK
    <2> QED
      BY <2>2, <2>3, <2>4 DEF TransactionInv, EngineTypeOK, Phases, Outcomes, Stages,
                              OutcomeIsTruthful, OutcomeAssumption
  <1> QED
    BY <1>1, <1>2, <1>3, <1>4

LEMMA TransactionKeeps ==
  ASSUME OutcomeAssumption, RestoredAssumption, TransactionInv, [Next]_vars
  PROVE  TransactionInv'
  <1>1. CASE Transaction
    BY <1>1, BeforeTheSwap, AfterTheSwap DEF Transaction
  <1>2. CASE Die /\ UNCHANGED <<service, binary, restored, touched, broken>>
    BY <1>2 DEF Die, Running, binary, TransactionInv, EngineTypeOK, Phases, Outcomes, Stages,
                OutcomeIsTruthful
  <1>3. CASE UNCHANGED <<engine, binary, restored, touched>>
    BY <1>3 DEF engine, binary, TransactionInv, EngineTypeOK, Stages, OutcomeIsTruthful
  <1> QED
    BY <1>1, <1>2, <1>3 DEF Next, vars

(* Whatever fails, wherever the update is killed and whatever the unit     *)
(* does meanwhile: a report of success or of a verified rollback names the *)
(* program that is installed, and an unverified one leaves the backup.     *)
THEOREM OutcomeStaysTruthful == Spec => []OutcomeIsTruthful
  <1>1. Init => TransactionInv
    BY OutcomeAssumption, RestoredAssumption, TransactionInitially
  <1>2. TransactionInv /\ [Next]_vars => TransactionInv'
    BY OutcomeAssumption, RestoredAssumption, TransactionKeeps
  <1>3. TransactionInv => OutcomeIsTruthful
    BY DEF TransactionInv
  <1> QED
    BY <1>1, <1>2, <1>3, PTL DEF Spec

(* What the other two invariants leave open of the types.                  *)
Flags == linked \in BOOLEAN /\ broken \in BOOLEAN

LEMMA FlagsKeep ==
  ASSUME Flags, [Next]_vars
  PROVE  Flags'
  <1>1. CASE UNCHANGED binary /\ UNCHANGED broken
    BY <1>1 DEF Flags, binary
  <1>2. CASE StageRelease \/ BackupBinary \/ StopService \/ RestartService \/ WaitForActive
    BY <1>2 DEF StageRelease, BackupBinary, StopService, RestartService, WaitForActive, Flags, binary
  <1>3. CASE SwapBinary
    BY <1>3 DEF SwapBinary, Replace, Flags, binary
  <1>4. CASE RestoreBinary
    BY <1>4 DEF RestoreBinary, Replace, InstallPath, Flags, binary
  <1>5. CASE RestartPrior
    BY <1>5 DEF RestartPrior, Flags, binary
  <1> QED
    BY <1>1, <1>2, <1>3, <1>4, <1>5 DEF Next, Transaction, vars

(* The types of the update and of the unit, and with them the bounds of    *)
(* the bind attempts and of the starts within the start limit's window.    *)
THEOREM TypeCorrect == Spec => []TypeOK
  <1>1. Init => UnitInv /\ TransactionInv /\ Flags
    BY UnitAssumption, UnitInitially, OutcomeAssumption, RestoredAssumption, TransactionInitially
       DEF Init, Flags
  <1>2. UnitInv /\ TransactionInv /\ Flags /\ [Next]_vars => (UnitInv /\ TransactionInv /\ Flags)'
    BY UnitAssumption, UnitKeeps, OutcomeAssumption, RestoredAssumption, TransactionKeeps, FlagsKeep
  <1>3. UnitInv /\ TransactionInv /\ Flags => TypeOK
    BY DEF UnitInv, TransactionInv, Flags, TypeOK
  <1> QED
    BY <1>1, <1>2, <1>3, PTL DEF Spec

-----------------------------------------------------------------------------
(* The refinement.                                                         *)

LEMMA StepsRefine ==
  ASSUME OutcomeAssumption, RestoredAssumption, TransactionInv, Transaction
  PROVE  [Contract!Next]_(Contract!vars)
  <1> USE DEF Contract!vars, Contract!Next, binary
  <1>1. CASE Resolve /\ UNCHANGED <<service, binary, restored, touched, broken>>
    <2>1. CASE UNCHANGED outcome
      BY <1>1, <2>1 DEF Resolve
    <2>2. CASE \E o \in {"NoOp", "Err"} : Finish(o)
      BY <1>1, <2>2 DEF Resolve, Finish, TransactionInv, EngineTypeOK, Stages, Contract!Decline
    <2> QED
      BY <1>1, <2>1, <2>2 DEF Resolve
  <1>2. CASE StageRelease
    <2>1. CASE UNCHANGED outcome
      BY <1>2, <2>1 DEF StageRelease, Stage
    <2>2. CASE Finish("Err")
      BY <1>2, <2>2 DEF StageRelease, Stage, Finish, TransactionInv, EngineTypeOK, Stages, Contract!Decline
    <2> QED
      BY <1>2, <2>1, <2>2 DEF StageRelease, Stage
  <1>3. CASE BackupBinary
    <2>1. PICK ok \in BOOLEAN : Backup(ok)
      BY <1>3 DEF BackupBinary
    <2>2. UNCHANGED <<installed, touched>> /\ phase = "backup" /\ outcome = None /\ ~touched
          /\ backup = FALSE
      BY <1>3, <2>1 DEF BackupBinary, Backup, TransactionInv, EngineTypeOK, Stages
    <2>3. CASE ok = TRUE
      BY <2>1, <2>2, <2>3 DEF Backup, Contract!BackUp
    <2>4. CASE ok = FALSE
      BY <2>1, <2>2, <2>4 DEF Backup, Finish, Contract!Decline
    <2> QED
      BY <2>3, <2>4
  <1>4. CASE StopService \/ SwapBinary \/ RestoreBinary
    <2>1. backup /\ outcome = None /\ UNCHANGED <<backup, outcome>>
      BY <1>4 DEF StopService, SwapBinary, RestoreBinary, PreSwap, Swap, Hook, TransactionInv,
                  EngineTypeOK, Stages
    <2>2. installed' \in {"prior", "new"} /\ touched' = TRUE
      BY <1>4 DEF StopService, SwapBinary, Swap, Hook, RestoreBinary, Replace, TransactionInv, Stages
    <2> QED
      BY <2>1, <2>2 DEF Contract!Mutate
  <1>5. CASE RestartService
    BY <1>5 DEF RestartService, PostSwap, Hook
  <1>6. CASE WaitForActive
    <2>1. CASE UNCHANGED <<backup, outcome>>
      BY <1>6, <2>1 DEF WaitForActive
    <2>2. CASE phase = "health" /\ Finish("Installed") /\ backup' \in Remains(backup)
      BY <1>6, <2>2 DEF WaitForActive, Finish, Remains, TransactionInv, EngineTypeOK, Stages,
                        Contract!Accept
    <2> QED
      BY <1>6, <2>1, <2>2 DEF WaitForActive, HealthCheck, Hook
  <1>7. CASE RestartPrior
    <2>1. PICK ok \in BOOLEAN : FinishRollback(restored /\ ok)
      BY <1>7 DEF RestartPrior
    <2>2. UNCHANGED <<installed, touched>> /\ backup /\ outcome = None /\ backup' \in BOOLEAN
      BY <1>7, <2>1 DEF RestartPrior, FinishRollback, Remains, TransactionInv, EngineTypeOK, Stages
    <2>3. CASE restored = TRUE /\ ok
      BY <2>1, <2>2, <2>3 DEF FinishRollback, Finish, TransactionInv, Stages, Contract!Revert
    <2>4. CASE ~(restored = TRUE /\ ok)
      <3>1. ~(restored /\ ok)
        BY <1>7, <2>4 DEF RestartPrior, TransactionInv
      <3> QED
        BY <2>1, <2>2, <3>1 DEF FinishRollback, Finish, Contract!GiveUp
    <2> QED
      BY <2>3, <2>4
  <1> QED
    BY <1>1, <1>2, <1>3, <1>4, <1>5, <1>6, <1>7 DEF Transaction

(* The Linux update, with its unit failing and restarting at any moment    *)
(* and with the command killed anywhere, is a contract-keeping update.     *)
THEOREM LinuxKeepsContract == Spec => ImplementsContract
  <1>1. Init => TransactionInv
    BY OutcomeAssumption, RestoredAssumption, TransactionInitially
  <1>2. TransactionInv /\ [Next]_vars => TransactionInv'
    BY OutcomeAssumption, RestoredAssumption, TransactionKeeps
  <1>3. Init => Contract!Init
    BY DEF Init, EngineInit, Contract!Init
  <1>4. TransactionInv /\ [Next]_vars => [Contract!Next]_(Contract!vars)
    <2> SUFFICES ASSUME TransactionInv, [Next]_vars
                 PROVE  [Contract!Next]_(Contract!vars)
      OBVIOUS
    <2>1. CASE Transaction
      BY <2>1, OutcomeAssumption, RestoredAssumption, StepsRefine
    <2>2. CASE UNCHANGED <<staged, backup, outcome, binary, restored, touched>>
      BY <2>2 DEF Contract!vars, binary
    <2>3. Transaction \/ UNCHANGED <<staged, backup, outcome, binary, restored, touched>>
      BY DEF Next, Die, vars, engine
    <2> QED
      BY <2>1, <2>2, <2>3
  <1> QED
    BY <1>1, <1>2, <1>3, <1>4, PTL DEF Spec, ImplementsContract, Contract!Spec

=============================================================================
