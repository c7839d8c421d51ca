------------------------------ MODULE ServerUnit ------------------------------
(***************************************************************************)
(* The server as a systemd user unit: the program tries to bind its socket *)
(* (bind_server_socket of main.rs), exits when it cannot, or on any error  *)
(* of its loop, and is started again after RestartSec, unless it has been  *)
(* started too often. systemd counts the starts in windows: one that comes *)
(* after the window has passed opens the next, one too many within it      *)
(* fails the unit for good (start-limit-hit).                              *)
(***************************************************************************)
EXTENDS Integers

CONSTANTS
  RetryAttempts,   (* BIND_RETRY_ATTEMPTS                                    *)
  RetryInterval,   (* BIND_RETRY_INTERVAL                                    *)
  RestartSec,
  LimitInterval,   (* StartLimitIntervalSec                                  *)
  LimitBurst,      (* StartLimitBurst                                        *)
  MaxErrors        (* bound: errors that are not the address's               *)

(* The time from a start to the next, when no address can be bound.        *)
Cycle == (RetryAttempts - 1) * RetryInterval + RestartSec

(* 10 * (29 * 2 s + 10 s) > 300 s.                                         *)
ASSUME UnitAssumption ==
  /\ {RetryAttempts, RetryInterval, RestartSec, LimitBurst} \subseteq Nat \ {0}
  /\ {LimitInterval, MaxErrors} \subseteq Nat
  /\ LimitBurst * Cycle > LimitInterval

VARIABLES
  unit,        (* what systemctl shows of it                                 *)
  server,      (* the program                                                *)
  attempts,    (* bind attempts that failed                                  *)
  left,        (* what is left of a sleep, or of RestartSec                  *)
  window,      (* the age of the start limit's window                        *)
  starts,      (* the starts within it                                       *)
  bindable,    (* the address and the port are there to be bound             *)
  exhausted,   (* history: the last exit followed the last bind attempt      *)
  blamed,      (* history: a start in the window followed something else     *)
  errors       (* history                                                    *)

service == <<unit, server, attempts, left, window, starts, bindable, exhausted, blamed, errors>>

UnitTypeOK ==
  /\ unit \in {"inactive", "active", "restarting", "failed"}
  /\ server \in {"off", "binding", "serving"}
  /\ unit = "active" <=> server # "off"
  /\ attempts \in 0..(RetryAttempts - 1)
  /\ left \in Nat
  /\ window \in 0..(LimitInterval + 1)
  /\ starts \in 0..LimitBurst
  /\ bindable \in BOOLEAN /\ exhausted \in BOOLEAN /\ blamed \in BOOLEAN
  /\ errors \in 0..MaxErrors

(* The unit was started long ago, or never.                                *)
UnitInit ==
  /\ \/ unit = "inactive" /\ server = "off"
     \/ unit = "active" /\ server \in {"binding", "serving"}
  /\ attempts = 0 /\ left = 0
  /\ window = LimitInterval + 1 /\ starts = 0
  /\ bindable \in BOOLEAN
  /\ exhausted = FALSE /\ blamed = FALSE
  /\ errors = 0

-----------------------------------------------------------------------------
(* systemd                                                                 *)

Launched ==
  /\ unit' = "active" /\ server' = "binding"
  /\ attempts' = 0 /\ left' = 0

WindowPassed == window > LimitInterval

(* because tells that the program ended for want of an address.            *)
Start(because) ==
  /\ \/ /\ WindowPassed
        /\ window' = 0 /\ starts' = 1 /\ blamed' = FALSE
        /\ Launched
     \/ /\ ~WindowPassed /\ starts < LimitBurst
        /\ starts' = starts + 1 /\ blamed' = (blamed \/ ~because)
        /\ Launched
        /\ UNCHANGED window
     \/ /\ ~WindowPassed /\ starts = LimitBurst
        /\ unit' = "failed" /\ server' = "off" /\ left' = 0 /\ blamed' = (blamed \/ ~because)
        /\ UNCHANGED <<attempts, window, starts>>
  /\ UNCHANGED <<bindable, exhausted, errors>>

Stop ==
  /\ unit' = "inactive" /\ server' = "off" /\ left' = 0
  /\ UNCHANGED <<attempts, window, starts, bindable, exhausted, blamed, errors>>

(* Restart=always                                                          *)
AutoRestart ==
  /\ unit = "restarting" /\ left = 0
  /\ Start(exhausted)

-----------------------------------------------------------------------------
(* The program                                                             *)

Exit(because) ==
  /\ unit' = "restarting" /\ server' = "off"
  /\ left' = RestartSec
  /\ exhausted' = because
  /\ UNCHANGED <<attempts, window, starts, bindable, blamed>>

Binding == server = "binding" /\ left = 0

Bind ==
  /\ Binding /\ bindable
  /\ server' = "serving"
  /\ UNCHANGED <<unit, attempts, left, window, starts, bindable, exhausted, blamed, errors>>

(* Mutant: an address error is like any other.                             *)
NeverAgain(n) == FALSE

Again(n) == n + 1 < RetryAttempts

(* AddrNotAvailable or AddrInUse                                           *)
BindFails ==
  /\ Binding /\ ~bindable
  /\ \/ /\ Again(attempts)
        /\ attempts' = attempts + 1
        /\ left' = RetryInterval
        /\ UNCHANGED <<unit, server, window, starts, bindable, exhausted, blamed>>
     \/ ~Again(attempts) /\ Exit(TRUE)
  /\ UNCHANGED errors

(* Any other error of the bind, of a receive, a send or the capture.       *)
ServerFails ==
  /\ Binding \/ server = "serving"
  /\ errors < MaxErrors
  /\ errors' = errors + 1
  /\ Exit(FALSE)

-----------------------------------------------------------------------------
(* The environment                                                         *)

Tick ==
  /\ left' = IF left > 0 THEN left - 1 ELSE 0
  /\ window' = IF WindowPassed THEN window ELSE window + 1
  /\ UNCHANGED <<unit, server, attempts, starts, bindable, exhausted, blamed, errors>>

AddressChanges ==
  /\ bindable' = ~bindable
  /\ UNCHANGED <<unit, server, attempts, left, window, starts, exhausted, blamed, errors>>

ServiceStep ==
  \/ AutoRestart
  \/ Bind
  \/ BindFails
  \/ ServerFails
  \/ Tick
  \/ AddressChanges

(* The program, systemd and time go on.                                    *)
ServiceFairness ==
  /\ WF_service(AutoRestart)
  /\ WF_service(Bind)
  /\ WF_service(BindFails)
  /\ WF_service(Tick)

-----------------------------------------------------------------------------
(* Properties.                                                             *)

(* However long the address cannot be bound, that alone never uses up the  *)
(* start limit: the unit fails only if, within the window, it was started  *)
(* by hand or after another error.                                         *)
TransientNeverFatal == unit = "failed" => blamed

=============================================================================
