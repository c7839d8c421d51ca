---------------------------- MODULE CaptureContract ----------------------------
(***************************************************************************)
(* What CaptureHandle promises the server's control plane, and what        *)
(* ServerControl takes it to do: a capture is started, yields frames, ends *)
(* or fails, and is stopped; each call is one step and gives one result.   *)
(***************************************************************************)
VARIABLES
  capture,   (* "none", "alive", or "exited": nothing but its end is left    *)
  result     (* what the last call returned, "pending" while one is made     *)

vars == <<capture, result>>

Init ==
  /\ capture = "none"
  /\ result = "pending"

Call ==
  /\ result' = "pending"
  /\ UNCHANGED capture

(* A capture that is owned is started already.                             *)
Start ==
  \/ capture # "none" /\ result' = "started" /\ UNCHANGED capture
  \/ capture = "none" /\ capture' = "alive" /\ result' = "started"
  \/ capture = "none" /\ result' = "spawnFailed" /\ UNCHANGED capture

(* The last frame may leave nothing but the end.                           *)
Frame ==
  /\ capture = "alive"
  /\ capture' \in {"alive", "exited"}
  /\ result' = "frame"

(* A read error keeps the capture; the end gives it up.                    *)
ReadError ==
  /\ capture = "alive"
  /\ result' = "readError"
  /\ UNCHANGED capture

Closed ==
  /\ capture = "exited"
  /\ capture' = "none"
  /\ result' = "closed"

NotRunning ==
  /\ capture = "none"
  /\ result' = "notRunning"
  /\ UNCHANGED capture

(* Whatever stopping reports, the capture is given up.                     *)
Stop ==
  /\ capture' = "none"
  /\ \/ result' = "stopped"
     \/ capture # "none" /\ result' = "stopFailed"

Ends ==
  /\ capture = "alive"
  /\ capture' = "exited"
  /\ UNCHANGED result

Next == Call \/ Start \/ Frame \/ ReadError \/ Closed \/ NotRunning \/ Stop \/ Ends

Spec == Init /\ [][Next]_vars

=============================================================================
