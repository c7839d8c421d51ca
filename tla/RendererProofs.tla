----------------------------- MODULE RendererProofs -----------------------------
(***************************************************************************)
(* Proofs about Renderer, for every budget, interval, capacity, device     *)
(* buffer and frame size.                                                  *)
(***************************************************************************)
EXTENDS Renderer, SequenceTheorems, TLAPS

(* The start-up's clock: an attempt begins after an interval for every     *)
(* attempt before it, and waits for the rest of the budget.                *)
Timely ==
  /\ client.phase = "attempting" => now < Budget
  /\ client.phase \in {"attempting", "opening", "abandoning"} =>
       (client.attempt - 1) * Interval <= now
  /\ client.phase \in {"opening", "abandoning"} => client.until = Budget
  /\ client.phase = "abandoning" => now = Budget
  /\ client.phase \in {"opening", "sleeping"} => now <= client.until
  /\ client.phase = "sleeping" =>
       client.until = Budget \/ client.attempt * Interval <= client.until
  /\ client.phase = "gaveUp" => now = Budget

(* Before the renderer runs no attempt has anything queued, and only the   *)
(* current attempt has a live worker: the attempts to come have none, and  *)
(* the workers of those that failed have ended.                            *)
Ordered ==
  /\ \A a \in Attempt : a > client.attempt => worker[a].at = "none"
  /\ \A a \in Attempt : a < client.attempt => worker[a].at \in {"none", "ended"}
  /\ client.phase = "attempting" => worker[client.attempt].at = "none"
  /\ client.phase = "sleeping" => worker[client.attempt].at \in {"none", "ended"}
  /\ client.phase \in {"opening", "abandoning"} => worker[client.attempt].at # "none"
  /\ \A a \in Attempt : startup[a] = "error" => worker[a].at = "ended"
  /\ \A a \in Attempt : worker[a].at = "none" => startup[a] = "empty"
  /\ \A a \in Attempt : startup[a] = "dropped" => client.phase = "gaveUp"

Quiet ==
  /\ \A a \in Attempt :
       a # client.attempt \/ client.phase \in Starting => queue[a].fifo = <<>>
  /\ client.phase \in Starting => rendered = 0 /\ played = <<>>
  /\ \A a \in Attempt : worker[a].at \in {"copying", "writing", "discarding"} =>
       worker[a].writable > 0

-----------------------------------------------------------------------------
(* Sequences.                                                              *)

(* The front of a FIFO stays when frames are appended behind it.           *)
LEMMA FrontStays ==
  ASSUME NEW s \in Seq(Nat), NEW t \in Seq(Nat), NEW n \in Nat, n <= Len(s)
  PROVE  SubSeq(s \o t, 1, n) = SubSeq(s, 1, n)
  <1>1. CASE n = 0
    BY <1>1, SubSeqEmpty
  <1>2. CASE n # 0
    BY <1>2, SubSeqOfConcat1
  <1> QED
    BY <1>1, <1>2

(* A FIFO is its front and the rest.                                       *)
LEMMA FrontAndRest ==
  ASSUME NEW s \in Seq(Nat), NEW n \in Nat, n <= Len(s)
  PROVE  /\ SubSeq(s, 1, n) \in Seq(Nat)
         /\ SubSeq(s, n + 1, Len(s)) \in Seq(Nat)
         /\ SubSeq(s, 1, n) \o SubSeq(s, n + 1, Len(s)) = s
  <1>1. Len(s) \in Nat /\ \A i \in 1..Len(s) : s[i] \in Nat
    BY LenProperties, ElementOfSeq
  <1>2. /\ \A i \in 1..n : s[i] \in Nat
        /\ \A i \in (n + 1)..Len(s) : s[i] \in Nat
    BY <1>1
  <1>3. SubSeq(s, 1, n) \in Seq(Nat) /\ SubSeq(s, n + 1, Len(s)) \in Seq(Nat)
    BY <1>1, <1>2, SubSeqProperties
  <1>4. 1 \in 1..(Len(s) + 1) /\ n \in (1 - 1)..Len(s) /\ Len(s) \in n..Len(s)
    BY <1>1
  <1>5. SubSeq(s, 1, n) \o SubSeq(s, n + 1, Len(s)) = SubSeq(s, 1, Len(s))
    BY <1>4, ConcatAdjacentSubSeq
  <1>6. SubSeq(s, 1, Len(s)) = s
    BY SubSeqFull
  <1> QED
    BY <1>3, <1>5, <1>6

LEMMA Associative ==
  ASSUME NEW x \in Seq(Nat), NEW y \in Seq(Nat), NEW z \in Seq(Nat)
  PROVE  (x \o y) \o z = x \o (y \o z)
  BY ConcatAssociative, SMTT(20)

(* The rest of a FIFO grows by the frames appended.                        *)
LEMMA RestGrows ==
  ASSUME NEW s \in Seq(Nat), NEW t \in Seq(Nat), NEW n \in Nat, n <= Len(s)
  PROVE  SubSeq(s \o t, n + 1, Len(s \o t)) = SubSeq(s, n + 1, Len(s)) \o t
  <1> DEFINE u == s \o t
             left == SubSeq(u, n + 1, Len(u))
             rest == SubSeq(s, n + 1, Len(s))
  <1>1. /\ u \in Seq(Nat)
        /\ Len(u) = Len(s) + Len(t)
        /\ \A i \in 1..Len(u) : u[i] = IF i <= Len(s) THEN s[i] ELSE t[i - Len(s)]
    BY ConcatProperties
  <1>2. Len(s) \in Nat /\ Len(t) \in Nat
    BY LenProperties
  <1>3. /\ \A i \in (n + 1)..Len(s) : s[i] \in Nat
        /\ \A i \in (n + 1)..Len(u) : u[i] \in Nat
    BY <1>1, <1>2, ElementOfSeq, SMTT(20)
  <1> HIDE DEF u
  <1>4. /\ rest \in Seq(Nat)
        /\ Len(rest) = Len(s) - n
        /\ \A i \in 1..(Len(s) - n) : rest[i] = s[n + i]
    BY <1>2, <1>3, SubSeqProperties
  <1>5. /\ left \in Seq(Nat)
        /\ Len(left) = Len(u) - n
        /\ \A i \in 1..(Len(u) - n) : left[i] = u[n + i]
    BY <1>1, <1>2, <1>3, SubSeqProperties
  <1> HIDE DEF left, rest
  <1>6. /\ rest \o t \in Seq(Nat)
        /\ Len(rest \o t) = Len(rest) + Len(t)
        /\ \A i \in 1..(Len(rest) + Len(t)) :
             (rest \o t)[i] = IF i <= Len(rest) THEN rest[i] ELSE t[i - Len(rest)]
    BY <1>4, ConcatProperties
  <1>7. Len(left) = Len(rest \o t)
    BY <1>1, <1>2, <1>4, <1>5, <1>6
  <1>8. ASSUME NEW i \in 1..Len(left)
        PROVE  left[i] = (rest \o t)[i]
    <2>1. i \in 1..(Len(u) - n) /\ left[i] = u[n + i] /\ n + i \in 1..Len(u)
      BY <1>1, <1>2, <1>5
    <2>2. CASE i <= Len(s) - n
      <3>1. i \in 1..(Len(s) - n) /\ n + i <= Len(s)
        BY <1>2, <2>1, <2>2
      <3>2. (rest \o t)[i] = s[n + i]
        BY <1>2, <1>4, <1>6, <2>1, <3>1
      <3> QED
        BY <1>1, <2>1, <3>1, <3>2
    <2>3. CASE ~(i <= Len(s) - n)
      <3>1. ~(n + i <= Len(s)) /\ (n + i) - Len(s) = i - (Len(s) - n)
        BY <1>2, <2>1, <2>3
      <3>2. i \in 1..(Len(rest) + Len(t))
        BY <1>1, <1>2, <1>4, <2>1
      <3>3. (rest \o t)[i] = t[i - (Len(s) - n)]
        BY <1>4, <1>6, <2>3, <3>2
      <3> QED
        BY <1>1, <2>1, <3>1, <3>3
    <2> QED
      BY <2>2, <2>3
  <1>9. left = rest \o t
    BY <1>5, <1>6, <1>7, <1>8, SeqEqual
  <1> QED
    BY <1>9 DEF left, rest, u

(* The first n + k numbers are the first n and the k that follow.          *)
LEMMA Numbered ==
  ASSUME NEW n \in Nat, NEW k \in Nat
  PROVE  [i \in 1..n |-> i] \o [i \in 1..k |-> n + i] = [i \in 1..(n + k) |-> i]
  <1> DEFINE s == [i \in 1..n |-> i]
             t == [i \in 1..k |-> n + i]
             u == [i \in 1..(n + k) |-> i]
  <1>1. s \in Seq(Nat) /\ Len(s) = n
    OBVIOUS
  <1>2. t \in Seq(Nat) /\ Len(t) = k
    OBVIOUS
  <1>3. u \in Seq(Nat) /\ Len(u) = n + k
    OBVIOUS
  <1>4. /\ s \o t \in Seq(Nat)
        /\ Len(s \o t) = n + k
        /\ \A i \in 1..(n + k) : (s \o t)[i] = IF i <= n THEN s[i] ELSE t[i - n]
    BY <1>1, <1>2, ConcatProperties
  <1>5. ASSUME NEW i \in 1..(n + k)
        PROVE  (IF i <= n THEN s[i] ELSE t[i - n]) = u[i]
    OBVIOUS
  <1> HIDE DEF s, t, u
  <1>6. s \o t = u
    BY <1>3, <1>4, <1>5, SeqEqual
  <1> QED
    BY <1>6 DEF s, t, u

-----------------------------------------------------------------------------
(* The constants, and what the worker and the device leave alone.          *)

LEMMA Numbers ==
  /\ Budget \in Nat \ {0} /\ Interval \in Nat \ {0} /\ SamplesPerFrame \in Nat \ {0}
  /\ DeviceBuffer \in Nat \ {0} /\ Period \in Nat \ {0}
  /\ Capacity \in Nat /\ MaxFrames \in Nat
  /\ MaxFrames * SamplesPerFrame \in Nat
  BY RendererAssumption

WorkerMoves(a) == OpenStream(a) \/ OpenFails(a) \/ WorkerStep(a) \/ DrainPeriod(a)

LEMMA WorkerFrame ==
  ASSUME NEW a \in Attempt, WorkerMoves(a)
  PROVE  now' = now /\ client' = client /\ rendered' = rendered
  BY DEF WorkerMoves, OpenStream, OpenFails, WorkerStep, DrainPeriod, Report, TakeEvent,
         WaitTimesOut, CheckShutdown, QueryDevice, Plan, Copy, Write, Discard, DeviceFails,
         RecordFailure

(* Every step is the loop's, the clock's or one worker's.                  *)
LoopMoves == ClientStep \/ Tick \/ RenderFrame \/ Close

LEMMA Steps ==
  ASSUME Next
  PROVE  LoopMoves \/ \E a \in Attempt : WorkerMoves(a)
  BY DEF Next, LoopMoves, WorkerMoves

LEMMA ClientFields ==
  ASSUME NEW c \in ClientRecord
  PROVE  /\ c.phase \in Starting \cup {"running", "closing"} \cup Over
         /\ c.attempt \in Attempt /\ c.attempt \in Nat \ {0}
         /\ c.until \in 0..Budget /\ c.until \in Nat
  <1>1. /\ c.phase \in Starting \cup {"running", "closing"} \cup Over
        /\ c.attempt \in Attempt /\ c.until \in 0..Budget
    BY DEF ClientRecord
  <1> QED
    BY <1>1, Numbers DEF Attempt

LEMMA ClientUpdate ==
  ASSUME NEW c \in ClientRecord, NEW p
  PROVE  [c EXCEPT !.phase = p] = [phase |-> p, attempt |-> c.attempt, until |-> c.until]
  BY DEF ClientRecord

(* Retrying after a failed attempt keeps the start-up on time.             *)
LEMMA RetriedOnTime ==
  ASSUME TypeOK, now <= Budget,
         (client.attempt - 1) * Interval <= now
  PROVE  /\ Retried.phase \in {"gaveUp", "sleeping"}
         /\ Retried.attempt = client.attempt
         /\ Retried.until \in 0..Budget
         /\ Retried.phase = "gaveUp" <=> now >= Budget
         /\ Retried.phase = "sleeping" =>
              /\ now <= Retried.until
              /\ Retried.until = Budget \/ client.attempt * Interval <= Retried.until
         /\ Retried \in ClientRecord
  <1>1. now \in Nat /\ client.attempt \in Nat
    BY ClientFields, Numbers DEF TypeOK
  <1>2. CASE now >= Budget
    <2>1. /\ Retried = [phase |-> "gaveUp", attempt |-> client.attempt, until |-> client.until]
          /\ client.attempt \in Attempt /\ client.until \in 0..Budget
      <3>1. client \in ClientRecord
        BY DEF TypeOK
      <3> QED
        BY <1>2, <3>1, ClientUpdate, ClientFields DEF Retried
    <2> QED
      BY <1>1, <1>2, <2>1, Numbers DEF ClientRecord, Over
  <1>3. CASE ~(now >= Budget)
    <2> DEFINE wait == Least(Interval, Remaining)
    <2>1. /\ wait \in Nat
          /\ now + wait \in 0..Budget
          /\ now + wait = Budget \/ wait = Interval
      BY <1>1, <1>3, Numbers DEF Least, Remaining
    <2>2. client.attempt * Interval = (client.attempt - 1) * Interval + Interval
      BY <1>1, Numbers
    <2>3. now + wait = Budget \/ client.attempt * Interval <= now + wait
      <3>1. client.attempt * Interval \in Int /\ (client.attempt - 1) * Interval \in Int
        BY <1>1, Numbers
      <3> QED
        BY <1>1, <2>1, <2>2, <3>1, Numbers
    <2> HIDE DEF wait
    <2>4. Retried = [phase |-> "sleeping", attempt |-> client.attempt, until |-> now + wait]
      BY <1>3 DEF Retried, wait
    <2>5. client.attempt \in Attempt
      BY ClientFields DEF TypeOK
    <2>6. /\ Retried \in ClientRecord /\ Retried.phase = "sleeping"
          /\ Retried.attempt = client.attempt /\ Retried.until = now + wait
      BY <2>1, <2>4, <2>5 DEF ClientRecord, Starting
    <2> QED
      BY <1>1, <1>3, <2>1, <2>3, <2>6, Numbers
  <1> QED
    BY <1>2, <1>3

LEMMA InitTimely == Init => Timely
  BY Numbers DEF Init, Timely

LEMMA TimelyStep ==
  ASSUME TypeOK, Timely, [Next]_vars
  PROVE  Timely'
  <1> USE Numbers
  <1>0. /\ now \in Nat /\ client.attempt \in Nat /\ client.until \in Nat /\ now <= Budget
        /\ client \in ClientRecord
    BY ClientFields DEF TypeOK
  <1>1. CASE UNCHANGED <<now, client>>
    BY <1>1 DEF Timely
  <1>2. CASE Spawn
    <2>1. /\ now' = now /\ now < Budget /\ (client.attempt - 1) * Interval <= now
          /\ client' = [phase |-> "opening", attempt |-> client.attempt, until |-> now + Remaining]
      BY <1>2 DEF Spawn, Timely
    <2>2. now + Remaining = Budget
      BY <1>0, <2>1 DEF Remaining
    <2>3. client' = [phase |-> "opening", attempt |-> client.attempt, until |-> Budget]
      BY <2>1, <2>2
    <2>4. client'.phase = "opening" /\ client'.attempt = client.attempt /\ client'.until = Budget
      BY <2>3
    <2> QED
      BY <1>0, <2>1, <2>4 DEF Timely
  <1>3. CASE SpawnFails
    <2>1. now' = now /\ client' = Retried /\ (client.attempt - 1) * Interval <= now
      BY <1>3 DEF SpawnFails, Timely
    <2> QED
      BY <1>0, <2>1, RetriedOnTime DEF Timely
  <1>4. CASE ReceiveReport
    <2>1. now' = now /\ (client.attempt - 1) * Interval <= now
      BY <1>4 DEF ReceiveReport, Timely
    <2>2. CASE client' = Retried
      BY <1>0, <2>1, <2>2, RetriedOnTime DEF Timely
    <2>3. CASE client' = [client EXCEPT !.phase = "running"]
      BY <1>0, <2>3 DEF Timely, ClientRecord
    <2> QED
      BY <1>4, <2>2, <2>3 DEF ReceiveReport
  <1>5. CASE ReceiveTimesOut
    BY <1>0, <1>5 DEF ReceiveTimesOut, Timely, ClientRecord
  <1>6. CASE Abandon
    <2>1. now' = now /\ client' = Retried /\ (client.attempt - 1) * Interval <= now
      BY <1>6 DEF Abandon, Timely
    <2> QED
      BY <1>0, <2>1, RetriedOnTime DEF Timely
  <1>7. CASE Wake
    <2>1. CASE now >= Budget
      <3>1. now' = now /\ now = Budget /\ client' = [client EXCEPT !.phase = "gaveUp"]
        BY <1>0, <1>7, <2>1 DEF Wake
      <3>2. client'.phase = "gaveUp"
        BY <1>0, <3>1, ClientUpdate
      <3> QED
        BY <3>1, <3>2 DEF Timely
    <2>2. CASE ~(now >= Budget)
      <3>1. /\ client' = [phase |-> "attempting", attempt |-> client.attempt + 1, until |-> now]
            /\ now' = now
            /\ client.attempt * Interval <= now
        BY <1>0, <1>7, <2>2 DEF Wake, Timely
      <3>2. client'.phase = "attempting" /\ client'.attempt = client.attempt + 1
        BY <3>1
      <3>3. (client'.attempt - 1) = client.attempt
        BY <1>0, <3>2
      <3> QED
        BY <1>0, <2>2, <3>1, <3>2, <3>3 DEF Timely
    <2> QED
      BY <2>1, <2>2
  <1>8. CASE Tick
    <2>1. client' = client /\ now' = now + 1 /\ now < client.until
          /\ client.phase \in {"opening", "sleeping"}
      BY <1>8 DEF Tick
    <2>2. (client.attempt - 1) * Interval \in Int
      BY <1>0
    <2> QED
      BY <1>0, <2>1, <2>2 DEF Timely
  <1>9. CASE RenderFrame \/ Close \/ Join
    <2>1. now' = now
          /\ (client' = client \/ client' = [client EXCEPT !.phase = "closing"]
              \/ client' = [client EXCEPT !.phase = "closed"])
      BY <1>9 DEF RenderFrame, Close, Join
    <2> QED
      BY <1>0, <2>1 DEF Timely, ClientRecord
  <1> QED
    BY <1>1, <1>2, <1>3, <1>4, <1>5, <1>6, <1>7, <1>8, <1>9, Steps, WorkerFrame
    DEF LoopMoves, ClientStep, vars

-----------------------------------------------------------------------------
(* What a step of one worker changes: its own stage, its own stream, its   *)
(* own queue and its own report.                                           *)

LEMMA GotoEffect ==
  ASSUME TypeOK, NEW a \in Attempt, NEW stage \in Stage, Goto(a, stage)
  PROVE  /\ worker' \in [Attempt -> WorkerRecord]
         /\ worker'[a].at = stage
         /\ worker'[a].available = worker[a].available
         /\ worker'[a].writable = worker[a].writable
         /\ worker'[a].scratch = worker[a].scratch
         /\ \A b \in Attempt : b # a => worker'[b] = worker[b]
  <1>1. worker \in [Attempt -> WorkerRecord] /\ worker[a] \in WorkerRecord
    BY DEF TypeOK
  <1>2. [worker[a] EXCEPT !.at = stage] \in WorkerRecord
    BY <1>1 DEF WorkerRecord
  <1>3. worker' = [worker EXCEPT ![a] = [worker[a] EXCEPT !.at = stage]]
    BY <1>1 DEF Goto
  <1>4. worker' \in [Attempt -> WorkerRecord]
    BY <1>1, <1>2, <1>3
  <1> QED
    BY <1>1, <1>3, <1>4 DEF WorkerRecord

LEMMA StreamOffEffect ==
  ASSUME TypeOK, NEW a \in Attempt, StreamOff(a)
  PROVE  /\ device' \in [Attempt -> StreamRecord]
         /\ \A b \in Attempt : device'[b].padding = device[b].padding
  <1>1. device \in [Attempt -> StreamRecord] /\ device[a] \in StreamRecord
    BY DEF TypeOK
  <1>2. [device[a] EXCEPT !.on = FALSE] \in StreamRecord
    BY <1>1 DEF StreamRecord
  <1>3. device' = [device EXCEPT ![a] = [device[a] EXCEPT !.on = FALSE]]
    BY <1>1 DEF StreamOff
  <1> QED
    BY <1>1, <1>2, <1>3 DEF StreamRecord

(* A record of stream a with a new event flag or padding.                  *)
LEMMA StreamEffect ==
  ASSUME TypeOK, NEW a \in Attempt, NEW r \in StreamRecord, device' = [device EXCEPT ![a] = r]
  PROVE  /\ device' \in [Attempt -> StreamRecord]
         /\ device'[a] = r
         /\ \A b \in Attempt : b # a => device'[b] = device[b]
  BY DEF TypeOK

LEMMA QueueEffect ==
  ASSUME TypeOK, NEW a \in Attempt, NEW r \in QueueRecord, queue' = [queue EXCEPT ![a] = r]
  PROVE  /\ queue' \in [Attempt -> QueueRecord]
         /\ queue'[a] = r
         /\ \A b \in Attempt : b # a => queue'[b] = queue[b]
  BY DEF TypeOK

LEMMA WorkerEffect ==
  ASSUME TypeOK, NEW a \in Attempt, NEW r \in WorkerRecord, worker' = [worker EXCEPT ![a] = r]
  PROVE  /\ worker' \in [Attempt -> WorkerRecord]
         /\ worker'[a] = r
         /\ \A b \in Attempt : b # a => worker'[b] = worker[b]
  BY DEF TypeOK

(* Telling a worker to stop, or recording that it failed, leaves its FIFO  *)
(* alone.                                                                  *)
LEMMA ShutdownEffect ==
  ASSUME TypeOK, NEW a \in Attempt, queue' = [queue EXCEPT ![a].shutdown = TRUE]
  PROVE  /\ queue' \in [Attempt -> QueueRecord]
         /\ \A b \in Attempt : queue'[b].fifo = queue[b].fifo
  <1>1. queue[a] \in QueueRecord
    BY DEF TypeOK
  <1>2. /\ [queue[a] EXCEPT !.shutdown = TRUE] \in QueueRecord
        /\ [queue[a] EXCEPT !.shutdown = TRUE].fifo = queue[a].fifo
    BY <1>1 DEF QueueRecord
  <1>3. queue' = [queue EXCEPT ![a] = [queue[a] EXCEPT !.shutdown = TRUE]]
    BY <1>1
  <1> QED
    BY <1>2, <1>3, QueueEffect

LEMMA RecordFailureEffect ==
  ASSUME TypeOK, NEW a \in Attempt, RecordFailure(a)
  PROVE  /\ queue' \in [Attempt -> QueueRecord]
         /\ \A b \in Attempt : queue'[b].fifo = queue[b].fifo
  <1> DEFINE r == [queue[a] EXCEPT !.failure = TRUE, !.shutdown = TRUE]
  <1>1. queue[a] \in QueueRecord
    BY DEF TypeOK
  <1>2. r \in QueueRecord /\ r.fifo = queue[a].fifo
    BY <1>1 DEF QueueRecord
  <1>3. queue' = [queue EXCEPT ![a] = r]
    BY DEF RecordFailure
  <1> HIDE DEF r
  <1> QED
    BY <1>2, <1>3, QueueEffect

(* The worker's own steps that write more than its stage.                  *)
LEMMA QueryEffect ==
  ASSUME TypeOK, NEW a \in Attempt, QueryDevice(a)
  PROVE  /\ worker' \in [Attempt -> WorkerRecord]
         /\ worker'[a].at = "planning"
         /\ worker'[a].available = Space(a)
         /\ \A b \in Attempt : b # a => worker'[b] = worker[b]
  <1> DEFINE r == [worker[a] EXCEPT !.at = "planning", !.available = Space(a)]
  <1>1. worker[a] \in WorkerRecord /\ Space(a) \in 0..DeviceBuffer
    BY Numbers DEF TypeOK, StreamRecord, Space
  <1>2. r \in WorkerRecord /\ r.at = "planning" /\ r.available = Space(a)
    BY <1>1 DEF WorkerRecord, Stage
  <1>3. worker' = [worker EXCEPT ![a] = r]
    BY DEF QueryDevice
  <1> HIDE DEF r
  <1> QED
    BY <1>2, <1>3, WorkerEffect

LEMMA PlanEffect ==
  ASSUME TypeOK, NEW a \in Attempt, Plan(a)
  PROVE  /\ worker' \in [Attempt -> WorkerRecord]
         /\ worker'[a].at = IF worker'[a].writable = 0 THEN "waiting" ELSE "copying"
         /\ worker'[a].writable \in Nat
         /\ worker'[a].writable <= worker[a].available
         /\ worker'[a].writable <= Len(queue[a].fifo)
         /\ \A b \in Attempt : b # a => worker'[b] = worker[b]
  <1> DEFINE w == PlanRenderFrames(worker[a].available, Len(queue[a].fifo))
             s == IF w = 0 THEN "waiting" ELSE "copying"
             r == [worker[a] EXCEPT !.at = s, !.writable = w]
  <1>1. /\ worker[a] \in WorkerRecord /\ worker[a].available \in 0..DeviceBuffer
        /\ queue[a].fifo \in Seq(Nat)
    BY DEF TypeOK, WorkerRecord, QueueRecord
  <1>2. Len(queue[a].fifo) \in Nat
    BY <1>1, LenProperties
  <1>3. /\ w \in 0..DeviceBuffer /\ w <= worker[a].available /\ w <= Len(queue[a].fifo)
        /\ w \in Nat
    BY <1>1, <1>2, Numbers DEF PlanRenderFrames, Least
  <1>4. worker' = [worker EXCEPT ![a] = r]
    BY DEF Plan
  <1> HIDE DEF w
  <1>5. r \in WorkerRecord /\ r.at = s /\ r.writable = w
    BY <1>1, <1>3 DEF WorkerRecord, Stage
  <1> HIDE DEF r
  <1>6. worker'[a] = r
    BY <1>4, <1>5, WorkerEffect
  <1> QED
    BY <1>3, <1>4, <1>5, <1>6, WorkerEffect

LEMMA CopyEffect ==
  ASSUME TypeOK, NEW a \in Attempt, Copy(a), worker[a].writable <= Len(queue[a].fifo)
  PROVE  /\ worker' \in [Attempt -> WorkerRecord]
         /\ worker'[a].at = "writing"
         /\ worker'[a].writable = worker[a].writable
         /\ worker'[a].scratch = SubSeq(queue[a].fifo, 1, worker[a].writable)
         /\ \A b \in Attempt : b # a => worker'[b] = worker[b]
  <1> DEFINE front == SubSeq(queue[a].fifo, 1, worker[a].writable)
             r == [worker[a] EXCEPT !.at = "writing", !.scratch = front]
  <1>1. /\ worker[a] \in WorkerRecord /\ worker[a].writable \in 0..DeviceBuffer
        /\ queue[a].fifo \in Seq(Nat) /\ Len(queue[a].fifo) \in Nat
    BY LenProperties DEF TypeOK, WorkerRecord, QueueRecord
  <1>2. Least(worker[a].writable, Len(queue[a].fifo)) = worker[a].writable
    BY DEF Least
  <1>3. \A i \in 1..worker[a].writable : queue[a].fifo[i] \in Nat
    BY <1>1, Numbers, ElementOfSeq
  <1>4. front \in Seq(Nat)
    BY <1>1, <1>3, Numbers, SubSeqProperties
  <1>5. worker' = [worker EXCEPT ![a] = r]
    BY <1>2 DEF Copy, CopyFront
  <1> HIDE DEF front
  <1>6. /\ r \in WorkerRecord /\ r.at = "writing" /\ r.scratch = front
        /\ r.writable = worker[a].writable
    BY <1>1, <1>4 DEF WorkerRecord, Stage
  <1> HIDE DEF r
  <1>7. worker'[a] = r
    BY <1>5, <1>6, WorkerEffect
  <1> QED
    BY <1>5, <1>6, <1>7, WorkerEffect DEF front

LEMMA WriteEffect ==
  ASSUME TypeOK, NEW a \in Attempt, Write(a), worker[a].writable <= Space(a)
  PROVE  /\ device' \in [Attempt -> StreamRecord]
         /\ \A b \in Attempt : b # a => device'[b] = device[b]
  <1> DEFINE p == device[a].padding + worker[a].writable
             r == [device[a] EXCEPT !.padding = p]
  <1>1. device[a] \in StreamRecord /\ p \in 0..DeviceBuffer
    BY Numbers DEF TypeOK, StreamRecord, WorkerRecord, Space
  <1>2. device' = [device EXCEPT ![a] = r]
    BY DEF Write
  <1> HIDE DEF p
  <1>3. r \in StreamRecord
    BY <1>1 DEF StreamRecord
  <1> QED
    BY <1>2, <1>3, StreamEffect

LEMMA DiscardEffect ==
  ASSUME TypeOK, NEW a \in Attempt, Discard(a), worker[a].writable <= Len(queue[a].fifo)
  PROVE  /\ queue' \in [Attempt -> QueueRecord]
         /\ queue'[a].fifo = SubSeq(queue[a].fifo, worker[a].writable + 1, Len(queue[a].fifo))
         /\ Len(queue'[a].fifo) = Len(queue[a].fifo) - worker[a].writable
         /\ \A b \in Attempt : b # a => queue'[b] = queue[b]
  <1> DEFINE w == worker[a].writable
             rest == SubSeq(queue[a].fifo, w + 1, Len(queue[a].fifo))
             r == [queue[a] EXCEPT !.fifo = rest]
  <1>1. /\ queue[a] \in QueueRecord /\ w \in Nat
        /\ queue[a].fifo \in Seq(Nat) /\ Len(queue[a].fifo) \in Nat
    BY Numbers, LenProperties DEF TypeOK, WorkerRecord, QueueRecord
  <1>2. \A i \in (w + 1)..Len(queue[a].fifo) : queue[a].fifo[i] \in Nat
    BY <1>1, ElementOfSeq
  <1>3. rest \in Seq(Nat) /\ Len(rest) = Len(queue[a].fifo) - w
    <2> DEFINE s == queue[a].fifo
               m == w + 1
    <2>1. m \in Int /\ Len(s) \in Int /\ w <= Len(s)
      BY <1>1
    <2>2. \A i \in m..Len(s) : s[i] \in Nat
      BY <1>2
    <2>3. (IF m <= Len(s) THEN Len(s) - m + 1 ELSE 0) = Len(s) - w
      BY <1>1, SMTT(20)
    <2> HIDE DEF s, m
    <2>4. SubSeq(s, m, Len(s)) \in Seq(Nat) /\ Len(SubSeq(s, m, Len(s))) = Len(s) - w
      BY <2>1, <2>2, <2>3, SubSeqProperties
    <2> QED
      BY <2>4 DEF s, m
  <1>4. queue' = [queue EXCEPT ![a] = r]
    BY DEF Discard, DiscardFront
  <1> HIDE DEF rest
  <1>5. r \in QueueRecord /\ r.fifo = rest
    BY <1>1, <1>3 DEF QueueRecord
  <1> HIDE DEF r
  <1>6. queue'[a] = r
    BY <1>4, <1>5, QueueEffect
  <1> QED
    BY <1>3, <1>4, <1>5, <1>6, QueueEffect DEF rest

(* A frame is either queued whole behind the FIFO or refused.              *)
Pushed(a) ==
  /\ queue' \in [Attempt -> QueueRecord]
  /\ queue'[a].fifo = queue[a].fifo \o DeviceFrames
  /\ Len(queue'[a].fifo) <= Capacity
  /\ \A b \in Attempt : b # a => queue'[b] = queue[b]
  /\ rendered' = rendered + SamplesPerFrame
  /\ rendered' \in 0..(MaxFrames * SamplesPerFrame)
  /\ client' = client

Refused(a) ==
  /\ queue' = [queue EXCEPT ![a].shutdown = TRUE]
  /\ rendered' = rendered
  /\ client' = [client EXCEPT !.phase = "closing"]

LEMMA RenderEffect ==
  ASSUME TypeOK, RenderFrame
  PROVE  Refused(client.attempt) \/ Pushed(client.attempt)
  <1> DEFINE a == client.attempt
             r == [queue[a] EXCEPT !.fifo = queue[a].fifo \o DeviceFrames]
  <1>1. CASE queue[a].failure \/ Full(queue[a])
    BY <1>1 DEF RenderFrame, Refused
  <1>2. CASE ~(queue[a].failure \/ Full(queue[a]))
    <2>1. a \in Attempt
      BY ClientFields DEF TypeOK
    <2>2. /\ queue[a] \in QueueRecord /\ queue[a].fifo \in Seq(Nat)
          /\ Len(queue[a].fifo) \in Nat /\ rendered \in Nat
      BY <2>1, Numbers, LenProperties DEF TypeOK, QueueRecord
    <2>3. DeviceFrames \in Seq(Nat) /\ Len(DeviceFrames) = SamplesPerFrame
      BY <2>2, Numbers DEF DeviceFrames
    <2>4. /\ queue[a].fifo \o DeviceFrames \in Seq(Nat)
          /\ Len(queue[a].fifo \o DeviceFrames) = Len(queue[a].fifo) + SamplesPerFrame
      BY <2>2, <2>3, ConcatProperties
    <2>5. r \in QueueRecord /\ r.fifo = queue[a].fifo \o DeviceFrames
      BY <2>2, <2>4 DEF QueueRecord
    <2>6. queue' = [queue EXCEPT ![a] = r]
      BY <1>2 DEF RenderFrame
    <2>7. Len(queue[a].fifo) + SamplesPerFrame <= Capacity
      BY <1>2, <2>2, Numbers DEF Full
    <2>8. /\ rendered' = rendered + SamplesPerFrame /\ client' = client
          /\ rendered' \in 0..(MaxFrames * SamplesPerFrame)
      BY <1>2, <2>2, Numbers DEF RenderFrame
    <2> HIDE DEF r
    <2>9. /\ queue' \in [Attempt -> QueueRecord] /\ queue'[a] = r
          /\ \A b \in Attempt : b # a => queue'[b] = queue[b]
      BY <2>1, <2>5, <2>6, QueueEffect
    <2> QED
      BY <2>4, <2>5, <2>7, <2>8, <2>9 DEF Pushed
  <1> QED
    BY <1>1, <1>2

-----------------------------------------------------------------------------
(* The type invariant.                                                     *)

LEMMA InitType == Init => TypeOK
  <1> SUFFICES ASSUME Init
               PROVE  TypeOK
    OBVIOUS
  <1>1. 1 \in Attempt
    BY Numbers DEF Attempt
  <1>2. <<>> \in Seq(Nat) /\ Len(<<>>) = 0
    BY EmptySeq
  <1>3. IdleWorker \in WorkerRecord /\ NewQueue \in QueueRecord /\ NoStream \in StreamRecord
    BY <1>2, Numbers
    DEF IdleWorker, WorkerRecord, Stage, NewQueue, QueueRecord, NoStream, StreamRecord
  <1>4. client \in ClientRecord
    BY <1>1, Numbers DEF Init, ClientRecord, Starting
  <1>5. \A a \in Attempt : Len(queue[a].fifo) <= Capacity
    BY <1>2, Numbers DEF Init, NewQueue
  <1>6. 0 \in 0..Budget /\ 0 \in 0..(MaxFrames * SamplesPerFrame)
    BY Numbers
  <1> QED
    BY <1>2, <1>3, <1>4, <1>5, <1>6 DEF Init, TypeOK

(* What a step of the loop, or of its clock, may change.                   *)
LEMMA LoopEffect ==
  ASSUME TypeOK, Timely, LoopMoves
  PROVE  /\ now' \in 0..Budget
         /\ client' \in ClientRecord
         /\ device' = device /\ played' = played
         /\ Spawn \/ worker' = worker
         /\ Abandon \/ startup' = startup
         /\ \/ queue' \in [Attempt -> QueueRecord] /\ rendered' = rendered
               /\ \A a \in Attempt : queue'[a].fifo = queue[a].fifo
            \/ RenderFrame /\ Pushed(client.attempt)
  <1> USE Numbers
  <1>0. /\ client \in ClientRecord /\ queue \in [Attempt -> QueueRecord]
        /\ now \in 0..Budget /\ now \in Nat /\ client.attempt \in Attempt /\ client.until \in Nat
        /\ client.attempt \in Nat /\ client.until <= Budget /\ client.until \in 0..Budget
    BY ClientFields DEF TypeOK
  <1>a. ASSUME NEW p \in Starting \cup {"running", "closing"} \cup Over
        PROVE  [client EXCEPT !.phase = p] \in ClientRecord
    BY <1>0 DEF ClientRecord
  <1>1. CASE Spawn
    <2>1. now + Remaining = Budget
      BY <1>0, <1>1 DEF Spawn, Timely, Remaining
    <2>2. client' = [phase |-> "opening", attempt |-> client.attempt, until |-> Budget]
      BY <1>1, <2>1 DEF Spawn
    <2>3. client' \in ClientRecord
      BY <1>0, <2>2 DEF ClientRecord, Starting
    <2> QED
      BY <1>0, <1>1, <2>3 DEF Spawn
  <1>2. CASE SpawnFails
    BY <1>0, <1>2, RetriedOnTime DEF SpawnFails, Timely
  <1>3. CASE ReceiveReport
    <2>1. client' = Retried \/ client' = [client EXCEPT !.phase = "running"]
      BY <1>3 DEF ReceiveReport
    <2>2. Retried \in ClientRecord
      BY <1>0, <1>3, RetriedOnTime DEF ReceiveReport, Timely
    <2>3. client' \in ClientRecord
      BY <1>a, <2>1, <2>2
    <2> QED
      BY <1>0, <1>3, <2>3 DEF ReceiveReport
  <1>4. CASE ReceiveTimesOut
    BY <1>0, <1>4, <1>a DEF ReceiveTimesOut, Starting
  <1>5. CASE Abandon
    <2>1. Retried \in ClientRecord
      BY <1>0, <1>5, RetriedOnTime DEF Abandon, Timely
    <2> QED
      BY <1>0, <1>5, <2>1, ShutdownEffect DEF Abandon
  <1>6. CASE Wake
    <2>1. CASE now >= Budget
      BY <1>0, <1>6, <1>a, <2>1 DEF Wake, Over
    <2>2. CASE ~(now >= Budget)
      <3>1. /\ client' = [phase |-> "attempting", attempt |-> client.attempt + 1, until |-> now]
            /\ client.attempt * Interval <= now
        BY <1>0, <1>6, <2>2 DEF Wake, Timely
      <3>2. client.attempt * Interval \in Nat /\ client.attempt <= client.attempt * Interval
        BY <1>0
      <3>3. client.attempt + 1 \in 1..Budget /\ (client.attempt + 1) - 1 = client.attempt
        BY <1>0, <2>2, <3>1, <3>2
      <3>4. client.attempt + 1 \in Attempt
        BY <1>0, <2>2, <3>1, <3>2, <3>3 DEF Attempt
      <3>5. client' \in ClientRecord
        BY <1>0, <3>1, <3>4 DEF ClientRecord, Starting
      <3> QED
        BY <1>0, <1>6, <3>5 DEF Wake
    <2> QED
      BY <2>1, <2>2
  <1>7. CASE Tick
    BY <1>0, <1>7 DEF Tick
  <1>8. CASE RenderFrame
    <2>1. /\ now' = now /\ startup' = startup /\ worker' = worker /\ device' = device
          /\ played' = played
      BY <1>8 DEF RenderFrame
    <2>2. CASE Pushed(client.attempt)
      BY <1>0, <1>8, <2>1, <2>2 DEF Pushed
    <2>3. CASE Refused(client.attempt)
      <3>1. client' \in ClientRecord
        BY <1>a, <2>3 DEF Refused
      <3> QED
        BY <1>0, <2>1, <2>3, <3>1, ShutdownEffect DEF Refused
    <2> QED
      BY <1>8, <2>2, <2>3, RenderEffect
  <1>9. CASE Close
    BY <1>0, <1>9, <1>a, ShutdownEffect DEF Close
  <1>10. CASE Join
    BY <1>0, <1>10, <1>a DEF Join, Over
  <1> QED
    BY <1>1, <1>2, <1>3, <1>4, <1>5, <1>6, <1>7, <1>8, <1>9, <1>10 DEF LoopMoves, ClientStep

(* What a worker's step may change. Only Discard touches a FIFO, and only  *)
(* Write adds to what the device holds.                                    *)
LEMMA WorkerMovesEffect ==
  ASSUME TypeOK, PlanStaysValid, NEW a \in Attempt, WorkerMoves(a)
  PROVE  /\ startup' \in [Attempt -> {"empty", "ok", "error", "dropped"}]
         /\ worker' \in [Attempt -> WorkerRecord]
         /\ queue' \in [Attempt -> QueueRecord]
         /\ device' \in [Attempt -> StreamRecord]
         /\ \A b \in Attempt : b # a => worker'[b] = worker[b]
         /\ Discard(a) \/ \A b \in Attempt : queue'[b].fifo = queue[b].fifo
         /\ Write(a) \/ played' = played
         /\ \A b \in Attempt : b # a => device'[b].padding = device[b].padding
  <1> USE Numbers
  <1>0. /\ startup \in [Attempt -> {"empty", "ok", "error", "dropped"}]
        /\ worker \in [Attempt -> WorkerRecord]
        /\ queue \in [Attempt -> QueueRecord]
        /\ device \in [Attempt -> StreamRecord]
        /\ worker[a] \in WorkerRecord /\ device[a] \in StreamRecord
    BY DEF TypeOK
  <1>1. CASE OpenStream(a)
    <2> DEFINE r == [on |-> TRUE, padding |-> DeviceBuffer, event |-> FALSE]
    <2>1. r \in StreamRecord
      BY DEF StreamRecord
    <2>2. device' = [device EXCEPT ![a] = r]
      BY <1>1 DEF OpenStream
    <2> HIDE DEF r
    <2>3. /\ worker' \in [Attempt -> WorkerRecord]
          /\ \A b \in Attempt : b # a => worker'[b] = worker[b]
      BY <1>1, GotoEffect DEF OpenStream, Stage
    <2>4. /\ device' \in [Attempt -> StreamRecord]
          /\ \A b \in Attempt : b # a => device'[b].padding = device[b].padding
      BY <2>1, <2>2, StreamEffect
    <2> QED
      BY <1>0, <1>1, <2>3, <2>4 DEF OpenStream
  <1>2. CASE OpenFails(a)
    <2>1. /\ worker' \in [Attempt -> WorkerRecord]
          /\ \A b \in Attempt : b # a => worker'[b] = worker[b]
      BY <1>2, GotoEffect DEF OpenFails, Stage
    <2>2. startup' \in [Attempt -> {"empty", "ok", "error", "dropped"}]
      BY <1>0, <1>2 DEF OpenFails
    <2> QED
      BY <1>0, <1>2, <2>1, <2>2 DEF OpenFails
  <1>3. CASE Report(a)
    BY <1>0, <1>3, GotoEffect, StreamOffEffect DEF Report, Stage
  <1>4. CASE TakeEvent(a)
    <2> DEFINE r == [device[a] EXCEPT !.event = FALSE]
    <2>1. r \in StreamRecord
      BY <1>0 DEF StreamRecord
    <2>2. device' = [device EXCEPT ![a] = r]
      BY <1>4 DEF TakeEvent
    <2> HIDE DEF r
    <2>3. /\ worker' \in [Attempt -> WorkerRecord]
          /\ \A b \in Attempt : b # a => worker'[b] = worker[b]
      BY <1>4, GotoEffect DEF TakeEvent, Stage
    <2>4. /\ device' \in [Attempt -> StreamRecord]
          /\ \A b \in Attempt : b # a => device'[b].padding = device[b].padding
      BY <2>1, <2>2, StreamEffect
    <2> QED
      BY <1>0, <1>4, <2>3, <2>4 DEF TakeEvent
  <1>5. CASE WaitTimesOut(a)
    BY <1>0, <1>5, GotoEffect, StreamOffEffect DEF WaitTimesOut, Stage
  <1>6. CASE CheckShutdown(a)
    BY <1>0, <1>6, GotoEffect, StreamOffEffect DEF CheckShutdown, Stage
  <1>7. CASE QueryDevice(a)
    BY <1>0, <1>7, QueryEffect DEF QueryDevice
  <1>8. CASE Plan(a)
    BY <1>0, <1>8, PlanEffect DEF Plan
  <1>9. CASE Copy(a)
    BY <1>0, <1>9, CopyEffect DEF Copy, At, PlanStaysValid
  <1>10. CASE Write(a)
    BY <1>0, <1>10, GotoEffect, WriteEffect DEF Write, At, PlanStaysValid, Stage
  <1>11. CASE Discard(a)
    BY <1>0, <1>11, GotoEffect, DiscardEffect DEF Discard, At, PlanStaysValid, Stage
  <1>12. CASE DeviceFails(a)
    BY <1>0, <1>12, GotoEffect, StreamOffEffect DEF DeviceFails, Stage
  <1>13. CASE RecordFailure(a)
    BY <1>0, <1>13, GotoEffect, RecordFailureEffect DEF RecordFailure, Stage
  <1>14. CASE DrainPeriod(a)
    <2> DEFINE p == device[a].padding - Least(device[a].padding, Period)
               r == [device[a] EXCEPT !.padding = p, !.event = TRUE]
    <2>1. p \in 0..DeviceBuffer
      BY <1>0 DEF StreamRecord, Least
    <2>2. device' = [device EXCEPT ![a] = r]
      BY <1>14 DEF DrainPeriod
    <2> HIDE DEF p
    <2>3. r \in StreamRecord
      BY <1>0, <2>1 DEF StreamRecord
    <2> HIDE DEF r
    <2> QED
      BY <1>0, <1>14, <2>2, <2>3, StreamEffect DEF DrainPeriod
  <1> QED
    BY <1>1, <1>2, <1>3, <1>4, <1>5, <1>6, <1>7, <1>8, <1>9, <1>10, <1>11, <1>12, <1>13, <1>14
    DEF WorkerMoves, WorkerStep

LEMMA TypeStep ==
  ASSUME TypeOK, Timely, PlanStaysValid, [Next]_vars
  PROVE  TypeOK'
  <1>1. CASE UNCHANGED vars
    BY <1>1 DEF vars, TypeOK
  <1>2. CASE LoopMoves
    <2>1. /\ startup' \in [Attempt -> {"empty", "ok", "error", "dropped"}]
      BY <1>2, LoopEffect DEF Abandon, TypeOK
    <2>2. worker' \in [Attempt -> WorkerRecord]
      <3>1. CASE Spawn
        <4>1. client.attempt \in Attempt
          BY ClientFields DEF TypeOK
        <4> QED
          BY <3>1, <4>1, GotoEffect DEF Spawn, Goto, Stage
      <3> QED
        BY <1>2, <3>1, LoopEffect DEF TypeOK
    <2>3. /\ queue' \in [Attempt -> QueueRecord]
          /\ \A a \in Attempt : Len(queue'[a].fifo) <= Capacity
          /\ rendered' \in 0..(MaxFrames * SamplesPerFrame)
      BY <1>2, LoopEffect DEF TypeOK, Pushed
    <2> QED
      BY <1>2, <2>1, <2>2, <2>3, LoopEffect DEF TypeOK
  <1>3. ASSUME NEW a \in Attempt, WorkerMoves(a)
        PROVE  TypeOK'
    <2>1. \A b \in Attempt : Len(queue'[b].fifo) <= Capacity
      <3>1. CASE Discard(a)
        <4>1. /\ worker[a].writable <= Len(queue[a].fifo) /\ worker[a].writable \in Nat
              /\ Len(queue[a].fifo) \in Nat
          BY <3>1, Numbers, LenProperties
          DEF Discard, At, PlanStaysValid, TypeOK, WorkerRecord, QueueRecord
        <4> QED
          BY <3>1, <4>1, Numbers, DiscardEffect DEF TypeOK
      <3> QED
        BY <1>3, <3>1, WorkerMovesEffect DEF TypeOK
    <2>2. played' \in Seq(Nat)
      <3>1. CASE Write(a)
        BY <3>1, ConcatProperties DEF Write, TypeOK, WorkerRecord
      <3> QED
        BY <1>3, <3>1, WorkerMovesEffect DEF TypeOK
    <2> QED
      BY <1>3, <2>1, <2>2, WorkerFrame, WorkerMovesEffect DEF TypeOK
  <1> QED
    BY <1>1, <1>2, <1>3, Steps

-----------------------------------------------------------------------------
(* What the worker read stays true.                                        *)

(* The stages that rely on what was read.                                  *)
Relying == {"planning", "copying", "writing", "discarding"}

LEMMA PlanStep ==
  ASSUME TypeOK, Timely, PlanStaysValid, [Next]_vars
  PROVE  PlanStaysValid'
  <1> USE Numbers
  <1>1. CASE UNCHANGED vars
    BY <1>1 DEF vars, PlanStaysValid, Space
  <1>2. CASE LoopMoves
    <2> SUFFICES ASSUME NEW b \in Attempt
                 PROVE  /\ worker'[b].at = "planning" => worker'[b].available <= Space(b)'
                        /\ worker'[b].at \in {"copying", "writing"} => worker'[b].writable <= Space(b)'
                        /\ worker'[b].at \in {"copying", "writing", "discarding"} =>
                             worker'[b].writable <= Len(queue'[b].fifo)
                        /\ worker'[b].at \in {"writing", "discarding"} =>
                             worker'[b].scratch = SubSeq(queue'[b].fifo, 1, worker'[b].writable)
      BY DEF PlanStaysValid
    <2>1. Space(b)' = Space(b)
      BY <1>2, LoopEffect DEF Space
    <2>2. worker'[b] = worker[b] \/ worker'[b].at = "opening"
      <3>1. CASE Spawn
        <4>1. client.attempt \in Attempt
          BY ClientFields DEF TypeOK
        <4> QED
          BY <3>1, <4>1, GotoEffect, ZenonT(40) DEF Spawn, Goto, Stage
      <3> QED
        BY <1>2, <3>1, LoopEffect
    <2>3. /\ queue[b].fifo \in Seq(Nat) /\ Len(queue[b].fifo) \in Nat
          /\ worker[b].writable \in Nat
      BY LenProperties DEF TypeOK, QueueRecord, WorkerRecord
    <2>4. CASE queue'[b].fifo = queue[b].fifo
      BY <2>1, <2>2, <2>4 DEF PlanStaysValid
    <2>5. CASE queue'[b].fifo = queue[b].fifo \o DeviceFrames
      <3>1. DeviceFrames \in Seq(Nat) /\ Len(DeviceFrames) \in Nat
        BY DEF DeviceFrames, TypeOK
      <3>2. Len(queue'[b].fifo) = Len(queue[b].fifo) + Len(DeviceFrames)
        BY <2>3, <2>5, <3>1, ConcatProperties
      <3>3. worker[b].writable <= Len(queue[b].fifo) =>
              SubSeq(queue'[b].fifo, 1, worker[b].writable)
                = SubSeq(queue[b].fifo, 1, worker[b].writable)
        BY <2>3, <2>5, <3>1, FrontStays
      <3>4. worker[b].writable <= Len(queue[b].fifo) =>
              worker[b].writable <= Len(queue'[b].fifo)
        BY <2>3, <3>1, <3>2
      <3>5. CASE worker'[b] = worker[b]
        BY <2>1, <3>3, <3>4, <3>5 DEF PlanStaysValid
      <3>6. CASE worker'[b].at = "opening"
        BY <3>6
      <3> QED
        BY <2>2, <3>5, <3>6
    <2> QED
      BY <1>2, <2>4, <2>5, LoopEffect DEF Pushed
  <1>3. ASSUME NEW a \in Attempt, WorkerMoves(a)
        PROVE  PlanStaysValid'
    <2> SUFFICES ASSUME NEW b \in Attempt
                 PROVE  /\ worker'[b].at = "planning" => worker'[b].available <= Space(b)'
                        /\ worker'[b].at \in {"copying", "writing"} => worker'[b].writable <= Space(b)'
                        /\ worker'[b].at \in {"copying", "writing", "discarding"} =>
                             worker'[b].writable <= Len(queue'[b].fifo)
                        /\ worker'[b].at \in {"writing", "discarding"} =>
                             worker'[b].scratch = SubSeq(queue'[b].fifo, 1, worker'[b].writable)
      BY DEF PlanStaysValid
    <2>1. CASE b # a
      <3>1. worker'[b] = worker[b] /\ Space(b)' = Space(b)
        BY <1>3, <2>1, WorkerMovesEffect DEF Space
      <3>2. queue'[b].fifo = queue[b].fifo
        <4>1. CASE Discard(a)
          BY <2>1, <4>1, DiscardEffect DEF Discard, At, PlanStaysValid
        <4> QED
          BY <1>3, <4>1, WorkerMovesEffect
      <3> QED
        BY <3>1, <3>2 DEF PlanStaysValid
    <2>2. CASE b = a /\ worker'[a].at \notin Relying
      BY <2>2 DEF Relying
    <2>3. CASE b = a /\ QueryDevice(a)
      <3>1. Space(a)' = Space(a) /\ Space(a) \in Int
        BY <2>3 DEF QueryDevice, Space, TypeOK, StreamRecord
      <3> QED
        BY <2>3, <3>1, QueryEffect
    <2>4. CASE b = a /\ Plan(a)
      <3>1. Space(a)' = Space(a) /\ Space(a) \in Int /\ worker[a].available \in Int
        BY <2>4 DEF Plan, Space, TypeOK, StreamRecord, WorkerRecord
      <3>2. worker[a].available <= Space(a) /\ queue' = queue
        BY <2>4 DEF Plan, At, PlanStaysValid
      <3>3. worker'[a].writable \in Nat /\ worker'[a].writable <= Space(a)
        BY <2>4, <3>1, <3>2, PlanEffect
      <3>4. worker'[a].at \in {"waiting", "copying"} /\ worker'[a].writable <= Len(queue'[a].fifo)
        BY <2>4, <3>2, PlanEffect
      <3> QED
        BY <2>4, <3>1, <3>3, <3>4
    <2>5. CASE b = a /\ Copy(a)
      <3>1. /\ worker[a].writable <= Space(a) /\ worker[a].writable <= Len(queue[a].fifo)
            /\ queue' = queue /\ Space(a)' = Space(a)
        BY <2>5 DEF Copy, At, PlanStaysValid, Space
      <3> QED
        BY <2>5, <3>1, CopyEffect
    <2>6. CASE b = a /\ Write(a)
      <3>1. /\ worker[a].writable <= Len(queue[a].fifo) /\ queue' = queue
            /\ worker[a].scratch = SubSeq(queue[a].fifo, 1, worker[a].writable)
        BY <2>6 DEF Write, At, PlanStaysValid
      <3>2. /\ worker'[a].at = "discarding" /\ worker'[a].writable = worker[a].writable
            /\ worker'[a].scratch = worker[a].scratch
        BY <2>6, GotoEffect DEF Write, Stage
      <3> QED
        BY <2>6, <3>1, <3>2
    <2>7. CASE b = a /\ DrainPeriod(a)
      <3> DEFINE p == device[a].padding - Least(device[a].padding, Period)
      <3>1. device[a].padding \in 0..DeviceBuffer /\ device[a] \in StreamRecord
        BY DEF TypeOK, StreamRecord
      <3>2. p \in Nat /\ p <= device[a].padding
        BY <3>1 DEF Least
      <3>3. device'[a].padding = p
        <4>1. device' = [device EXCEPT ![a] = [device[a] EXCEPT !.padding = p, !.event = TRUE]]
          BY <2>7 DEF DrainPeriod
        <4> HIDE DEF p
        <4> QED
          BY <3>1, <4>1 DEF TypeOK, StreamRecord
      <3>4. Space(a) <= Space(a)' /\ Space(a) \in Int /\ Space(a)' \in Int
        BY <3>1, <3>2, <3>3 DEF Space
      <3>5. /\ worker' = worker /\ queue' = queue
            /\ worker[a].available \in Int /\ worker[a].writable \in Int
        BY <2>7 DEF DrainPeriod, TypeOK, WorkerRecord
      <3> QED
        BY <2>7, <3>4, <3>5 DEF PlanStaysValid
    <2>8. \/ worker'[a].at \notin Relying
          \/ QueryDevice(a) \/ Plan(a) \/ Copy(a) \/ Write(a) \/ DrainPeriod(a)
      BY <1>3, GotoEffect
      DEF WorkerMoves, OpenStream, OpenFails, WorkerStep, Report, TakeEvent, WaitTimesOut,
          CheckShutdown, Discard, DeviceFails, RecordFailure, Stage, Relying
    <2> QED
      BY <2>1, <2>2, <2>3, <2>4, <2>5, <2>6, <2>7, <2>8
  <1> QED
    BY <1>1, <1>2, <1>3, Steps

-----------------------------------------------------------------------------
(* One live worker.                                                        *)

LEMMA InitOrdered == Init => Ordered /\ Quiet /\ PlanStaysValid
  <1> SUFFICES ASSUME Init
               PROVE  Ordered /\ Quiet /\ PlanStaysValid
    OBVIOUS
  <1>1. client.attempt \in Attempt
    BY Numbers DEF Init, Attempt
  <1>2. \A a \in Attempt : worker[a].at = "none" /\ startup[a] = "empty" /\ queue[a].fifo = <<>>
    BY DEF Init, IdleWorker, NewQueue
  <1> QED
    BY <1>1, <1>2 DEF Init, Ordered, Quiet, PlanStaysValid

(* A step of the loop moves on to the next attempt only from a wait, and   *)
(* waits only when the current worker has ended: the wait for a worker     *)
(* that does not report takes what is left of the budget.                  *)
LEMMA OrderedStep ==
  ASSUME TypeOK, Timely, PlanStaysValid, Ordered, [Next]_vars
  PROVE  Ordered'
  <1> USE Numbers
  <1>0. /\ client \in ClientRecord /\ client.attempt \in Attempt /\ client.attempt \in Nat
        /\ \A a \in Attempt : a \in Nat
        /\ worker \in [Attempt -> WorkerRecord] /\ now \in Nat /\ now <= Budget
        /\ startup \in [Attempt -> {"empty", "ok", "error", "dropped"}]
    BY ClientFields DEF TypeOK, Attempt
  <1>1. CASE UNCHANGED <<client, worker, startup>>
    BY <1>1 DEF Ordered
  <1>2. CASE Spawn
    <2>1. /\ client'.phase = "opening" /\ client'.attempt = client.attempt
          /\ startup' = startup /\ client.phase = "attempting"
          /\ \A a \in Attempt : startup[a] # "dropped"
      BY <1>2 DEF Spawn, Ordered
    <2>2. /\ worker'[client.attempt].at = "opening"
          /\ \A b \in Attempt : b # client.attempt => worker'[b] = worker[b]
      BY <1>0, <1>2, GotoEffect DEF Spawn, Goto, Stage
    <2>3. worker[client.attempt].at = "none" /\ startup[client.attempt] = "empty"
      BY <1>0, <1>2 DEF Spawn, Ordered
    <2> QED
      BY <1>0, <2>1, <2>2, <2>3 DEF Ordered
  <1>3. CASE SpawnFails
    <2>1. /\ client' = Retried /\ worker' = worker /\ startup' = startup
          /\ worker[client.attempt].at = "none"
          /\ \A a \in Attempt : startup[a] # "dropped"
      BY <1>3 DEF SpawnFails, Ordered
    <2>2. client'.attempt = client.attempt /\ client'.phase \in {"gaveUp", "sleeping"}
      BY <1>0, <1>3, <2>1, RetriedOnTime DEF SpawnFails, Timely
    <2> QED
      BY <2>1, <2>2 DEF Ordered
  <1>4. CASE ReceiveReport
    <2>1. /\ worker' = worker /\ startup' = startup
          /\ \A a \in Attempt : startup[a] # "dropped"
      BY <1>4 DEF ReceiveReport, Ordered
    <2>2. CASE startup[client.attempt] = "ok"
      <3>1. client'.attempt = client.attempt /\ client'.phase = "running"
        BY <1>0, <1>4, <2>2, ClientUpdate DEF ReceiveReport
      <3> QED
        BY <2>1, <3>1 DEF Ordered
    <2>3. CASE startup[client.attempt] = "error"
      <3>1. client'.attempt = client.attempt /\ client'.phase \in {"gaveUp", "sleeping"}
        BY <1>0, <1>4, <2>3, RetriedOnTime DEF ReceiveReport, Timely
      <3>2. worker[client.attempt].at = "ended"
        BY <1>0, <2>3 DEF Ordered
      <3> QED
        BY <2>1, <3>1, <3>2 DEF Ordered
    <2>4. startup[client.attempt] \in {"ok", "error"}
      BY <1>0, <1>4 DEF Ordered, ReceiveReport
    <2> QED
      BY <2>2, <2>3, <2>4
  <1>5. CASE ReceiveTimesOut
    <2>1. /\ client'.phase = "abandoning" /\ client'.attempt = client.attempt
          /\ worker' = worker /\ startup' = startup /\ client.phase = "opening"
      BY <1>0, <1>5, ClientUpdate DEF ReceiveTimesOut
    <2> QED
      BY <2>1 DEF Ordered
  <1>6. CASE Abandon
    <2>1. /\ client' = Retried /\ worker' = worker /\ now = Budget
          /\ startup' = [startup EXCEPT ![client.attempt] = "dropped"]
          /\ client.phase = "abandoning"
      BY <1>6 DEF Abandon, Timely
    <2>2. client'.attempt = client.attempt /\ client'.phase = "gaveUp"
      BY <1>0, <1>6, <2>1, RetriedOnTime DEF Timely
    <2>3. worker[client.attempt].at # "none"
      BY <2>1 DEF Ordered
    <2> QED
      BY <1>0, <2>1, <2>2, <2>3 DEF Ordered
  <1>7. CASE Wake
    <2>1. worker' = worker /\ startup' = startup /\ client.phase = "sleeping"
      BY <1>7 DEF Wake
    <2>2. CASE now >= Budget
      <3>1. client'.attempt = client.attempt /\ client'.phase = "gaveUp"
        BY <1>0, <1>7, <2>2, ClientUpdate DEF Wake
      <3> QED
        BY <2>1, <3>1 DEF Ordered
    <2>3. CASE ~(now >= Budget)
      <3>1. client'.attempt = client.attempt + 1 /\ client'.phase = "attempting"
        BY <1>7, <2>3 DEF Wake
      <3>2. client'.attempt \in Attempt
        BY <1>7, LoopEffect, ClientFields DEF LoopMoves, ClientStep
      <3> QED
        BY <1>0, <2>1, <3>1, <3>2 DEF Ordered
    <2> QED
      BY <2>2, <2>3
  <1>8. CASE RenderFrame \/ Close \/ Join
    <2>1. /\ worker' = worker /\ startup' = startup
          /\ client.phase \in {"running", "closing"}
          /\ \/ client' = client \/ client' = [client EXCEPT !.phase = "closing"]
             \/ client' = [client EXCEPT !.phase = "closed"]
      BY <1>8 DEF RenderFrame, Close, Join
    <2>2. \/ client' = client
          \/ client'.attempt = client.attempt /\ client'.phase \in {"closing", "closed"}
      BY <1>0, <2>1, ClientUpdate
    <2> QED
      BY <2>1, <2>2 DEF Ordered
  <1>9. CASE Tick
    BY <1>9 DEF Tick, Ordered
  <1>10. ASSUME NEW a \in Attempt, WorkerMoves(a)
         PROVE  Ordered'
    <2>1. client' = client /\ client.phase \notin Over
      BY <1>10, WorkerFrame
      DEF WorkerMoves, OpenStream, OpenFails, WorkerStep, DrainPeriod, Report, TakeEvent,
          WaitTimesOut, CheckShutdown, QueryDevice, Plan, Copy, Write, Discard, DeviceFails,
          RecordFailure, At
    <2>2. CASE worker' = worker /\ startup' = startup
      BY <2>1, <2>2 DEF Ordered
    <2>3. CASE ~(worker' = worker /\ startup' = startup)
      <3>1. worker[a].at \notin {"none", "ended"}
        BY <1>10, <2>3
        DEF WorkerMoves, OpenStream, OpenFails, WorkerStep, DrainPeriod, Report, TakeEvent,
            WaitTimesOut, CheckShutdown, QueryDevice, Plan, Copy, Write, Discard, DeviceFails,
            RecordFailure, At
      <3>2. worker'[a].at # "none"
        BY <1>10, <3>1, GotoEffect, QueryEffect, PlanEffect, CopyEffect
        DEF WorkerMoves, OpenStream, OpenFails, WorkerStep, DrainPeriod, Report, TakeEvent,
            WaitTimesOut, CheckShutdown, Write, Discard, DeviceFails, RecordFailure, Stage,
            Copy, At, PlanStaysValid
      <3>3. \A b \in Attempt : b # a => worker'[b] = worker[b]
        BY <1>10, WorkerMovesEffect
      <3>4. \A b \in Attempt :
              \/ startup'[b] = startup[b]
              \/ b = a /\ startup'[a] = "ok"
              \/ b = a /\ startup'[a] = "error" /\ worker'[a].at = "ended"
        <4>1. CASE OpenFails(a)
          BY <1>0, <4>1, GotoEffect DEF OpenFails, Stage
        <4>2. CASE Report(a)
          BY <1>0, <4>2 DEF Report
        <4>3. CASE startup' = startup
          BY <4>3
        <4> QED
          BY <1>10, <4>1, <4>2, <4>3
          DEF WorkerMoves, OpenStream, WorkerStep, DrainPeriod, TakeEvent, WaitTimesOut,
              CheckShutdown, QueryDevice, Plan, Copy, Write, Discard, DeviceFails, RecordFailure
      <3>5. a = client.attempt /\ client.phase \notin {"attempting", "sleeping"}
        BY <1>0, <1>10, <3>1 DEF Ordered
      <3>6. startup[a] # "error"
        BY <1>10, <3>1 DEF Ordered
      <3> QED
        BY <1>0, <2>1, <3>2, <3>3, <3>4, <3>5, <3>6 DEF Ordered
    <2> QED
      BY <2>2, <2>3
  <1> QED
    BY <1>1, <1>2, <1>3, <1>4, <1>5, <1>6, <1>7, <1>8, <1>9, <1>10, Steps
    DEF LoopMoves, ClientStep, vars

-----------------------------------------------------------------------------
(* Every frame once, in order.                                             *)

(* The device frames of attempt a that wait behind what is written.        *)
Behind(a) ==
  SubSeq(queue[a].fifo, (IF worker[a].at = "discarding" THEN worker[a].writable ELSE 0) + 1,
         Len(queue[a].fifo))

Ids(n) == [i \in 1..n |-> i]

LEMMA PlayedIs ==
  PlayedInOrder <=> \A a \in Attempt : a = client.attempt => played \o Behind(a) = Ids(rendered)
  BY DEF PlayedInOrder, Behind, Ids

LEMMA QuietStep ==
  ASSUME TypeOK, Timely, PlanStaysValid, Ordered, Quiet, [Next]_vars
  PROVE  Quiet'
  <1> USE Numbers
  <1>0. /\ client \in ClientRecord /\ client.attempt \in Attempt
        /\ \A a \in Attempt : a \in Nat
        /\ queue \in [Attempt -> QueueRecord]
    BY ClientFields DEF TypeOK, Attempt
  <1>1. CASE UNCHANGED vars
    BY <1>1 DEF Quiet, vars
  <1>2. CASE LoopMoves
    <2>1. \A a \in Attempt : worker'[a] = worker[a] \/ worker'[a].at = "opening"
      <3>1. CASE Spawn
        BY <1>0, <3>1, GotoEffect, ZenonT(40) DEF Spawn, Goto, Stage
      <3> QED
        BY <1>2, <3>1, LoopEffect
    <2>2. \A a \in Attempt : worker'[a].at \in {"copying", "writing", "discarding"} =>
                             worker'[a].writable > 0
      BY <2>1 DEF Quiet
    <2>3. \/ client'.attempt = client.attempt /\ (client'.phase \in Starting => client.phase \in Starting)
          \/ client.phase \in Starting
      <3>1. CASE client.phase \in Starting
        BY <3>1
      <3>2. CASE client.phase \notin Starting
        <4>1. \/ client' = client
              \/ client' = [client EXCEPT !.phase = "closing"]
              \/ client' = [client EXCEPT !.phase = "closed"]
          BY <1>2, <3>2
          DEF LoopMoves, ClientStep, Spawn, SpawnFails, ReceiveReport, ReceiveTimesOut, Abandon,
              Wake, Join, Tick, RenderFrame, Close, Starting
        <4>2. \/ client' = client
              \/ client'.attempt = client.attempt /\ client'.phase \in {"closing", "closed"}
          BY <1>0, <4>1, ClientUpdate
        <4> QED
          BY <3>2, <4>2 DEF Starting
      <3> QED
        BY <3>1, <3>2
    <2>4. CASE RenderFrame /\ Pushed(client.attempt)
      <3>1. client' = client /\ client.phase = "running" /\ played' = played
        BY <2>4 DEF RenderFrame, Pushed
      <3>2. \A b \in Attempt : b # client.attempt => queue'[b] = queue[b]
        BY <2>4 DEF Pushed
      <3> QED
        BY <2>2, <3>1, <3>2 DEF Quiet, Starting
    <2>5. CASE rendered' = rendered /\ \A a \in Attempt : queue'[a].fifo = queue[a].fifo
      <3>1. played' = played
        BY <1>2, LoopEffect
      <3> QED
        BY <2>2, <2>3, <2>5, <3>1 DEF Quiet
    <2> QED
      BY <1>2, <2>4, <2>5, LoopEffect
  <1>3. ASSUME NEW a \in Attempt, WorkerMoves(a)
        PROVE  Quiet'
    <2>1. client' = client /\ rendered' = rendered
      BY <1>3, WorkerFrame
    <2>2. \A b \in Attempt : b # a => worker'[b] = worker[b]
      BY <1>3, WorkerMovesEffect
    <2>3. worker'[a].at \in {"copying", "writing", "discarding"} => worker'[a].writable > 0
      <3>1. CASE Plan(a)
        BY <3>1, PlanEffect
      <3>2. CASE Copy(a)
        BY <3>2, CopyEffect DEF Copy, At, PlanStaysValid, Quiet
      <3>3. CASE Write(a)
        BY <3>3, GotoEffect DEF Write, At, Stage, Quiet
      <3>4. CASE DrainPeriod(a)
        BY <3>4 DEF DrainPeriod, Quiet
      <3> QED
        BY <1>3, <3>1, <3>2, <3>3, <3>4, GotoEffect, QueryEffect
        DEF WorkerMoves, OpenStream, OpenFails, WorkerStep, Report, TakeEvent, WaitTimesOut,
            CheckShutdown, Discard, DeviceFails, RecordFailure, Stage
    <2>4. CASE Discard(a) \/ Write(a)
      <3>1. worker[a].writable > 0 /\ worker[a].writable <= Len(queue[a].fifo)
            /\ worker[a].writable \in Nat
        BY <2>4 DEF Discard, Write, At, Quiet, PlanStaysValid, TypeOK, WorkerRecord
      <3>2. queue[a].fifo # <<>>
        BY <3>1, EmptySeq
      <3>3. a = client.attempt /\ client.phase \notin Starting
        BY <3>2 DEF Quiet
      <3>4. \A b \in Attempt : b # a => queue'[b].fifo = queue[b].fifo
        BY <2>4, <3>1, DiscardEffect DEF Write
      <3> QED
        BY <2>1, <2>2, <2>3, <3>3, <3>4 DEF Quiet
    <2>5. CASE ~(Discard(a) \/ Write(a))
      <3>1. played' = played /\ \A b \in Attempt : queue'[b].fifo = queue[b].fifo
        BY <1>3, <2>5, WorkerMovesEffect
      <3> QED
        BY <2>1, <2>2, <2>3, <3>1 DEF Quiet
    <2> QED
      BY <2>4, <2>5
  <1> QED
    BY <1>1, <1>2, <1>3, Steps

LEMMA InitPlayed == Init => PlayedInOrder
  <1> SUFFICES ASSUME Init, NEW a \in Attempt
               PROVE  played \o Behind(a) = Ids(rendered)
    BY PlayedIs
  <1>1. queue[a].fifo = <<>> /\ worker[a].at = "none" /\ played = <<>> /\ rendered = 0
    BY DEF Init, NewQueue, IdleWorker
  <1>2. Behind(a) = <<>>
    BY <1>1, EmptySeq, SubSeqEmpty DEF Behind
  <1>3. <<>> \o <<>> = <<>>
    BY EmptySeq, ConcatEmptySeq
  <1>4. Ids(0) = <<>>
    BY DEF Ids
  <1> QED
    BY <1>1, <1>2, <1>3, <1>4

LEMMA PlayedStep ==
  ASSUME TypeOK, Timely, PlanStaysValid, Ordered, Quiet, PlayedInOrder, [Next]_vars
  PROVE  PlayedInOrder'
  <1> USE Numbers
  <1>0. /\ client \in ClientRecord /\ client.attempt \in Attempt
        /\ played \in Seq(Nat) /\ rendered \in Nat
        /\ \A a \in Attempt : /\ queue[a].fifo \in Seq(Nat) /\ Len(queue[a].fifo) \in Nat
                             /\ worker[a].writable \in Nat
    BY ClientFields, LenProperties DEF TypeOK, QueueRecord, WorkerRecord
  <1>1. CASE UNCHANGED vars
    BY <1>1 DEF PlayedInOrder, vars
  <1>2. CASE LoopMoves
    <2>1. CASE RenderFrame /\ Pushed(client.attempt)
      <3> DEFINE a == client.attempt
                 s == queue[a].fifo
                 n == IF worker[a].at = "discarding" THEN worker[a].writable ELSE 0
      <3>1. /\ client' = client /\ worker' = worker /\ played' = played
            /\ queue'[a].fifo = s \o DeviceFrames /\ rendered' = rendered + SamplesPerFrame
        BY <2>1 DEF RenderFrame, Pushed
      <3>2. n \in Nat /\ n <= Len(s)
        BY <1>0 DEF PlanStaysValid
      <3>3. DeviceFrames \in Seq(Nat)
        BY <1>0 DEF DeviceFrames
      <3>4. SubSeq(s \o DeviceFrames, n + 1, Len(s \o DeviceFrames))
              = SubSeq(s, n + 1, Len(s)) \o DeviceFrames
        BY <1>0, <3>2, <3>3, RestGrows
      <3>5. SubSeq(s, n + 1, Len(s)) \in Seq(Nat)
        <4>1. \A i \in (n + 1)..Len(s) : s[i] \in Nat
          BY <1>0, <3>2, ElementOfSeq
        <4> HIDE DEF s, n
        <4> QED
          BY <3>2, <4>1, <1>0, SubSeqProperties DEF s
      <3>6. Behind(a) = SubSeq(s, n + 1, Len(s)) /\ Behind(a)' = Behind(a) \o DeviceFrames
        BY <3>1, <3>4 DEF Behind
      <3>7. played \o Behind(a) = Ids(rendered)
        BY <1>0, PlayedIs
      <3>8. (played \o Behind(a)) \o DeviceFrames = played \o (Behind(a) \o DeviceFrames)
        <4> DEFINE b == Behind(a)
        <4>1. b \in Seq(Nat)
          BY <3>5, <3>6
        <4> HIDE DEF b
        <4>2. (played \o b) \o DeviceFrames = played \o (b \o DeviceFrames)
          BY <1>0, <3>3, <4>1, Associative
        <4> QED
          BY <4>2 DEF b
      <3>9. Ids(rendered) \o DeviceFrames = Ids(rendered + SamplesPerFrame)
        BY <1>0, Numbered DEF Ids, DeviceFrames
      <3>10. played' \o Behind(a)' = Ids(rendered')
        BY <3>1, <3>6, <3>7, <3>8, <3>9
      <3> QED
        BY <3>1, <3>10 DEF PlayedInOrder, Behind, Ids
    <2>2. CASE rendered' = rendered /\ \A a \in Attempt : queue'[a].fifo = queue[a].fifo
      <3>1. played' = played
        BY <1>2, LoopEffect
      <3>2. CASE client.phase \in Starting
        <4>1. \A a \in Attempt : queue'[a].fifo = <<>>
          BY <2>2, <3>2 DEF Quiet
        <4>2. \A a \in Attempt : Behind(a)' = <<>>
          <5> SUFFICES ASSUME NEW a \in Attempt
                       PROVE  Behind(a)' = <<>>
            OBVIOUS
          <5>1. worker'[a].writable \in Nat
            <6>1. TypeOK'
              BY TypeStep
            <6> QED
              BY <6>1 DEF TypeOK, WorkerRecord
          <5> DEFINE m == (IF worker'[a].at = "discarding" THEN worker'[a].writable ELSE 0) + 1
          <5>2. m \in Int /\ 0 < m
            BY <5>1
          <5> HIDE DEF m
          <5>3. SubSeq(<<>>, m, 0) = <<>>
            BY <5>2, SubSeqEmpty
          <5> QED
            BY <4>1, <5>3, EmptySeq DEF Behind, m
        <4>3. played = <<>> /\ rendered = 0
          BY <3>2 DEF Quiet
        <4>4. <<>> \o <<>> = <<>> /\ Ids(0) = <<>>
          BY EmptySeq, ConcatEmptySeq DEF Ids
        <4> QED
          BY <2>2, <3>1, <4>2, <4>3, <4>4 DEF PlayedInOrder, Behind, Ids
      <3>3. CASE client.phase \notin Starting
        <4>1. \/ client' = client
              \/ client' = [client EXCEPT !.phase = "closing"]
              \/ client' = [client EXCEPT !.phase = "closed"]
          BY <1>2, <3>3
          DEF LoopMoves, ClientStep, Spawn, SpawnFails, ReceiveReport, ReceiveTimesOut, Abandon,
              Wake, Join, Tick, RenderFrame, Close, Starting
        <4>2. client'.attempt = client.attempt
          BY <1>0, <4>1, ClientUpdate
        <4>3. worker' = worker
          BY <1>2, <3>3, LoopEffect DEF Spawn, Starting
        <4> QED
          BY <2>2, <3>1, <4>2, <4>3 DEF PlayedInOrder
      <3> QED
        BY <3>2, <3>3
    <2> QED
      BY <1>2, <2>1, <2>2, LoopEffect
  <1>3. ASSUME NEW a \in Attempt, WorkerMoves(a)
        PROVE  PlayedInOrder'
    <2>1. client' = client /\ rendered' = rendered
      BY <1>3, WorkerFrame
    <2> DEFINE s == queue[a].fifo
               w == worker[a].writable
    <2>2. CASE Write(a)
      <3>1. /\ w \in Nat /\ w > 0 /\ w <= Len(s)
            /\ worker[a].at = "writing" /\ worker[a].scratch = SubSeq(s, 1, w)
        BY <1>0, <2>2 DEF Write, At, PlanStaysValid, Quiet
      <3>2. a = client.attempt
        BY <1>0, <3>1, EmptySeq DEF Quiet
      <3>3. /\ queue' = queue /\ worker'[a].at = "discarding" /\ worker'[a].writable = w
            /\ played' = played \o SubSeq(s, 1, w)
        BY <2>2, <3>1, GotoEffect DEF Write, Stage
      <3>4. /\ SubSeq(s, 1, w) \o SubSeq(s, w + 1, Len(s)) = s
            /\ SubSeq(s, 1, w) \in Seq(Nat) /\ SubSeq(s, w + 1, Len(s)) \in Seq(Nat)
        <4> s \in Seq(Nat)
          BY <1>0
        <4> HIDE DEF s, w
        <4> QED
          BY <3>1, FrontAndRest
      <3>6. Behind(a) = s
        <4>1. s \in Seq(Nat)
          BY <1>0
        <4>2. Behind(a) = SubSeq(s, 1, Len(s))
          BY <3>1 DEF Behind
        <4> QED
          BY <4>1, <4>2, SubSeqFull
      <3>7. Behind(a)' = SubSeq(s, w + 1, Len(s))
        BY <3>3 DEF Behind
      <3>8. played \o s = Ids(rendered)
        BY <3>2, <3>6, PlayedIs
      <3>9. played' \o Behind(a)' = Ids(rendered')
        <4>1. (played \o SubSeq(s, 1, w)) \o SubSeq(s, w + 1, Len(s))
                = played \o (SubSeq(s, 1, w) \o SubSeq(s, w + 1, Len(s)))
          <5> DEFINE x == SubSeq(s, 1, w)
                     y == SubSeq(s, w + 1, Len(s))
          <5>1. x \in Seq(Nat) /\ y \in Seq(Nat)
            BY <3>4
          <5> HIDE DEF x, y
          <5>2. (played \o x) \o y = played \o (x \o y)
            BY <1>0, <5>1, Associative
          <5> QED
            BY <5>2 DEF x, y
        <4> QED
          BY <2>1, <3>3, <3>4, <3>7, <3>8, <4>1
      <3> QED
        BY <2>1, <3>2, <3>9 DEF PlayedInOrder, Behind, Ids
    <2>3. CASE Discard(a)
      <3>1. /\ w \in Nat /\ w > 0 /\ w <= Len(s) /\ worker[a].at = "discarding"
        BY <1>0, <2>3 DEF Discard, At, PlanStaysValid, Quiet
      <3>2. a = client.attempt
        BY <1>0, <3>1, EmptySeq DEF Quiet
      <3>3. queue'[a].fifo = SubSeq(s, w + 1, Len(s)) /\ worker'[a].at = "waiting" /\ played' = played
        BY <2>3, <3>1, DiscardEffect, GotoEffect DEF Discard, Stage
      <3>4. queue'[a].fifo \in Seq(Nat)
        BY <2>3, <3>1, DiscardEffect DEF QueueRecord
      <3>5. Behind(a)' = queue'[a].fifo
        <4>1. Behind(a)' = SubSeq(queue'[a].fifo, 1, Len(queue'[a].fifo))
          BY <3>3 DEF Behind
        <4> QED
          BY <3>4, <4>1, SubSeqFull
      <3>6. Behind(a) = SubSeq(s, w + 1, Len(s))
        BY <3>1 DEF Behind
      <3>7. played \o Behind(a) = Ids(rendered)
        BY <3>2, PlayedIs
      <3>8. played' \o Behind(a)' = Ids(rendered')
        BY <2>1, <3>3, <3>5, <3>6, <3>7
      <3> QED
        BY <2>1, <3>2, <3>8 DEF PlayedInOrder, Behind, Ids
    <2>4. CASE ~Write(a) /\ ~Discard(a)
      <3>1. /\ played' = played /\ \A b \in Attempt : queue'[b].fifo = queue[b].fifo
            /\ \A b \in Attempt : b # a => worker'[b] = worker[b]
        BY <1>3, <2>4, WorkerMovesEffect
      <3>2. \/ worker'[a] = worker[a]
            \/ worker[a].at # "discarding" /\ worker'[a].at # "discarding"
        BY <1>3, <2>4, GotoEffect, QueryEffect, PlanEffect, CopyEffect
        DEF WorkerMoves, OpenStream, OpenFails, WorkerStep, DrainPeriod, Report, TakeEvent,
            WaitTimesOut, CheckShutdown, QueryDevice, Plan, Copy, DeviceFails, RecordFailure,
            Stage, At, PlanStaysValid
      <3> QED
        BY <2>1, <3>1, <3>2 DEF PlayedInOrder
    <2> QED
      BY <2>2, <2>3, <2>4
  <1> QED
    BY <1>1, <1>2, <1>3, Steps

-----------------------------------------------------------------------------
(* The theorems.                                                           *)

IInv == TypeOK /\ Timely /\ Ordered /\ Quiet /\ PlanStaysValid /\ PlayedInOrder

LEMMA Invariance == Spec => []IInv
  <1>1. Init => IInv
    BY InitType, InitTimely, InitOrdered, InitPlayed DEF IInv
  <1>2. IInv /\ [Next]_vars => IInv'
    BY TypeStep, TimelyStep, OrderedStep, QuietStep, PlanStep, PlayedStep DEF IInv
  <1> QED
    BY <1>1, <1>2, PTL DEF Spec

(* The FIFO never holds more than its capacity, the device never more than *)
(* its buffer, and the attempts and the clock of the start-up stay within  *)
(* the budget.                                                             *)
THEOREM TypeCorrect == Spec => []TypeOK
  <1>1. IInv => TypeOK
    BY DEF IInv
  <1> QED
    BY <1>1, Invariance, PTL

(* What the worker read under one lock is still true under the next: it    *)
(* never overruns the device, and never discards beyond the FIFO.          *)
THEOREM PlansHold == Spec => []PlanStaysValid
  <1>1. IInv => PlanStaysValid
    BY DEF IInv
  <1> QED
    BY <1>1, Invariance, PTL

(* No device frame is lost, repeated or reordered between render_frame and *)
(* the device.                                                             *)
THEOREM FramesInOrder == Spec => []PlayedInOrder
  <1>1. IInv => PlayedInOrder
    BY DEF IInv
  <1> QED
    BY <1>1, Invariance, PTL

(* However many attempts the start-up makes, no two workers are alive.     *)
THEOREM OneWorkerAtATime == Spec => []OneWorker
  <1>1. IInv => OneWorker
    <2> SUFFICES ASSUME IInv, NEW a \in Attempt, NEW b \in Attempt,
                        worker[a].at \notin {"none", "ended"},
                        worker[b].at \notin {"none", "ended"}
                 PROVE  a = b
      BY DEF OneWorker
    <2>1. a \in Nat /\ b \in Nat /\ client.attempt \in Nat
      BY ClientFields, Numbers DEF IInv, TypeOK, Attempt
    <2>2. a = client.attempt
      BY <2>1 DEF IInv, Ordered
    <2>3. b = client.attempt
      BY <2>1 DEF IInv, Ordered
    <2> QED
      BY <2>2, <2>3
  <1> QED
    BY <1>1, Invariance, PTL

(* The start-up never outlives its budget, nor gives up before it is spent. *)
THEOREM StartupKeepsBudget == Spec => []GivesUpOnTime
  <1>1. IInv => GivesUpOnTime
    BY Numbers DEF IInv, TypeOK, Timely, GivesUpOnTime
  <1> QED
    BY <1>1, Invariance, PTL
==============================================================================
