-------------------------------- MODULE Renderer --------------------------------
(***************************************************************************)
(* The client's renderer: the client loop pushes frames into a bounded     *)
(* FIFO, and a worker thread of its own moves them into the buffer of the  *)
(* audio device, which drains it a period at a time and raises an event.   *)
(* The loop and the worker meet in the mutex of the RenderQueue and in the *)
(* start-up channel only: an action is one critical section, one call of   *)
(* the device or one step of the loop, and everything interleaves between. *)
(*                                                                         *)
(* The client opens the renderer under retry_bounded. Every attempt has a  *)
(* thread, a queue and a channel of its own. One unit of time is whatever  *)
(* the instance makes of Budget and Interval; time matters, and passes, in *)
(* the start-up only, where the loop meets its deadlines as they fall due. *)
(***************************************************************************)
EXTENDS Integers, Sequences

CONSTANTS
  Budget,          (* RENDER_OPEN_RETRY_BUDGET                               *)
  Interval,        (* RENDER_OPEN_RETRY_INTERVAL                             *)
  SamplesPerFrame, (* device frames in one frame of the protocol             *)
  Capacity,        (* MAX_RENDER_QUEUE_FRAMES, in device frames              *)
  DeviceBuffer,    (* external: the device frames the device buffers         *)
  Period,          (* external: how many of them it drains between events    *)
  MaxFrames        (* bound: the frames the loop renders                     *)

ASSUME RendererAssumption ==
  /\ {Budget, Interval, SamplesPerFrame, DeviceBuffer, Period} \subseteq Nat \ {0}
  /\ {Capacity, MaxFrames} \subseteq Nat

(* The attempts that begin within the budget: a wait of Interval lies      *)
(* between any two.                                                        *)
Attempt == {a \in 1..Budget : (a - 1) * Interval < Budget}

VARIABLES
  now,      (* elapsed time since the first attempt                          *)
  client,   (* the client loop: what it does, in which attempt, until when   *)
  startup,  (* the start-up channel of each attempt                          *)
  worker,   (* the worker thread of each attempt                             *)
  queue,    (* the RenderQueue of each attempt                               *)
  device,   (* the stream each worker opened, as the device holds it         *)
  rendered, (* history: device frames the loop has pushed                    *)
  played    (* history: the device frames written to the device              *)

vars == <<now, client, startup, worker, queue, device, rendered, played>>

Least(m, n) == IF m <= n THEN m ELSE n

Starting == {"attempting", "opening", "abandoning", "sleeping"}
Over == {"gaveUp", "closed"}
ClientRecord ==
  [phase : Starting \cup {"running", "closing"} \cup Over, attempt : Attempt, until : 0..Budget]

Stage == {"none", "opening", "opened", "waiting", "signalled", "querying",
          "planning", "copying", "writing", "discarding", "failing", "ended"}
WorkerRecord ==
  [at : Stage, available : 0..DeviceBuffer, writable : 0..DeviceBuffer, scratch : Seq(Nat)]

QueueRecord == [fifo : Seq(Nat), shutdown : BOOLEAN, failure : BOOLEAN]
StreamRecord == [on : BOOLEAN, padding : 0..DeviceBuffer, event : BOOLEAN]

NewQueue == [fifo |-> <<>>, shutdown |-> FALSE, failure |-> FALSE]
NoStream == [on |-> FALSE, padding |-> 0, event |-> FALSE]
IdleWorker == [at |-> "none", available |-> 0, writable |-> 0, scratch |-> <<>>]

Init ==
  /\ now = 0
  /\ client = [phase |-> "attempting", attempt |-> 1, until |-> 0]
  /\ startup = [a \in Attempt |-> "empty"]
  /\ worker = [a \in Attempt |-> IdleWorker]
  /\ queue = [a \in Attempt |-> NewQueue]
  /\ device = [a \in Attempt |-> NoStream]
  /\ rendered = 0
  /\ played = <<>>

-----------------------------------------------------------------------------
(* The client loop.                                                        *)

(* Mutant: an attempt that is given one interval, not the rest of the budget.*)
OneInterval == Interval

Remaining == IF now >= Budget THEN 0 ELSE Budget - now

(* Mutant: a wait that is not capped by the rest of the budget.           *)
RetriedUncapped ==
  IF now >= Budget
    THEN [client EXCEPT !.phase = "gaveUp"]
    ELSE [phase |-> "sleeping", attempt |-> client.attempt, until |-> now + Interval]

(* What retry_bounded does with an attempt that failed.                    *)
Retried ==
  IF now >= Budget
    THEN [client EXCEPT !.phase = "gaveUp"]
    ELSE [phase |-> "sleeping", attempt |-> client.attempt,
          until |-> now + Least(Interval, Remaining)]

(* One attempt: the worker is spawned and the loop waits for its report,   *)
(* or the thread cannot be spawned.                                        *)
Spawn ==
  /\ client.phase = "attempting"
  /\ client' = [phase |-> "opening", attempt |-> client.attempt, until |-> now + Remaining]
  /\ worker' = [worker EXCEPT ![client.attempt].at = "opening"]
  /\ UNCHANGED <<now, startup, queue, device, rendered, played>>

SpawnFails ==
  /\ client.phase = "attempting"
  /\ client' = Retried
  /\ UNCHANGED <<now, startup, worker, queue, device, rendered, played>>

(* recv_timeout returns the worker's report, however late it is read. A    *)
(* worker that reports an error has ended by then, or is about to: join    *)
(* waits for nothing else.                                                 *)
ReceiveReport ==
  /\ client.phase = "opening"
  /\ startup[client.attempt] # "empty"
  /\ client' = IF startup[client.attempt] = "ok"
                 THEN [client EXCEPT !.phase = "running"]
                 ELSE Retried
  /\ UNCHANGED <<now, startup, worker, queue, device, rendered, played>>

(* Mutant: recv in place of recv_timeout, as in Renderer::open.           *)
ReceiveBlocks == FALSE /\ UNCHANGED vars

ReceiveTimesOut ==
  /\ client.phase = "opening"
  /\ startup[client.attempt] = "empty"
  /\ now = client.until
  /\ client' = [client EXCEPT !.phase = "abandoning"]
  /\ UNCHANGED <<now, startup, worker, queue, device, rendered, played>>

(* worker_startup_timed_out: the thread stays behind, told to stop, and    *)
(* the receiver of its report is dropped.                                  *)
Abandon ==
  /\ client.phase = "abandoning"
  /\ queue' = [queue EXCEPT ![client.attempt].shutdown = TRUE]
  /\ startup' = [startup EXCEPT ![client.attempt] = "dropped"]
  /\ client' = Retried
  /\ UNCHANGED <<now, worker, device, rendered, played>>

Wake ==
  /\ client.phase = "sleeping"
  /\ now = client.until
  /\ client' = IF now >= Budget
                 THEN [client EXCEPT !.phase = "gaveUp"]
                 ELSE [phase |-> "attempting", attempt |-> client.attempt + 1, until |-> now]
  /\ UNCHANGED <<now, startup, worker, queue, device, rendered, played>>

Tick ==
  /\ client.phase \in {"opening", "sleeping"}
  /\ now < client.until
  /\ now' = now + 1
  /\ UNCHANGED <<client, startup, worker, queue, device, rendered, played>>

-----------------------------------------------------------------------------
(* A frame of the protocol as the device frames it is made of.             *)
DeviceFrames == [i \in 1..SamplesPerFrame |-> rendered + i]

(* Mutant: a FIFO that takes a frame while it is not over its capacity.   *)
FullOnlyWhenOver(q) == Len(q.fifo) > Capacity

Full(q) == Len(q.fifo) + SamplesPerFrame > Capacity

(* render_frame. Its error ends the loop, and the renderer is dropped.     *)
RenderFrame ==
  LET a == client.attempt
      refused == queue[a].failure \/ Full(queue[a])
  IN  /\ client.phase = "running"
      /\ rendered + SamplesPerFrame <= MaxFrames * SamplesPerFrame
      /\ IF refused
           THEN /\ queue' = [queue EXCEPT ![a].shutdown = TRUE]
                /\ client' = [client EXCEPT !.phase = "closing"]
                /\ UNCHANGED rendered
           ELSE /\ queue' = [queue EXCEPT ![a].fifo = @ \o DeviceFrames]
                /\ rendered' = rendered + SamplesPerFrame
                /\ UNCHANGED client
      /\ UNCHANGED <<now, startup, worker, device, played>>

(* Mutant: a Drop that joins a worker it has not told to stop.            *)
CloseWithoutShutdown ==
  /\ client.phase = "running"
  /\ client' = [client EXCEPT !.phase = "closing"]
  /\ UNCHANGED <<now, startup, worker, queue, device, rendered, played>>

(* The loop ends for a reason of its own, Exit or an error.                *)
Close ==
  /\ client.phase = "running"
  /\ queue' = [queue EXCEPT ![client.attempt].shutdown = TRUE]
  /\ client' = [client EXCEPT !.phase = "closing"]
  /\ UNCHANGED <<now, startup, worker, device, rendered, played>>

(* Drop joins the worker.                                                  *)
Join ==
  /\ client.phase = "closing"
  /\ worker[client.attempt].at = "ended"
  /\ client' = [client EXCEPT !.phase = "closed"]
  /\ UNCHANGED <<now, startup, worker, queue, device, rendered, played>>

ClientStep ==
  \/ Spawn \/ SpawnFails \/ ReceiveReport \/ ReceiveTimesOut \/ Abandon \/ Wake
  \/ Join

-----------------------------------------------------------------------------
(* The worker thread of one attempt, which ends with the process.          *)

At(a, stage) == worker[a].at = stage /\ client.phase \notin Over
Goto(a, stage) == worker' = [worker EXCEPT ![a].at = stage]
StreamOff(a) == device' = [device EXCEPT ![a].on = FALSE]

(* RenderStream::open prefills the whole buffer with silence and starts    *)
(* the stream. A panic closes the channel, which the loop takes for an     *)
(* error too.                                                              *)
OpenStream(a) ==
  /\ At(a, "opening")
  /\ Goto(a, "opened")
  /\ device' = [device EXCEPT ![a] = [on |-> TRUE, padding |-> DeviceBuffer, event |-> FALSE]]
  /\ UNCHANGED <<now, client, startup, queue, rendered, played>>

OpenFails(a) ==
  /\ At(a, "opening")
  /\ Goto(a, "ended")
  /\ startup' = [startup EXCEPT ![a] = IF @ = "empty" THEN "error" ELSE @]
  /\ UNCHANGED <<now, client, queue, device, rendered, played>>

(* The report fits the channel's one place; without a receiver the worker  *)
(* stops its stream.                                                       *)
Report(a) ==
  /\ At(a, "opened")
  /\ IF startup[a] = "empty"
       THEN /\ startup' = [startup EXCEPT ![a] = "ok"]
            /\ Goto(a, "waiting")
            /\ UNCHANGED device
       ELSE /\ Goto(a, "ended")
            /\ StreamOff(a)
            /\ UNCHANGED startup
  /\ UNCHANGED <<now, client, queue, rendered, played>>

(* wait_for_event takes the event, or times out without one. A time-out is *)
(* a failure, unless the worker has been told to stop.                     *)
TakeEvent(a) ==
  /\ At(a, "waiting")
  /\ device[a].event
  /\ device' = [device EXCEPT ![a].event = FALSE]
  /\ Goto(a, "signalled")
  /\ UNCHANGED <<now, client, startup, queue, rendered, played>>

WaitTimesOut(a) ==
  /\ At(a, "waiting")
  /\ ~device[a].event
  /\ Goto(a, IF queue[a].shutdown THEN "ended" ELSE "failing")
  /\ StreamOff(a)
  /\ UNCHANGED <<now, client, startup, queue, rendered, played>>

CheckShutdown(a) ==
  /\ At(a, "signalled")
  /\ IF queue[a].shutdown
       THEN Goto(a, "ended") /\ StreamOff(a)
       ELSE Goto(a, "querying") /\ UNCHANGED device
  /\ UNCHANGED <<now, client, startup, queue, rendered, played>>

Space(a) == DeviceBuffer - device[a].padding

QueryDevice(a) ==
  /\ At(a, "querying")
  /\ worker' = [worker EXCEPT ![a].at = "planning", ![a].available = Space(a)]
  /\ UNCHANGED <<now, client, startup, queue, device, rendered, played>>

(* Mutant: a worker that writes all that is queued.                       *)
PlanAllQueued(available, queued) == queued

PlanRenderFrames(available, queued) == Least(available, queued)

Plan(a) ==
  LET writable == PlanRenderFrames(worker[a].available, Len(queue[a].fifo))
  IN  /\ At(a, "planning")
      /\ worker' = [worker EXCEPT ![a].at = IF writable = 0 THEN "waiting" ELSE "copying",
                                  ![a].writable = writable]
      /\ UNCHANGED <<now, client, startup, queue, device, rendered, played>>

CopyFront(q, n) == SubSeq(q.fifo, 1, Least(n, Len(q.fifo)))

Copy(a) ==
  /\ At(a, "copying")
  /\ worker' = [worker EXCEPT ![a].at = "writing",
                              ![a].scratch = CopyFront(queue[a], worker[a].writable)]
  /\ UNCHANGED <<now, client, startup, queue, device, rendered, played>>

(* The device takes the frames of the scratch buffer.                      *)
Write(a) ==
  /\ At(a, "writing")
  /\ Goto(a, "discarding")
  /\ device' = [device EXCEPT ![a].padding = @ + worker[a].writable]
  /\ played' = played \o worker[a].scratch
  /\ UNCHANGED <<now, client, startup, queue, rendered>>

(* Mutant: a worker that clears the FIFO after a write.                   *)
DiscardEverything(q, n) == [q EXCEPT !.fifo = <<>>]

DiscardFront(q, n) == [q EXCEPT !.fifo = SubSeq(@, n + 1, Len(@))]

Discard(a) ==
  /\ At(a, "discarding")
  /\ Goto(a, "waiting")
  /\ queue' = [queue EXCEPT ![a] = DiscardFront(@, worker[a].writable)]
  /\ UNCHANGED <<now, client, startup, device, rendered, played>>

(* A call of the device fails, and fail_worker stops the stream ...        *)
DeviceFails(a) ==
  /\ At(a, "waiting") \/ At(a, "querying") \/ At(a, "writing")
  /\ Goto(a, "failing")
  /\ StreamOff(a)
  /\ UNCHANGED <<now, client, startup, queue, rendered, played>>

(* ... before it records the failure under the lock.                       *)
RecordFailure(a) ==
  /\ At(a, "failing")
  /\ Goto(a, "ended")
  /\ queue' = [queue EXCEPT ![a].failure = TRUE, ![a].shutdown = TRUE]
  /\ UNCHANGED <<now, client, startup, device, rendered, played>>

WorkerStep(a) ==
  \/ Report(a) \/ TakeEvent(a) \/ WaitTimesOut(a) \/ CheckShutdown(a) \/ QueryDevice(a)
  \/ Plan(a) \/ Copy(a) \/ Write(a) \/ Discard(a) \/ DeviceFails(a) \/ RecordFailure(a)

(* External: the device drains a period of its buffer and raises the event. *)
DrainPeriod(a) ==
  /\ device[a].on
  /\ client.phase \notin Over
  /\ device' = [device EXCEPT ![a].padding = @ - Least(@, Period), ![a].event = TRUE]
  /\ UNCHANGED <<now, client, startup, worker, queue, rendered, played>>

-----------------------------------------------------------------------------
Next ==
  \/ ClientStep \/ Tick \/ RenderFrame \/ Close
  \/ \E a \in Attempt :
       OpenStream(a) \/ OpenFails(a) \/ WorkerStep(a) \/ DrainPeriod(a)

(* Both threads are scheduled and time passes. Nothing makes the device    *)
(* open, drain or fail, and nothing makes the loop render or end.          *)
Spec ==
  /\ Init
  /\ [][Next]_vars
  /\ WF_vars(ClientStep)
  /\ WF_vars(Tick)
  /\ \A a \in Attempt : WF_vars(WorkerStep(a))

-----------------------------------------------------------------------------
(* Properties.                                                             *)

TypeOK ==
  /\ now \in 0..Budget
  /\ client \in ClientRecord
  /\ startup \in [Attempt -> {"empty", "ok", "error", "dropped"}]
  /\ worker \in [Attempt -> WorkerRecord]
  /\ queue \in [Attempt -> QueueRecord]
  /\ \A a \in Attempt : Len(queue[a].fifo) <= Capacity
  /\ device \in [Attempt -> StreamRecord]
  /\ rendered \in 0..(MaxFrames * SamplesPerFrame)
  /\ played \in Seq(Nat)

(* The worker plans from the device's space and the FIFO's length, and     *)
(* writes, copies and discards under later locks: what it read stays true, *)
(* for the device only drains and the loop only appends. The device is     *)
(* never overrun, and discard_front never drains beyond the FIFO, where it *)
(* would panic and poison the mutex.                                       *)
PlanStaysValid ==
  \A a \in Attempt :
    /\ worker[a].at = "planning" => worker[a].available <= Space(a)
    /\ worker[a].at \in {"copying", "writing"} => worker[a].writable <= Space(a)
    /\ worker[a].at \in {"copying", "writing", "discarding"} =>
         worker[a].writable <= Len(queue[a].fifo)
    /\ worker[a].at \in {"writing", "discarding"} =>
         worker[a].scratch = SubSeq(queue[a].fifo, 1, worker[a].writable)

(* The device frames the loop rendered reach the device in order, each     *)
(* once: what was written, then what is queued behind the part that waits  *)
(* to be discarded. A frame of the protocol may be split between writes.   *)
PlayedInOrder ==
  \A a \in Attempt :
    a = client.attempt =>
      LET written == IF worker[a].at = "discarding" THEN worker[a].writable ELSE 0
      IN  played \o SubSeq(queue[a].fifo, written + 1, Len(queue[a].fifo))
            = [i \in 1..rendered |-> i]

(* Two workers are never alive: the loop joins a worker that failed to     *)
(* open, and the worker it abandons had the whole rest of the budget, so   *)
(* that no attempt follows it.                                             *)
OneWorker ==
  \A a, b \in Attempt :
    (worker[a].at \notin {"none", "ended"} /\ worker[b].at \notin {"none", "ended"}) => a = b

(* The start-up keeps its budget, whatever its attempts and waits took: it *)
(* gives up when the budget is spent, not before and not after.            *)
GivesUpOnTime ==
  /\ client.phase \in Starting => now <= Budget
  /\ client.phase = "gaveUp" => now = Budget

(* A start-up is decided even if the device never answers.                 *)
StartupDecided == client.phase \in Starting ~> client.phase \notin Starting

(* Closing ends: whatever the worker does when it is told to stop, waiting *)
(* for an event that never comes included, it ends, and Drop returns.      *)
CloseCompletes == client.phase = "closing" ~> client.phase = "closed"
==============================================================================
