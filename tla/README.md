# A TLA+ verification of wifimic

wifimic turns a laptop's microphone into the microphone of another machine. A
Linux **server** captures with `parec`, sends 5 ms PCM frames over UDP port 6902
to a Windows **client**, which reorders and delays them in a jitter buffer and
renders them to a virtual cable through WASAPI. Client and server keep a session
alive with a small control protocol on the same port. Both programs can replace
their own executable with a newer release and roll back.

This directory models that program, checks the models with TLC on small
instances, and proves theorems about them with TLAPS. Paths below are relative
to the repository's root.

## The system

| Part | Code | State it keeps | Operations | Modelled in |
|---|---|---|---|---|
| Session protocol | `crates/wifimic_protocol/src/{session,control}.rs` | a generator's last identifier, an order's high-water mark | `next_id`, `accept`, encode and decode of Start, Heartbeat, Stop and their Acks | `SessionProtocol` |
| Client control plane | `apps/wifimic_client/src/control*.rs` | state (Establishing, Streaming, Unreachable, Stopped), pending and accepted session, four deadlines, missed heartbeats, outstanding calibration probe | start, restart, stop, advance, receive | `ClientControl` |
| Client loop and tray | `apps/wifimic_client/src/{main,tray}.rs` | run state | one thread: menu event, receive, advance, render; Restart and Exit | `ClientControl`, `WifimicSession` |
| Server control plane | `apps/wifimic_server/src/control*.rs` | state (Idle, Starting, Streaming), last session, heartbeat time, capture retry | handle Start, Heartbeat, Stop; advance; next audio frame | `ServerControl` |
| Server loop | `apps/wifimic_server/src/main.rs` | audio peer, frame sequence | receive with a timeout that depends on the state, acknowledge, read and send one frame | `ServerControl`, `AudioPlayout` |
| Server start-up and unit | `bind_server_socket` of `main.rs`, `network.rs`, `deploy/systemd/wifimic-server.service` | bind attempts; the unit's state, its starts within the start limit's window | bind, retry, exit; start, stop, restart after `RestartSec` | `ServerUnit` |
| Capture handle | `apps/wifimic_server/src/capture*.rs` | the `parec` process | start, read a frame, stop | `CaptureHandle`; its outcomes in `ServerControl` |
| Sequence order | `crates/wifimic_protocol/src/sequence.rs` | none | classify a 32-bit wrapping sequence | `JitterBuffer` |
| Jitter buffer | `apps/wifimic_client/src/jitter/` | FIFO of frames, next slot and its time, arrival anchor, adaptive target | push, poll, clear | `JitterBuffer`, `AudioPlayout` |
| Renderer | `apps/wifimic_client/src/render*.rs` | FIFO shared with a WASAPI worker thread, shutdown, failure; the start-up channel | open under `retry_bounded`, render a frame, drop, worker loop | `Renderer` |
| Update engine | `crates/wifimic_update/src/transaction/` | staged and backup artifacts | resolve, stage, backup, pre_swap, swap, post_swap, health check, rollback, cleanups | `UpdateTransaction`, `UpdateContract` |
| Linux adapter | `apps/wifimic_server/src/upgrade*.rs` | the binary, the systemd user unit | the hooks | `LinuxUpdate`, with `ServerUnit` |
| Windows adapter | `apps/wifimic_client/src/{updater*,task_query}.rs` | the executable, the scheduled task, running clients | the hooks, each of several calls | `WindowsUpdate` |
| Windows handoff | `apps/wifimic_client/src/handoff.rs` and its template | a script and a copy of the client | launch elevated, wait for the client, apply, remove runner and script | `WindowsHandoff` |
| Release check | `crates/wifimic_update/src/{lib,check}.rs` | none | HTTP, SHA-256, version order | no: I/O and data |
| Clock calibration | `crates/wifimic_protocol/src/latency/calibration.rs`, `calibrate_transport` of the client's `main.rs`, `maybe_recalibrate` and `receive_calibration` of its control plane | the outstanding probe, the last offset with its bound | send a probe, retry it, take a reply, warn of a change | `ClockCalibration`; the control plane's timer also in `ClientControl` |
| Latency diagnostic | `*/latency_diagnostic*.rs`, `diagnostic_capture.rs` | the baseline, the bounded queue of what was rendered, the server's printed lines | calibrate, connect, render, measure a tone, print | `LatencyDiagnostic` |
| Log files | `apps/wifimic_client/src/logging*` | the log directory, the sink's file, name suffix and writer | rotate at a start, open, record, roll over | `LogFiles` |
| Diagnostics | `crates/wifimic_diagnostics/` | bounded collector, rate limiter | emit | no: it is write-only for the other parts |
| Command line, status, doctor | `cli.rs`, `dispatch.rs`, `status.rs`, `doctor*.rs` | none | one-shot queries | no |
| Deployment scripts | `deploy/{linux,windows}/` | none | administration | no |

How the parts interact. The client issues a session with a Start, retried with a
fresh identifier every five seconds; the server accepts an identifier only above
its high-water mark and acknowledges; the client then sends a heartbeat every
five seconds and counts each as missed until any Ack of the session arrives. Two
counted heartbeats make it Unreachable, which empties the jitter buffer and
leads to a new Start. The server ends a session at its Stop or after 30 seconds
without a heartbeat and captures the microphone only in between; a capture that
fails is retried every five seconds. Everything on either side happens in one
thread, the client's renderer excepted: a worker thread moves what the loop has
pushed into a FIFO on to the audio device, under a mutex. What is concurrent is
the two processes, the network between them, `parec`, the render worker and its
device, systemd, Task Scheduler and the user.

What is hard, and would hardly be reached by a test: datagrams of earlier
sessions that arrive during a later one; a process that restarts without its
memory; timers that race the answer they wait for; a loop that waits without a
timeout while a timer is pending; a sequence that wraps while frames of both
sides are buffered; a FIFO that is full of frames that no slot will ever ask
for; a FIFO that one thread reads, writes out and discards under three separate
locks while another appends to it; a start-up that gives up on a thread which
may still succeed; a rollback whose own steps fail, or that is interrupted; a program that is
replaced while others start it; retries of a program that add up to a start limit of its
supervisor; a reply to an attempt that was given up, taken for the reply to the next. `PROJECT.json` lists each at its line with the
properties that answer it.

What makes each part correct: sessions only move forward and both sides settle
on the newest (protocol); every state has a deadline that will wake it (client);
the microphone is captured only inside a session and released when the client is
gone (server, capture); a stream of frames comes out in order, each once, within
a bounded delay (jitter buffer); what is rendered reaches the device in order
and without overrunning it, and closing never hangs (renderer); the installed program is one whole version, the
prior one stays recoverable until the new one is accepted, and the report says
which is installed (update); the service comes back whatever its network did
(unit); an offset between two clocks is wrong by no more than the bound printed
with it, and what is derived from it never shows an effect before its cause
(calibration, diagnostic).

## The modules

### The session: `SessionProtocol`, `DatagramNetwork`, `ClientControl`, `ServerControl`, `WifimicSession`

`SessionProtocol` has identifiers, datagrams and deadlines. A deadline is the
number of *ticks* left; a tick is five seconds, which every interval of the code
is a multiple of. `DatagramNetwork` is a set of datagrams in flight: it reorders
by nature, `Lose` loses, and a receive that leaves the datagram in place
duplicates. Every misfortune is an element of `FaultKind`; a behaviour has at
most `MaxFaults` of the kinds in `Faults`, in any mix and at any time, so that
both "what if" and "after the last one" can be asked.

`ClientControl` and `ServerControl` translate the two control planes. The
private methods of the code are functions of a record that carries the code's
fields (`BeginEstablishing`, `IssueStart`, `MarkUnreachable`, `AcceptStart`,
`AdvanceStreaming`; `TryStart`, `StopAndIdle`, `Advance`, `HandleStart`,
`HandleHeartbeat`, `HandleStop`); the entry points of the loops are actions, one
per kind of event. Since each loop is one thread, a handler is one step. A
server handler that can fail is a set of outcomes, each with the faults it
takes; an outcome that is not `up` is an error that ends the process. The
server's `next_audio_frame` blocks while `parec` is alive and silent; `Blocked`
says so and every other server action requires its negation.

Wall-clock time enters only when an identifier is issued. `ClockReading` lets it
be past every identifier so far, or behind (`staleClock` for a process that has
issued before, `clockBack` for a new process). The latter is the one condition
under which the code's promises fail, and `ClockForward` names its absence.

`WifimicSession` composes the two with the passage of time. `Tick` is free while
nobody has anything to do, and a "late" fault otherwise: loops and network
answer in milliseconds, and a tick that overtakes them is a suspended machine or
a congested radio.

`SessionContract` is the abstract protocol: no timers, retries, capture or
network, only identifiers issued, activated, ended, forgotten and believed.
`ImplementsContract` is the refinement, with the server's high-water mark, its
being not Idle, and the client's accepted session as the abstract state.

### The capture: `CaptureHandle`, `CaptureContract`

`CaptureHandle` is what `ServerControl` takes as given: `start`, `read_frame` and
`stop`, the reads that make a frame one by one, and the `parec` processes with
their pipes. A pipe holds a number of bytes; `shift` is how far into a frame the
next byte of a process's output is, so that a lost, repeated or torn read would
show. A call is a sequence of steps between which `parec` writes, fills its
stderr until it blocks, closes its stdout, or exits: `call` says which call the
server's only thread is in, `taken` is the process that the call has taken out of
the handle. `GiveUp` is the end of a call that drops the process, and with it the
server's ends of the pipes; `ReapFails` has what `Drop` then tries again.

`CaptureContract` has one step per call and one result: a capture that is started,
gives frames, ends or fails, and is stopped. `ImplementsContract` shows that the
handle is that, with a capture that is alive as long as a frame may still come out
of it. `ServerControl` models capture at the contract's level of detail.

### The audio: `JitterBuffer`, `AudioPlayout`

`JitterBuffer` is the buffer as functions of its record: `Push` with its six
outcomes, `Poll`, and the empty buffer of `clear`, with the adaptive target, the
window, and the wrapping 32-bit arithmetic over a constant range. The payload
is left out; a frame is its sequence number. `IsPosition` states where
`queue_frame` inserts, as the code's `position` call does. The session
identifier of the buffer is left out because `JitterHoldsStreamedSession` shows
that the client never pushes a frame of another session.

`AudioPlayout` puts the buffer between a server that sends one frame per frame
time and the client loop that polls. On time means in the instant the frame is
sent, or the slot is due; everything else (a pause of the capture, a late, lost,
duplicated or overtaking frame, a late poll, an interruption of the network,
a clear in the middle of a session) is a fault, at most `MaxFaults` of them.
`heard` is the sequence of the frames rendered since the buffer was last empty:
`AudioMovesForward` compares all pairs of it, so that a frame that is rendered
twice in a row violates it as well as one after a later one.

### The renderer: `Renderer`

The client loop and the worker thread, with the audio device as a third actor.
`client` is what the loop does: an attempt of `retry_bounded`, the wait for the
worker's report (`recv_timeout`), the wait between attempts, running, or joining
the worker in `Drop`. Each attempt of `open_impl` makes a thread, a `RenderQueue`
and a channel of its own, so `worker`, `queue`, `startup` and `device` are
functions of the attempt; that a thread which was given up may still open the
device is the point of the run. The worker's program counter `worker[a].at` has
one value for every place where it holds no lock and calls nothing: an action is
one critical section (`Plan`, `Copy`, `Discard`, `RecordFailure`), one call of
the device (`TakeEvent`, `QueryDevice`, `Write`), or one step of the loop. What
the worker read is in `available`, `writable` and `scratch`, as in the code's
locals. A push that is refused and the shutdown by `Drop` that follows it are
one action, `RenderFrame`, since nothing can be pushed in between.

A device frame is its number, so that a permutation, a loss or a repetition
would show; a frame of the protocol is `SamplesPerFrame` of them, and the worker
may split it. The device drains a period and raises its event, at any time or
never; any of its calls may fail. Time passes in the start-up only, where the
loop meets its deadlines the moment they fall due: what `sleep` and
`recv_timeout` overshoot by is left out. An attempt that times out is always the
last, because it was given the whole rest of the budget; `OneWorker` rests on it.
A poisoned mutex is not modelled: the only panic under the lock would be a
`discard_front` beyond the FIFO, which `PlanStaysValid` excludes.

### The update: `UpdateTransaction`, `UpdateContract`, `LinuxUpdate`, `WindowsUpdate`, `WindowsHandoff`

`UpdateTransaction` is the engine: the order of the hooks, what a failure of each
leads to, and the cleanups. A hook is an operator of its success; the adapter
conjoins what the hook does to the world. `LinuxUpdate` has one step per hook and
two for the rollback; `linked` is whether the path of the running executable
still exists, which is what `current_exe()` made canonical depends on.
`WindowsUpdate` has one step per external call, since Task Scheduler's logon
trigger, a user who starts the client, and clients that exit act in between;
`step` is the call that comes next. Windows refuses to rename over an executable
that is running (`Unlocked`). In both, the updating process may die at any step.

`WindowsHandoff` is what `wifimic_client upgrade` does around that. The command
resolves the target, writes a script and launches it elevated; the script waits
for the command to exit, copies the client to a runner, starts it, and goes on to
remove runner and script. It does not wait for the runner: the client is built for
the Windows subsystem (`main.rs:1`), and PowerShell's `&` returns at once from such
a program and sets no `$LASTEXITCODE`. Reading it on the next line of the template is
an error under `Set-StrictMode`, the `catch` takes it for a runner that could not be
run, and the exit code is 31 although the update is at work (`StartRunner`).
`handoff` is the next statement of command or script; `started` is whether a runner
was started, and `RunnerStep` is a step of `WindowsUpdate`, beside the script and
after its end. The runner's executable cannot be removed while it runs
(`RemoveRunner`), and stays behind when the script is quicker. Command, script and
runner may each be killed, and the wait may fail although the command is gone,
because another process may be given its identifier. A second upgrade beside the
first is not modelled.

So the exit code says nothing of the update's outcome, and `ExitTellsUntouched` is what it can
be relied on for: 10, 11, 20 and a refused elevation mean that nothing was or will be
touched, and once the runner was started the code is 31. The codes 0, 30, 50 and 60 are
never seen after an update was started, where `docs/deployment.md:559` and `:560` promise
30 after a rollback; the outcome is in the runner's own exit code, which nobody reads.

`UpdateContract` is what both promise, as one abstract specification: nothing is
touched before there is a backup, the backup stays until the new program is
accepted or the old one verified, and the outcome says which is installed.

### The unit: `ServerUnit`

The server as systemd runs it: `unit` is what `systemctl` shows, `server` what the
program is at. Binding fails while `bindable` is false and is tried again
`RetryAttempts` times, `RetryInterval` apart (`BindFails`); then, or on any other
error (`ServerFails`), the program exits and the unit is restarted after
`RestartSec`. `left` counts down whichever of the two sleeps is under way. systemd
counts starts in windows: `window` is the age of the current one, and a start that
is one too many within it makes the unit `failed` (`Start`). The history variable
`blamed` remembers that a start in the window was not the consequence of an
exhausted bind: one by hand, by the update, or after another error.

`LinuxUpdate` extends this module: its hooks stop and start this unit
(`Stopped`, `Restarted`), which goes on failing and restarting in between, before
and after. `systemctl` may fail having done its work or not. `TransientNeverFatal` is what
the repository changed after the incident of 2026-09-05
(`docs/incidents/`): an outage of the network alone must not exhaust the limit.
It holds because a whole cycle of bind attempts and `RestartSec` takes 68 s, and
ten of them more than 300 s; `UnitAssumption` states that, and the constants of
the run keep it while being small: 3 cycles of 3 exceed 8. The run also keeps
that `RestartSec` alone would exhaust the limit (3 restarts, a second apart,
within 8): without the retries inside the program the property fails, which is
its mutant.

### The calibration: `ClockCalibration`, `LatencyDiagnostic`

`now` is true time; the two wall clocks are integers that are added to it, and a
fault may step either (`StepClock`). A probe carries the client's time, a reply
the server's as well; datagrams wait as long as they like, are reordered by
nature, and may be duplicated. The server reads both of its times in one pass of
its loop, so t2 is t3, and only t2 is used. `phase` is where `calibrate_transport`
is (each attempt at a probe is a `SendProbe`, each way of ending a wait an
action), and `"running"` is the control plane's loop, which sends a probe every
`Interval` with a sequence of its own. Either may get a reply to any probe ever sent,
by itself, by an earlier session, or by an earlier process on the same port
(`Relaunch`). `applied` is the tracker's sample, with three history fields: what the offset
really was when it was taken (`truth`), and whether a clock was stepped since its
probe was sent. `due` is armed by `AcceptStart` alone: a control plane without a session
(`Proceed`, a new process, the user's `Restart`) recalibrates nothing.

`OffsetWithinBound` says that the sample is wrong by no more than the bound the
code prints with it, plus one unit: the code halves the round trip and an odd one
loses half a unit, which is one in integers. `ChangesAreWarned` relates the
instability warning to what the clocks did, in both directions.

`LatencyDiagnostic` adds the run that uses the offset: `stage` is where its loop
is, `measure` is `measure_tone` with the queue of `RenderCorrelation`, `baseline`
what was rendered since the last measurement. Sound is reduced to windows: the
capture stream gives any number of windows up to the time that has passed since it
was emptied, and a tone may begin in any of them. `history` is everything that was rendered,
`lines` what the server printed, `printed` how often it did. The correlation holds
128 frames (`Capacity`) and forgets the oldest; a measurement ends after 250 ms, which
is 50 frames (`MaxRendered`), and `DiagnosticAssumption` says that these are no more:
`Observed` evicts as the code does, and no measurement ever gets there.
`OnsetNamesLastRendered` asks whether the frame
named is the last one rendered before the tone; `LatencyIsCausal` whether the two
outputs, read side by side, could show a frame heard before it was captured. Both
are asked only while no clock is stepped after the calibration, since the offset is taken once.
After a reconnect the sequences begin again and nothing in the outputs tells:
the frame is then found under one of its two captures, and the earlier one keeps the
promise. Any error ends the run without a Stop (`RunFails`).

### The log files: `LogFiles`

A client that starts rotates the log directory, opens a file named after the
second and a suffix, and writes each diagnostics record to it; when the file is
full it opens another. `logs` is every file ever created, in that order, `linked`
while it has its name, and `sinks` what each process holds: its file, the suffix
at which it would look for the next name, and the bytes that `BufWriter` could not
flush. Two processes, as a running client and `wifimic_client --calibrate`, share
nothing but the directory. `Start` is rotation and opening in one step, with the
files that cannot be read, which are neither counted nor removed, and the
removals that fail chosen freely; `Record`, `RollOver` and `RollOverFails` are the
outcomes of `record`. A record is its length, since nothing reads a log back but
its header and size; when a file is left, for another or at the process's end, any
part of what is pending may still reach it. Rotation happens at a start only: a roll-over removes nothing, and looks for
its suffix where the last one ended although the second has changed, so that a
long-lived process runs out of names; the model has both, and no sentence of the
repository says otherwise.

## What TLC checks

| Run | What it shows | Bounds |
|---|---|---|
| `SessionNetwork` | all safety properties of the session, and the refinement of `SessionContract`; capture only inside a session | 3 sessions, a calibration probe, 3 faults of any kind but a clock that runs back between processes: of the network, both processes, the capture and the user; heartbeat timeout 6 ticks as in the code |
| `SessionLiveness` | the pair settles on one session; a vanished client releases the microphone | 4 sessions, any 2 faults, heartbeat timeout 3 ticks |
| `SessionOneLoss` | *violated:* one lost datagram makes the client Unreachable | losses only |
| `Playout` | order, bounds and delay of the jitter buffer, every start of the sequence | 16 sequences, 4 slots, 7 frame times, 3 faults |
| `PlayoutStall` | *violated:* a frame that was queued in time is rendered as a gap | 10 frame times, 1 fault |
| `Renderer` | order of the rendered frames, bounds of FIFO and device, validity of the worker's plan; one worker at a time and the start-up's budget; start-up and closing come to an end | budget of 5, interval of 2 (3 attempts), FIFO of two frames of two samples, device buffer of 3, period of 2, 4 frames |
| `UpdateLinux` | the Linux update implements the contract and its outcome is truthful, beside a unit that fails and restarts; the service comes back; an address that cannot be bound never exhausts the start limit | 3 bind attempts, 3 starts in a window of 8, retry and restart after 1, 2 other errors; the address comes and goes without limit |
| `UpdateLinuxRollback` | *violated:* the rollback does not restore the prior binary after a swap | none |
| `UpdateWindows` | the Windows update, from the command to the script's exit code, implements the contract; one program runs at its end, never two versions at once; it begins after the command's process is gone; the exit code tells an untouched client | none: the state space is finite |
| `LogFiles` | one file per name and per process, files within their limit; rotation removes what it must, and nothing else | 2 processes, 4 files, 3 seconds, 1 failure (or step of the clock back); a file of one header and one record, a directory of the same |
| `CaptureHandle` | no `parec` left behind, frames cut without a gap while no read fails, calls that return, and the refinement of `CaptureContract` | frames of 3 bytes, pipes of 4, 2 processes, 2 failures of reading and of reaping each |
| `Latency` | an offset is within its bound, whichever reply is taken; warnings are about the clocks; a tone is attributed to the frame last rendered, and never heard before it was captured | 4 units of true time, 1 fault (a clock stepped by 6, a duplicate, a stranger, a further session, a restart, a new process), 2 probes of 2 attempts, sequences modulo 2, round trips up to 2, 2 frames and a queue of 2; all three programs |

Several invariants that only say how far one quantity may go are checked as one:
`PlayoutInv`, `HandleInv`, `HandoffInv` and `OnsetInv` are a module's type
invariant with one safety invariant each. `SessionInvariant` and the types of the session and of the Linux
update are proved, for all bounds, and no run checks them again.

Why the bounds are enough. Three identifiers are a session, its successor and
one more to be confused with either; the theorems below say that more sessions
and more faults change nothing for the safety properties. Three faults let an
old datagram be kept, one process restart, and the datagram arrive in the session
that follows, or a capture fail in between; what a fourth would add is only
proved. For liveness two faults leave the pair in every combination of
half-open states; `OutOfScope` ends the obligation once the identifiers have run
out, and `MaxSession = 4` leaves enough of them for recovery from two faults.
For the capture, a pipe that holds a frame and a third lets a read take less than
a frame, exactly one, or the tail of one; two processes are one left behind and
its successor, and two failures of reaping are the first attempt and `Drop`'s.
For the renderer, an interval that does not divide the budget cuts the last wait
short; a device buffer that holds one frame and a half, and drains a frame at a
time, makes the worker split frames and write fewer than are queued; four frames
fill a FIFO of two while the worker is anywhere in its loop. That no larger
instance differs is proved below, for everything but the two liveness
properties. For the jitter buffer, 4 slots, a ceiling of 3 frame times and growth by two are the
smallest values for which the FIFO fills up, the target grows in one step to its
ceiling and decays, and a frame falls outside the window; 16 sequences make half
the range twice the window, and every run starts at each sequence, so that it
wraps. For the logs, two records do not fit one file, two names to a second can run out, and
three seconds with a limit of one make a file too old; one failure leaves a file that cannot be
removed, a torn record in the writer, or an empty file without a header. Runs of the model of the playout confirm that eviction, a window reset, decay and
wrapping all happen within these bounds.
For the unit, three starts with three attempts each are an outage that outlives a
window, and two errors besides make the unit fail for good. For the calibration,
four units of time let a reply of an attempt that was given up overtake its
successor, a round trip be too long, and odd; two sequences make the second probe of
the control plane, and the first of `--calibrate`, look like each other; one
fault is one step of a clock, a duplicate or a process that begins with sequence 0 again.
What the theorems below cover does not depend on these bounds.

`CHECK_DEADLOCK` is off where the system may stop: an update ends, a renderer is
closed or given up, a diagnostic is over, a playout's bounded time and the logs' bounded files run out, and a server waits for ever
for a `parec` that is silent. The session runs check for deadlock.

Each property of a passing run has a mutant in `PROJECT.json`: a plausible bug
in a mapped definition, under which TLC finds the property violated. The
mutated forms are in the modules, each before the definition it replaces and
marked as a mutant.

### Fairness

`FairSpec` assumes what the code's loops and the operating system do on their
own: the client loop's `advance` and its receive, the server's receive, its
timeout and its read of end of file are taken if they stay possible (both loops
run for ever, each pass does all of this); time passes; a datagram that is not
lost is received at last; systemd restarts the server (`Restart=always`,
`RestartSec=10`; its start limit of ten starts in 300 s is not reached with a
bounded number of faults, see `ServerUnit`). Nothing is assumed of the user, of launches, of
faults, or of a `parec` that has gone silent: a server blocked in the read of
such a process does nothing until it produces audio, and `OutOfScope` excludes
exactly that state, since the code has no timeout there.

`Renderer`'s `Spec` assumes that both threads are scheduled and that time passes:
a step of the client loop that waits for nobody but the worker or the clock, and
a step of the worker, are taken if they stay possible. `WaitTimesOut` is one of
the worker's steps, because `wait_for_event` has a timeout. Nothing makes the
device open, drain or fail, and nothing makes the loop render or end.

`CaptureHandle`'s `Spec` assumes that the server's thread is scheduled inside a
call: a read that has bytes or the end of the file to return, a reaping and a
reading of stderr go on. Nothing makes the thread call, nor `parec` write or exit,
and `CallsReturn` exempts the wait for a `parec` that can still write.

`LinuxUpdate`'s `Spec` assumes that the update goes on unless it is killed, that
systemd restarts a unit whose `RestartSec` is over, that the program tries to bind when its
sleep is over, and that time passes. The address may come and go for ever;
`ServiceComesBack` speaks of the case that it stays. Nothing makes an error
happen, nor an update begin. `LatencyDiagnostic` has no fairness: what it
promises is about what it prints.

### Where the code and its documentation disagree

The three violated runs each check one sentence of the repository; `findings` in
`PROJECT.json` quotes it.

* `SessionOneLoss`: a heartbeat is counted as missed when it is sent, and the
  limit is tested right after; so the client gives up while sending the second
  heartbeat, although only one Ack is missing.
* `PlayoutStall`: after a stall the frames that were held up are queued although
  their slots have passed. By wrapping distance they sort behind every frame
  still to come and are never asked for; once they fill the FIFO, each frame
  that arrives evicts the one at the front, which is the next to be played.
* `UpdateLinuxRollback`: the rollback looks up `current_exe()` again, whose path
  is gone once the swap has renamed a file over it; the backup is never put
  back. The outcome is reported truthfully as unverified, and the backup is kept.

## What is proved

`WifimicSessionProofs` proves, for every number of sessions, probes and faults,
every set of fault kinds and every positive interval:

| Theorem | Property |
|---|---|
| `TypeCorrect` | `TypeOK` |
| `JitterIsolated` | `JitterHoldsStreamedSession` |
| `ClientNeverStranded` | `ClientAlwaysHasWakeup` |
| `CaptureConfined` | `CaptureOnlyInSession` |
| `SessionsAgree` | `SessionInvariant` |
| `StopsAreStale` | `NoStopForHeldSession` |
| `NewestSessionWins` | `AcceptedIsNewestActivated` |
| `SessionsEndForCause` | `EndsOnlyForCause` |
| `Refinement` | `ImplementsContract`, assuming `ClockForward` |
| `OneSessionWithoutFault` | `NoReconnectWithoutFault`, assuming `HeartbeatsInTime` |

The assumptions are the modules' named ones: the bounds and intervals are
natural numbers, the intervals and the limit of missed heartbeats not zero,
`Faults` a set of the declared kinds, and `None` no integer.

The argument. (1) *Shapes*: one lemma per private step of the control planes
(`BeginEstablishingShape`, `AcceptStartShape`, `HandleStartShape`, ...) says that
it takes a record of the shape the code relies on to another; the shape includes
the type and which deadlines are armed in which state. (2) *Effects*: one lemma
per action classifies what it does to the quantities the two sides share: the
client issues, ends, accepts or keeps; the server activates, ends, forgets or
keeps; and which datagrams each adds. Everything later cites these effects and
not the actions. (3) `ShapeInvariant` is inductive by (1) and (2), and gives the
first four theorems. (4) `NoStopForHeldSession` and `AcceptedIsNewestActivated`
are not inductive on their own: a Stop in flight may name a session that a later
Start reuses unless everything in flight is bounded by what was issued, and an
Ack proves activation only if every Ack in flight does. `SessionInvariant` adds
these bounds and that the generator of a running client is at the newest
identifier; with `ClockForward` a Start then always goes above all of it, and
the invariant is preserved. (5) Each effect maps to a
step of `SessionContract` or to a stutter, which is `Refinement`. (6) While nothing
goes wrong, `Uneventful` tells where the first session is: it is not asked for yet
(`Unasked`), its Start or the Ack of that is under way (`Asking`), or it is held by
both sides (`Talking`). In the last case no deadline passes, because the
server's timeout leaves room for the heartbeat to come:
`server.heartbeat + HeartbeatInterval >= HeartbeatTimeout + client.nextHeartbeat`
holds between heartbeats, and no time passes while a heartbeat or
its Ack is under way, since somebody then has something to do. Every fault counts, whatever its kind,
so the first one ends the obligation. `HeartbeatsInTime` says that two
heartbeats may be missed and one fits within the timeout, as with the code's 2, 5 s and 30 s; with
a limit of one, or a timeout equal to the interval, TLC finds
`NoReconnectWithoutFault` violated.

`RendererProofs` proves, for every budget, interval, frame size, capacity, device
buffer and period, assuming only that they are natural numbers, those but the
capacity positive:

| Theorem | Property |
|---|---|
| `TypeCorrect` | `TypeOK`, with the bounds of the FIFO and of the device's buffer |
| `PlansHold` | `PlanStaysValid` |
| `FramesInOrder` | `PlayedInOrder` |
| `OneWorkerAtATime` | `OneWorker` |
| `StartupKeepsBudget` | `GivesUpOnTime` |

The invariant is `TypeOK`, `PlanStaysValid` and `PlayedInOrder` with three more
parts. `Timely`: the attempt numbered a began at (a - 1) * Interval or later, and
waits until exactly Budget; so one that times out has spent it, which gives
`GivesUpOnTime`, and the number of attempts is bounded. `Ordered`: attempts to
come have no worker, those before the current one have a worker that has ended,
an error is reported only by a worker that has ended, and a report that was
dropped means that the loop has given up; together they give `OneWorker`, which
alone says nothing of the next attempt. `Quiet`: only the current attempt of a
running renderer has anything queued, without which what was played could not be
related to the queue of the current attempt. `PlanStaysValid` and `PlayedInOrder`
need each other: a discard removes exactly what was written because the plan
still holds, and the plan still holds because nobody but the worker removes.
The proof has the facts about sequences first (a front stays when frames are
appended, a FIFO is its front and its rest), then one *effect* lemma per kind of
update that the actions make, and then one step lemma per part of the invariant,
with a step per action.

`LinuxUpdateProofs` proves about the Linux update and the unit, for all settings of
the retries and of the start limit that satisfy `UnitAssumption`:

| Theorem | Property |
|---|---|
| `TransientIsNeverFatal` | `TransientNeverFatal` |
| `OutcomeStaysTruthful` | `OutcomeIsTruthful` |
| `TypeCorrect` | `TypeOK` |
| `LinuxKeepsContract` | `ImplementsContract` |

`TransientNeverFatal` says nothing of the time between two starts. Its invariant
does: while no start in the window is blamed on anything else, the age of the
window, with what the current attempts have still to wait for, is at least
a full `Cycle` for every start but the first. `Start` would exceed the limit
only with `LimitBurst` such cycles behind it, and these take longer than the window
is open. The lemmas are one per action of the unit, since every hook of the update leaves the unit alone,
stops it, or starts it by hand (which is blamed). The outcome is truthful, and the contract kept,
because of what the phases say of the binary: until the swap the prior
one is installed, from the backup on there is a copy; `BeforeTheSwap` and
`AfterTheSwap` show that the hooks keep it, and `LinuxKeepsContract` maps each hook to a
step of `UpdateContract` and each step of the unit to a stutter.

`LatencyProofs` proves about the calibration and the diagnostic, for every
interval, timeout, number of probes and attempts, range of sequences, set of
programs, step of the clocks, and number of frames and faults:

| Theorem | Property |
|---|---|
| `OffsetIsWithinBound` | `OffsetWithinBound` |
| `WarningsAreOfChanges` | `ChangesAreWarned` |
| `LatencyStaysCausal` | `LatencyIsCausal` |
| `OnsetsNameLastRendered` | `OnsetInv` |

The invariant is about the datagrams in flight: a probe that was sent since the
clocks were last stepped carries a time at or before the client's present one, and
a reply to such a probe a server's time between the probe's sending and now
(`ProbesTimely`, `RepliesTimely`); with that, any valid reply gives a sample whose
error is between minus and plus half the round trip, whatever probe it answers,
so that correlation by sequence is not even needed for it. A step of a clock makes all
that is in flight worthless for the invariant, by its number, instead of being
excluded. For `LatencyIsCausal` the invariant says that every frame which can still be rendered was
printed by the server before now (`FramesPrinted`), and every stamp in the baseline and in
the queue was made after its frame was printed, in terms of the client's clock and the
true offset (`StampsPrinted`); the error of the offset then is all that can come
between, and the proof ends with the sample's bound. `OnsetsNameLastRendered` has two
parts of its own. `Counted`: the queue
holds no more than a measurement renders, so it never has to forget a frame, which rests on
`DiagnosticAssumption` and on nothing about the frames in all. `Remembered`: between measurements
the baseline, if there is one, is the last frame rendered, and during one each rendered frame is in the
queue or older than all in it and than the baseline. The second half is what allows
the baseline to be forgotten after a report: the frames between are then older
than whatever the next measurement names. `SampleTaken` carries the sample from the
calibration to the run, for the types.

`CaptureHandleProofs` proves about the capture handle, for every frame and pipe size and
every number of processes and failures:

| Theorem | Property |
|---|---|
| `NoCaptureLeftBehind` | `HandleInv` |
| `FramesStayAligned` | `FramesAligned` |
| `HandleImplementsContract` | `ImplementsContract` |

`FramesAligned` speaks of a process whose reads did not fail: after a read error the next
frame may begin in the middle of one, and nothing in the code mends it.
It is almost inductive; the arithmetic under it (`ShiftFollows`) is that a
read ends a frame exactly if it ends at a multiple of its size. That no process is
left behind needs that the processes that are not yet born lie beyond the number
spawned, that the handle holds one that was spawned, and what each kind of call has
(`CallInv`: nothing of a frame between calls, no result while a call is under way).
The refinement maps every return of a call to the contract's one step for it and
every other step to a stutter; its effect lemmas are the ones of the invariant.

`WindowsUpdateProofs` proves about the Windows update, from the command to the ends of
script and runner, with the task, the user and the clients between its steps and
each of its processes killed anywhere:

| Theorem | Property |
|---|---|
| `VerdictNamesTheProgram` | `OneProgramAtTheEnd` |
| `ClientsNeverMixed` | `NoMixedClients` |
| `HandoffOrdered` | `HandoffInv` |
| `ExitCodeTellsUntouched` | `ExitTellsUntouched` |
| `WindowsKeepsContract` | `ImplementsContract` |

The transaction has an invariant of its own, `UpdateInv`, of the specification
without the handoff: what each hook finds installed, touched and backed up
(`Stages`); that a client which runs is of the program installed, because Windows
refuses to replace an executable that runs (`ClientsCurrent`); how far a rollback
has put things back (`PutBack`); and what each outcome tells (`Verdicts`).
`HandoffRefinesUpdate` says that what the handoff adds leaves that specification's variables
alone, so the first two theorems and the contract carry over. `ScriptInv` adds what each
statement of the script has behind it, and that an update which was not started has touched
nothing. TLC's check of this part is
already complete, since it has finitely many states and no bound; what the proofs
add is the reason.

`AudioPlayoutProofs` proves about the jitter buffer between the server and the
client's loop, for every range of sequences of more than two windows, every window,
floor, ceiling, growth, decay and frame time that the modules' assumptions admit, and
every number of faults:

| Theorem | Property | For |
|---|---|---|
| `QueueStaysOrdered` | `FifoOrdered` | every session |
| `DelayStaysInRange` | `PlayoutInv` | a `ShortSession` |
| `WindowHoldsResidents` | `ResidentsInWindow` | a `ShortSession` |
| `PlaybackMovesForward` | `AudioMovesForward` | a `ShortSession` |

`QueueInv`, which is the type, the relations between the fields of the buffer and
`FifoOrdered`, holds however long the session lasts. It rests on the algebra of wrapping
distances: the order of the slots to come is a distance from `next`, so it changes as
`next` moves and the order has to be shown to survive that. `PushIs` and `PollIs` say
what the two operations do to the whole buffer: it is kept, advanced by a slot, or
started again at one frame.
The other three compare sequences over the whole session, and two
sequences can be compared only if less than half the range lies between them.
`ShortSession` says that the session does not send that many frames: with 2^32 sequences and frames of 5 ms, 124
days. It is needed: with a range of 10 and 7 frame times TLC finds
`ResidentsInWindow` violated, whereas the runs here keep it. `PaceInv` then counts
sequences from the session's first, `base`, which no variable keeps, so that the
invariant has it under a quantifier. Whatever is under way or resident was sent by now,
the anchor's frame was sent before it arrived, and the slots played so far have taken
their time (`Paced`). The start of a new window is where the parts need each other:
it moves `next` forward only because a frame that is outside the window is ahead of `next`
and not behind, which nothing but the pace says.

`LogFilesProofs` proves about the log files, for any set of processes, any lengths
of records, and any number of names, files and failures:

| Theorem | Property |
|---|---|
| `LogsKeepApart` | `TypeOK`: one file of a name, one sink of a file, no file beyond its limit |
| `LogsAreKept` | `EarlierFilesKept`, the part of `RotationKeepsPolicy` about what stays |

The size limit is not inductive alone, because a write that fails leaves bytes
in the `BufWriter` that a later one flushes: `SinksInv` bounds the file's size together with what is
pending, and says that nothing is pending while nothing has failed. `OpenedLonger`,
`RecordLonger` and the other lemmas of that kind say of each effect on the directory that it adds
a file, lengthens one, or takes a name away; they compose (`LongerTwice`).

Only model-checked, and why:

* Liveness, which TLAPS does not prove under fairness here: `EventuallyConnected`,
  `MicrophoneReleased`, `StartupDecided`, `CloseCompletes`, `CallsReturn` and
  `ServiceComesBack`.
* `RotationKeepsPolicy` beyond `EarlierFilesKept`: which files go is a fold over the sorted
  directory, and what a fold computes for every input is induction over data.

## What is left out

* Byte layouts, checksums and malformed datagrams: a decoder's rejection changes
  a counter and nothing else. Datagrams from another address are dropped by the
  client before they are decoded.
* Two updates at once: nothing in the code excludes them.
* A second client. The server drops what does not come from the one configured
  address, whatever the port; two clients on that host are not modelled.
* Time is discrete, in ticks of five seconds for the session and in frame times
  for the audio. Two timers that fall within one tick fire in either order.
* `send_to` failures of the server and transport errors of the client are crash
  faults: both end the process in the code.
* The overshoot of `sleep` and `recv_timeout`, and the channel layout and gain of
  rendered samples.
* Diagnostics events and counters, and the sink's last error, which nothing reads.
* The calls of WASAPI in the latency diagnostic, which open or read or fail, and
  the frequency analysis that finds a tone: any window may hold one. The
  latency statistics of `measurement.rs`, which no program calls.
* Saturation of 64-bit microseconds, which no clock reaches.
* The release check: it is a query whose answer, a tag, is data for `Resolve`.
* A probe is answered and the rest of that loop pass skipped; with `MaxProbes`
  bounded, the liveness run has no probes.

## Plan

Done: the session, the capture handle, the jitter buffer, the renderer with its
start-up retry, the updates with the Windows handoff, the server's unit and
start-up, the calibration and the latency diagnostic, and the log files, each with its proofs.

What a next step would take up, in this order:

1. *Audio path*: the server's sequence and capture retry, the jitter buffer and
   the renderer's FIFO composed; pauses of the capture and drift between the
   clocks, which move the timeline for good.
2. *Diagnostics*: the collector and the rate limiter, as small modules with
   reference definitions.
