# A TLA+ model of hw_sim

hw_sim stands in for the hardware of a quantum key distribution pair. One
process per player (Alice, the source; Bob, the detector) generates batches of
correlated events from an equally seeded random stream and exchanges them with
the player's `gc` node over FIFOs. The processes do not talk to each other: what
keeps them correlated is that both generate the same number of batches. A
control client can pause the pair, realign it and let it go on.

## 1. Inventory

| Component | Source | State | Operations | Hard because |
| --- | --- | --- | --- | --- |
| Simulator, behind an actor | `sim_lib/src/simulation/mod.rs`, `simulator/src/backend/actor.rs` | stream, event counter, modulator | start/stop session, generate, discard, progress | two copies must advance in step without communicating |
| Session runner | `simulator/src/hardware_session/mod.rs` | last register value, batch in hand | poll the register, generate, write, wait for GC | blocking reads; the control channel is polled at a few points only |
| Supervisor | `.../supervisor.rs` | FIFO state, current connection | open FIFOs, run a session, coordinate a recalibration | errors at any step; order of files, FIFOs and replies |
| Runtime status | `simulator/src/runtime_status.rs` | two files, an inotify queue, a channel | withdraw and announce the hardware, wait for the node | four actors, stale notifications, crashes |
| Runtime control | `simulator/src/runtime_control.rs` | socket backlog, command channel, `pause_in_progress` | Pause, Synchronize, Resume, attack commands | two threads block on each other; clients leave |
| Pair client | `hw_sim_control/src/lib.rs` | the phase it is in | pause both, compare, discard on one, resume both | two servers, timeouts, partial failure, other clients |
| IPC writer, FIFO connection | `simulator/src/ipc/` | queue, writer files, `close_requested` | attach, write, close | a write interrupted by a close |
| Encodings | `sim_lib/src/simulation/batches.rs` | - | GCR records, angle nibbles | bit widths, rounding |
| Startup and configuration | `simulator/src/main.rs`, `configs/` | files and FIFOs on disk | create, reset | what an earlier run left behind; resets that fail half way |
| Test controller | `simulator/src/bin/simu_controller.rs` | its ends of the FIFOs, batches done | start, open, exchange, stop | opens that must meet the simulator's; kills |

The supervisor calls the runner, the runner calls the simulator actor and the
writer actor; the control thread sends commands to the main thread over an mpsc
channel and shares one flag with it; the runtime-status watcher thread sends
tokens to the main thread. Node and simulator meet in FIFOs and in two files.

What makes the parts correct:

- status files: FIFOs are recreated only while the node has let go; the node is
  never told "ready" during a recalibration; no acknowledgement is lost;
- control socket: no two threads wait on each other; one recalibration at a
  time; the flag is never leaked; "ok" means done;
- sessions: batch numbers of the pair agree; a peer that leaves is noticed; the
  streams stay together (they do not, see section 6);
- recalibration: the comparison is still true when it is acted on, overlapping
  clients do not disturb each other, both streams are at the same position
  afterwards (they are not always, see section 6);
- writer: batches reach the connection they were made for, whole; a close returns
  even if the node has stopped reading;
- simulator actor: a call is one atomic operation for the two threads that share
  the simulator, and it returns even if the actor has died; every batch is accounted for;
- correlation and encodings: equal positions in the stream are equal batches whatever
  error rates and attacks each side has; the node decodes what was generated;
- FIFOs: a used FIFO is never opened again; a controller gets answers to its own batches.

## 2. Modules

| Module | What it is |
| --- | --- |
| `Handshake` | the promise of the two status files: a phase per simulator, attached or not per node |
| `RuntimeStatus` | the files, the inotify queue, the watcher, the channel, the supervisor's system calls one by one, the node; implements `Handshake` |
| `RuntimeStatus_proofs` | its inductive invariant, its theorems and the refinement |
| `RuntimeControl` | clients, server thread, flag, channels, the main thread's answers |
| `RuntimeControl_proofs` | its inductive invariant and theorems |
| `Simulator` | the simulator's operations as operators on a record |
| `HardwareSession` | both runners, their simulators, the FIFOs between them, what stays in them, and the nodes |
| `Recalibration` | the pair client, once or several times, over `HardwareSession` with a pause protocol seen from outside |
| `PairPause` | the promise of a recalibration: a mode per simulator, which may end at any point, and whether the pair is aligned |
| `Restarts` | `HardwareSession` with processes that end and start again |
| `SimulatorActor` | the actor, its channel and the two threads that call it; implements `AtomicSimulator` |
| `AtomicSimulator` | the promise of the actor: a call takes effect in one step, or is lost with a broken simulator |
| `Correlation` | which draws of which stream a batch is made of, for two simulators |
| `FifoRecords` | counters of a session, GCR records, angle nibbles, and their reader |
| `ControllerSession` | one simulator and the test controller, with FIFOs as inodes |
| `FifoPaths` | the supervisor's loop, the FIFO paths and the system calls that fail |
| `ControlConnections` | the connections to the control socket and their lines |
| `IpcWriter` | the writer actor, its queue, files and flag, the FIFO connection's construction and drop |
| `Restarts_proofs`, `Recalibration_proofs`, `IpcWriter_proofs`, `ControllerSession_proofs` | the inductive invariants and theorems of these modules; `Recalibration_proofs` has the refinement of `PairPause` |
| `Simulator_proofs` | the same for `Correlation`, `FifoRecords` and `SimulatorActor`, and the refinement of `AtomicSimulator` |
| `Process_proofs` | the same for `FifoPaths` and `ControlConnections` |
| `MC...` | instances for TLC; `MCSimulator` holds five modules that share no variable |

### RuntimeStatus

`sup[p]` is the main thread's place: the three steps of `initialize`, `opening`
and `session`, the three system calls of `begin_recalibration`, the coordination,
`wait`/`check` of `wait_for_node_idle`, and the three steps of
`finish_runtime_pause`. Every system call is an action of its own because the
node and the watcher run in between. An idle notification is counted where it
stands: `inotify` (kernel), `batch` (read, not examined), `sending` (file seen),
`tokens` (channel). A failing system call and a killed process are both `Exit`:
main.rs returns when the supervisor does. The node is not part of the repository
and follows README.md:98-125: it polls the ready file, closes its FIFO ends when it
is gone, creates and closes node_idle, waits for the file to return, reopens, and
removes its acknowledgement before or after that.

### RuntimeControl

`server[p]`/`serving[p]` is the control thread and its request, `main[p]`/`held[p]`
the main thread and the reply channel in its hands; `reply[p]` is the one-shot
channel back. Clients are arbitrary: any client may send any command at any time
and leave before the answer, the command stays. A session is a single state in
which the channel may be polled; `away` is everything in which it is not.

### HardwareSession

`run[p]` is the runner's place in `run_detector_workflow` or `run_source_workflow`.
A batch is its number in the session (which base_gc encodes) and its position in
the stream; angles and results are left out, two batches with one position are
equal. `gcr`, `echo` and `wire` are the batches of GC values on their way from Bob
to his node, back to Bob, and to Alice. Within a session every batch has the same
number of pulses, so the event counter is a number of batches.

A FIFO keeps what is in it as long as one end is open, so a node that closes its ends
(`Disconnect`) empties only those of a simulator that has closed its own (`NodeCloses`);
otherwise whole batches stay to be read, and a read fails only when none is left
(`EndOfFile`). What the node had not yet written whole may be missing: the last echo, the end
of Alice's wire (`LeftBehind`). Likewise a simulator that drops its connection leaves the FIFOs
to a node that is still there (`CloseEnds`). The nodes leave one by one. `ended[p]` says that
p's node has seen the other one go, so that it relays no more, but has not left yet; a node
that opens the FIFOs again begins a session of its own. A node that opens Alice's FIFO over GC
of an earlier node is recorded in `stale`.

### Recalibration

Extends `HardwareSession` by the clients (`phase`, `ask`, `progress`), the requests
each server has not answered (`line`) and the main threads' place in
`coordinate_runtime_pause` (`main`). A client sends each phase to both simulators by
two threads, waits for both answers or time-outs, and goes on only after two oks. The
control socket is coarser than in `RuntimeControl`: accepting, queueing and taking a
command are one step. `RuntimeControl` justifies it: one command is outstanding per
simulator (`OneOutstanding`), and `pause_in_progress` is up from the Pause to
`complete_pause` (`FlagMatchesPause`). A pause is taken where the runner checks for it
and not while it reads GC; a wrong command would end the process, a step that exists in
`RuntimeControl` and that `RightCommand` shows these clients never cause. Each command may
fail with an error for its client and the end of the process (`Exit`): `begin_recalibration` and
`generation_progress` in a Pause, `discard_batches` in a Synchronize, `stop_session` and all of
`finish_runtime_pause` in a Resume; and a process may end between two steps (`Crash`). Synchronize
generates the batches at once or fails, as `CanDiscard` of `Simulator` says; a long
discard is the client's time-out before it. Both simulators are configured with the
same batch size, so the comparison is in batches.

### IpcWriter

`queue` is the channel to the actor, `current` the message it handles, `left` what of
the batch is not yet written, `file[f]` the connection whose file it holds. The FIFOs
take units: an angles batch is 512 bytes, less than PIPE_BUF, and a non-blocking write
of it is whole or not at all; a GCR batch is 8 or 16 KiB and may go in parts. Any batch
may be queued at any time while a connection is open, and the node may read at any pace,
stop, or leave. Alice's GCR file is /dev/null, a FIFO that never fills: a special case.

### Recalibration as PairPause

A simulator is `paused` while it awaits Synchronize, `realigned` from there to
`complete_pause`; the pair is `aligned` from the moment a client goes on to Resume until the
last Resume is through. A failing command and a lost process are `Exit`: the promise to the
others stands, a simulator that catches up does so only while every other one is held or has
ended. Phases, lines, time-outs and progress have no counterpart: they are what the detailed
module adds.

### SimulatorActor

`channel` is the mpsc channel to the actor, `hand` the message in `handle_message`, `left`
what `discard_batches` has still to generate: its batches are steps of their own, since each
is rate limited. `call` and `answer` are the one reply channel of each caller. `at` is the
main thread's place between its calls, which fixes what it may call next: sessions, a failed
batch (`next_batch` stops the session), the calls of `coordinate_runtime_pause`. The control
thread calls for attacks at any time. A panic comes out of `generate_correlation_batch` (an
empty range of error rates makes `random_range` panic): the thread unwinds, drops the reply
sender in its hand and then the receiver with all messages in it. The refinement counts the
batches of a discard only when the discard is complete.

### Correlation

A draw is its position in a generator's stream. `Draw` takes the fills of a batch in the
order of the code, four or five, from `rng`, and the draws of the error rate, none, one or
two, from `qber_rng`. Sides, settings, attacks and sessions are independent.

### FifoRecords

A batch has its events; a record is bytes 0 to 5 as one number (`low`) and bytes 6 and 7 as
another (`flags`), where the low bit of the counter and the result go into the lowest two
bits. `LowWeight` is the width of `low`, 2^48 in the code. The reader (external) puts the
counter together again, skips padding and unpacks nibbles.

### ControllerSession and FifoPaths

In `ControllerSession` a path leads to an inode; `ends` says which inode each process has
open or waits to open, `data` what is in it. The simulator opens all FIFOs at once, the
controller one after the other, and the simulator replaces inodes one by one when a
connection has ended. The register is `empty` while the controller, which opens it with
truncate, has not set its length again. `patient` says that the user starts the controller
only when the simulator waits for it, and is constant in a behaviour. Writing is whole or
dropped here; `IpcWriter` has the parts.
`FifoPaths` has the same loop with failing calls: each path is `fresh`, `used` or `missing`,
and `paths_state` is the code's `fifo_paths_state`.

### ControlConnections and Restarts

`ControlConnections` leaves out what commands do; a line is a command or garbage, and the
server's answers are kept per connection. `Restarts` adds `up` and `orphan` (the node's ends
belong to FIFOs that a new process has replaced) to `HardwareSession`; a new process has a
fresh simulator and empty FIFOs, and finds the register file as it was.

## 3. Runs

| Run | Module | Configuration | Shows |
| --- | --- | --- | --- |
| `runtime_status` | `RuntimeStatus` | 1 player, at most 5 notifications in flight | all safety, liveness and refinement properties of the status files |
| `shared_ready` | `RuntimeStatus` | 2 players, the default path for both | `NoFalseReady` fails (finding) |
| `runtime_control` | `RuntimeControl` | 1 simulator; one client with Pause, Synchronize, Resume, one with Pause, Synchronize, attack | flag, outstanding command, order of answers, liveness |
| `hardware_session` | `Restarts` | counters modulo 2, one GC batch in Alice's pipe, one crash | batch numbers, modulator, echo, register, disconnects |
| `stop_ignored` | `Restarts` | the same, no crash | `StopStops` fails (finding) |
| `session_drift` | `HardwareSession` | counters modulo 3, no crash | `Correlated` fails (finding) |
| `recalibration` | `Recalibration` | two clients, 1 batch per process, symmetry in the clients, registers set, at most one process ends | the comparison holds until acted on, one driver, never a wrong command, `PairPause` implemented |
| `recalibration_drift` | `Recalibration` | one client, 3 batches per process | `StreamsRealigned` fails (finding) |
| `idle_laggard` | `Recalibration` | the same | `LaggardCatchesUp` fails (finding) |
| `ipc_writer` | `IpcWriter` | 3 connections, FIFOs of 3 units, GCR batches of 2, 4 messages in the queue | batches stay whole and with their connection, a close returns |
| `simulator` | `SimulatorActor`, `Correlation`, `FifoRecords`, `FifoPaths`, `ControlConnections` | discards of at most 2 batches, 3 batches a side, batches of 4 events, 22 pulses a session; 4 failures; 2 connections of 3 lines | `AtomicSimulator` implemented, calls return, both sides draw the same, records decode as sent; no used FIFO is opened, each line has one answer in order |
| `controller_session` | `ControllerSession` | both players, patient or not, 3 runs of 2 batches | a run reads its own angles and ends; sessions end |

Each module defines a type invariant. The runs check those of `RuntimeStatus`,
`RuntimeControl`, `Recalibration` (with `HardwareSession`'s) and `IpcWriter`, where the bounds
on queues and FIFOs are part of it; the runs of the other modules are about the properties that
could fail, and there it is a theorem (section 5).

The modules of `simulator` share no variable; exploring them in every interleaving would
multiply their states and show nothing more. A variable `part` of `MCSimulator` says whose steps
a behaviour takes: the main thread opens its first session, there one of the modules runs and
the others stay in one initial state; or the main thread goes on by itself.

Bounds. Players with files of their own do not interact, so one is enough;
the theorems are for any number. `MaxEvents` stops the node from acknowledging
while 4 notifications are already on their way: each acknowledgement makes two,
so 5 is enough for a complete recalibration to run on top of the leftovers of
an earlier one. It is a bound of the model, not of the code: the kernel queue is far larger, and
the drain does not bound the channel, as a token in the watcher's hands gets past it. `MaxBacklog` bounds the
connections not yet accepted; the server takes one at a time, so one more shows
every order. Each request is sent at most once; the sets contain two competing Pauses and
two competing Synchronizes. `Modulus` bounds the counters: two numbers that are compared are
off by one if they are off, since one batch may be drawn twice, lost or left over at a time, and
counters modulo 2 show that; the theorem is for any period. In `session_drift`, where streams
drift, it is 3.
`MaxWire` is the pipe to Alice: Bob is never more than one batch ahead of what
his node has read, but Alice may lag by what her pipe holds; longer pipes
lengthen the lag and nothing else. `RegisterAtRest` lets the controller write a register only
while its runner is out of the loop: inside it nothing reads the register, so what is written
there may as well be written when the loop is left.

`MaxCrashes` 1 of `Restarts` lets either process crash at any point of any session; the theorems
are for any number of crashes.

`MaxBatches` of `Recalibration` bounds the batches a process generates by itself:
Bob alone needs two to be ahead in one session and in a later one, so 3, in the runs with one
client, leaves room for drift before and after a session change. `Modulus` is above everything
the processes can generate and discard, so counters do not wrap in these runs. In the run with
two clients one batch gives a lagging and a leading simulator. There, four bounds keep the
state space small, and none of them is needed by the proofs: both registers are set
(`RegistersSet`), and a simulator whose register is cleared is one that has not polled it, as
nothing is fair here; not both processes end (`OneIsLeft`), after which nothing is left to be
in step with; the time-outs that stand are one client's at a time (`OneGivesUp`); and a node
leaves after its simulator, Bob's also after Alice's (`NodesFollow`); `hardware_session`
explores the other orders. Each
client recalibrates once and every request can time out, which covers a client that leaves
and a later one. `Capacity` 3 and `GcrUnits` 2 of `IpcWriter` make a FIFO fill up between two
batches and in the middle of one; three connections are one before and one after
the one in question. `MaxQueue` 4 holds two batches, a close behind them and one message more.

In `simulator` two batches a discard have a state between them, in which the actor may break
and the other thread may ask; `Modulus` 4 is above what is in flight. Three batches a side let
one side run ahead through other sessions and attacks and the other catch up. `LowWeight` 8
makes a session of 22 pulses pass the last counter a record can carry, as 2^49 does; the pulse
counts are one per event, one more, and nearly three. In `controller_session` three runs are
one that is killed, one that meets what it left, and one after. Four failures of `FifoPaths`
can break one reset twice and the next one too.

Deadlock is checked in `runtime_status`, `shared_ready`, `hardware_session`, `stop_ignored`
and `session_drift`. It is not in the others, where clients run out of requests, runs, lines,
connections or batches, or a process may have ended for good.

## 4. Fairness

- `RuntimeStatus`: weak fairness of supervisor, watcher and node, which are
  threads and a polling process. Nothing obliges a client to resume a paused
  simulator or a process to end. Only the waiting part of the recalibration is
  claimed to complete.
- `RuntimeControl`: weak fairness of both threads and of opening a session (the
  node is there); strong fairness of polling the channel, since the main thread
  comes and goes between sessions and polls in each. A runner blocked in a GC read
  does not poll: that the node keeps the FIFO moving is an assumption here.
  Nothing is assumed of clients.
- `Restarts` (and so `HardwareSession`): weak fairness of the runner of each process that
  runs, and of the nodes' relaying. Sessions need not start or end, processes need not start.
- `IpcWriter`: weak fairness of the actor thread only. A node that neither reads nor
  leaves is allowed for ever; the retry every 10 ms is what makes `CloseReturns` true.
- `Recalibration`: safety only, no fairness.
- `SimulatorActor`: weak fairness of the actor thread and of the two callers' returns, once
  answered; nobody has to call, nothing has to panic.
- `ControllerSession`: weak fairness of the simulator's main thread, of the controller, and of
  each of the simulator's threads that opens a FIFO. Nobody has to start or kill a controller.
- `FifoPaths`: weak fairness of the main thread, including its opens: a node opens the FIFOs in
  the end. Failures are finite (`MaxFaults`). Sessions may last.
- `ControlConnections`: weak fairness of the server thread, and clients hang up some time after
  they have their answers. The latter is an assumption the code depends on (section 6).

## 5. Proofs

Every safety property but `NeverTruncated`, and every refinement, that the passing runs check is a
theorem, for every value of the constants that the named assumptions of the modules allow. Each is drawn from an
inductive invariant (the theorem `Invariance`, or `Invariant`), which TLC checked on the run's
instance before it was proved.

| Module | Theorems |
| --- | --- |
| `RuntimeStatus_proofs` | `TypeCorrect`, `ResetSafe` (`ResetOnlyWhileNodeIdle`), `ReadyHonest` (`NoFalseReady`), `AckStandsAlways`, `Refinement` (`ImplementsHandshake`) |
| `RuntimeControl_proofs` | `TypeCorrect`, `NoMutualWait` (`OneOutstanding`), `FlagCorrect` (`FlagMatchesPause`), `PausesExclude` (`NoPauseWhileRecalibrating`), `OkInOrderAlways` |
| `Restarts_proofs` | `TypeCorrect`, `GeneratesInLoopAlways`, `EchoesMatchAlways`, `SameNumberAlways` |
| `Recalibration_proofs` | `PairTypeCorrect`, `OneDriverAlways`, `RightCommandAlways`, `CountersRealignedAlways`, `ImplementsPairPauseHolds` |
| `IpcWriter_proofs` | `TypeCorrect`, `OwnConnectionAlways`, `AttachAcceptedAlways`, `WholeBatchesAlways` |
| `Simulator_proofs` | `DrawTypeCorrect`, `SameBatchesAlways`; `RecordsTypeCorrect`, `DecodesAsSentAlways`, `CountersRiseAlways`; `ActorTypeCorrect`, `NothingUnaccountedAlways`, `ImplementsAtomicHolds` |
| `ControllerSession_proofs` | `OwnAnglesAlways` |
| `Process_proofs` | `PathTypeCorrect`, `OpensFreshAlways`; `ConnTypeCorrect`, `AnswersPairedAlways` |

None of the properties is inductive; what follows is what has to be added, and why.

- **RuntimeStatus**, for any players whose ready files are distinct (`DistinctPaths`, without
  which `shared_ready` is the counterexample). That a token finds no stale file depends on
  when node_idle was last removed and on what the node has done since: the ready file exists
  exactly in the supervisor's serving states (or is still there while it begins); a node that
  holds an acknowledgement, or has written one, has seen the file gone; an idle file present
  while the supervisor waits was made in answer to this withdrawal, hence the node is
  `ack_written` or `idle` and cannot attach. `AckStands` is proved step by step from it: the
  only step that removes the file in those states would be the node's, and its place excludes it.
- **RuntimeControl**, for any clients, simulators and requests. Each server state fixes where
  its request is and whether a reply is there, and the flag is tied to the main thread's place
  and to a Pause on its way. `OkInOrder` needs in addition what clients know (`Order`): when the
  main thread is past a command, a client has been told so or has left, or the server still has
  the ok in its hands, and no request is in two places (`Lined`).
- **Restarts**, for any `Modulus`, any pipe to Alice and any number of crashes. `SameNumber`
  compares two runners that never meet, so the invariant (`Numbered`) follows the numbers
  through everything between them: from the one Alice expects, along her wire in steps of one,
  to the batch on its way to Bob's node and back and to Bob's counter; and it says that a side
  which connects later, or whose FIFOs were replaced under its node (`orphan`), finds the other
  at its beginning. The nodes decide which of it holds: the numbers run on through both only while
both are in one session (`Serves`), and a node whose session has not begun (`InSession`) has passed
nothing on, whatever the one before it left in the FIFO. `OneInFlight` says that at most one batch
is between Bob and his node.
- **Recalibration**, for any clients, overlapping and timing out anywhere. A client *owns* a
  simulator from its accepted Pause until its Resume is through, also after it has given up, as
  its request may still be in the line. `Exclusive` says that a simulator has one owner and the
  pair at most one client that has paused both; `Positions` ties the main thread's place to what
  its owner asks; `Comparable` says that the progress the owner knows is still the counter, and
  that the counter together with the batches of the Synchronize on its way is where both are to
  meet. The last needs the arithmetic of `Missing` modulo the period. Each statement about a place of
a main thread is about one that has not ended. The refinement of
  `PairPause` needs `InStep`: once a Resume is under way to one simulator that is realigned, all
  that are realigned have theirs under way or through. A step in which a process ends is `Exit` of
`PairPause`, wherever the other one stands.
- **IpcWriter**, for any capacity, queue and number of connections. The channel and the
  message in hand are described per phase of the connection (`Phases`): its attach alone, its
  batches, its close behind them, nothing.
- **Correlation**: a generator's position is a multiple of the batches drawn, and the last
  draws are those of the batch before it. **FifoRecords**: while the FIFOs hold a batch they hold
  its encoding (`Written`), and the counter read last is not above it; the rest is lemmas about
  `Encode` and `Pack`, about division and remainder for any weight and the spacing of counters.
- **SimulatorActor**, for discards of any length. Every message in the channel or in hand is
  owed an answer by a caller that waits, and no caller has two (`Messaging`); a discard half done
  is in a session that nothing can end (`Discarding`); what the main thread may call follows from
  its place (`Calling`); the counter is what it has taken, and what the answer on its way adds
  (`Accounted`). The refinement maps every step to a step of `AtomicSimulator` or a stutter:
  handling a message is the atomic step, except a discard, whose last batch is.
- **ControllerSession**, for any number of batches and runs, killed anywhere. With a patient
  user (`patient`), both processes always hold the inode the path leads to (`SameInodes`); the controller's
  order of opening makes the simulator's opens return in that order, the last one only by a
  controller that has all its ends (`InOrder`); a connection uses up a run (`Spent`), which
  bounds the inodes; the register is START from before the last open until the simulator has left
  its command loop (`Started`); and the batch of a run is in the pipe, with the simulator, or
  answered (`LockStep`). `OwnAngles` follows from `LockStep`.
- **FifoPaths**, for any list of FIFOs and any number of failures: a path behind the one
  being recreated is not used, and `paths_state` is `ReadyForOpen` only if none is.
  **ControlConnections**, for any clients and lines: the answers of a connection are as many as
  the lines read, less the one being served, and a waiting connection has not been touched.

The type invariant of `ControllerSession` has bounds on what the FIFOs hold for users of either
kind; the theorems use the typing of its variables alone, for a patient user (`Typing`). That is
the one type invariant that is not a theorem.

Only model-checked: `NeverTruncated`, which is about patient users only; liveness (`RecalibrationCompletes`, `ServerReturns`, `DisconnectNoticed`,
`CloseReturns`, `CallsReturn`, `RunsEnd`, `SessionsEnd`, `Reconnects`, `EachAnswered`), which
rests on fairness and so on ENABLED, and the provers treat neither. Of the properties of the
findings (section 6), `NoFalseReady` is a theorem when the paths are distinct; the others are false.

## 6. Findings

- **Shared ready file.** Both default configurations use `/tmp/qkd_ready`
  (`configs/src/ipc/mod.rs:64`), which README.md:121 warns against.
- **Session drift.** A node that leaves after Bob has generated and before Alice
  has read leaves Bob's stream one batch ahead; a new session resets the counters
  and not the streams. From then on Alice's angles do not belong to Bob's results,
  although all batch numbers agree (`SameNumber` holds, `Correlated` does not).
- **Counters are not streams.** `recalibrate_pair` compares `event_count`
  (`hw_sim_control/src/lib.rs:132`), which restarts with every session. After a drift, or with
  one simulator in a newer session, it discards the wrong number of batches, or none, and
  reports success (`CountersRealigned` holds, `StreamsRealigned` does not). Recalibrating
  does not repair a session drift.
- **Idle laggard.** A simulator paused while it waits for a start has its modulator off;
  if it is the one to catch up, `discard_batches` fails and the process ends
  (`supervisor.rs:336`).
- **Stop is never obeyed while generating.** A generating runner never looks at the register
  (`hardware_session/mod.rs:361`), so a Stop, which `simulator/src/ipc/mod.rs:10` says stops
  generation, does not; only a peer that leaves or a recalibration does. The run `stop_ignored`
  shows a register cleared for good and a runner that generates for ever (`StopStops`). Between
  sessions there is nothing to stop: the runner forgets the register when it enters the command
  loop (`RegisterForgotten`, a part of `GeneratesInLoop`), so it never even sees a falling edge.

What follows was seen while modelling. No run is devoted to it; each is behaviour
the modules have.

- **GC left for another node.** If GC reaches Alice before her START, and her node leaves and
  another opens the FIFO before the START comes, her first batches answer the GC of the first one:
  the runner does not look at the FIFO before a START (`stale`, the exception of `SameNumber`).
- **A pause is not only taken at batch boundaries** (README.md:69), but also after a batch is
  generated and before its angles are written (`hardware_session/mod.rs:380`, `:407`). The
  counters account for it, the node gets no angles.
- **A pause drops writes that wait.** It drops the connection, which raises `close_requested`,
  and a batch that waits for room in its FIFO is abandoned (`ipc/writer/actor.rs:156`), while
  README.md:69 says that a pause does not interrupt a write in progress.
- **A controller that starts too early blocks.** Between two sessions, until
  `SESSION_RESTART_DELAY` has passed and the FIFOs are recreated (`supervisor.rs:89`), its opens
  find inodes that are then unlinked. `simu_controller.rs:212` expects them not to block for
  long. Hence `patient` in `RunsEnd`, `OwnAngles` and `NeverTruncated`.
- **A restarted simulator may start at once.** Startup zeroes the init/reset register
  (`configs/src/ipc/mod.rs:343`) under a comment about a clean "stopped" state; the
  generation-start register, which the runner obeys, survives.
- **A silent client keeps the others out.** The server reads a connection until it ends
  (`runtime_control.rs:136`); `EachAnswered` needs clients that hang up.
- **A failed watcher is not reported.** `RuntimeStatusFiles` keeps a sender of its own
  (`runtime_status.rs:16`), so `recv` never fails and the error at line 51 cannot occur; the
  supervisor would wait for ever.

## 7. Not modelled, and limits

- Nobody resumes a simulator whose client has failed: the model has those states, and
  the code has no time-out for them. No text of the repository says otherwise, so no
  property does.
- In `HardwareSession` a node comes back only to a simulator that is opening its FIFOs or
  waits for a command. `ControllerSession` has the others, for one player. What a FIFO keeps is
  whole batches: a part of one, with which `read_exact` fails at end of file, counts as none
  (`EndOfFile`), also when a next node writes behind it.
- In `Recalibration` a process that has ended does not start again.
- `NeverTruncated` says nothing of impatient users, whose truncation can meet a poll
  (`PollTruncated`).
- How long a runner waits for its nodes, and with it a Pause (`hardware_session/mod.rs:115`);
  what a client that stays connected and silent does to the others.
- `decoy_states` is set for each process (`configs/src/backend/mod.rs:98`) and nothing compares
  the settings; with different ones the pair's batches differ. `SameBatches` is about equal ones.
- `PulsesAssumption` of `FifoRecords` excludes an efficiency above 1 (`configs/src/backend/mod.rs:92`,
  `sim_lib/src/simulation/mod.rs:49-55`), with which a batch has more events than pulses. No line
  of the configuration rejects one.
- The watcher of `RuntimeStatus` does not fail.
- Non-binary register values, which the code ignores, and read errors of the
  register, which it logs.
- Probabilities and the angle table: floating point, and irrelevant to positions in the
  stream. The inputs of the encodings are all settings, results and intensities.
- `SetAngles`, a message of the actor without a caller. The attack commands of
  `hw_sim_control`, which go to one or both simulators without coordination.
- The hardware parameters file, which is written and never read here; logging, command lines,
  configuration files, the PPS trigger.
- Time: every time-out may strike at any point, every delay may end at any point.

## 8. Plan

Done: all modules of section 2, the runs of section 3 and the theorems of section 5, which state
every refinement and, with one exception, every safety property of the passing runs. What could be added:

1. `ControllerSession`: its whole type invariant, for impatient users too, whose inodes are
   bounded by a different argument (a connection still uses up a run, but controllers may hold
   inodes that no path leads to).
2. Under which conditions `Correlated` and `StreamsRealigned` do hold (no node leaves between
   Bob's batch and Alice's, both simulators in their first session), as invariants of
   `HardwareSession` and `Recalibration` with an auxiliary variable that records the condition.
3. Enabledness of the supervisor's and the actors' steps in the states liveness starts from,
   as invariants (what a step's guard needs is there), which is the part of the liveness
   properties that the provers could treat.
