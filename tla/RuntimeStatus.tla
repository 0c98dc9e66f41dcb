--------------------------- MODULE RuntimeStatus ---------------------------
(***************************************************************************)
(* The recalibration handshake between a simulator process and the gc node *)
(* next to it, carried by two files: the simulator owns "qkd_ready", the   *)
(* node owns "node_idle", and an inotify watcher thread of the simulator   *)
(* turns every appearance of node_idle into a token on an mpsc channel.    *)
(*                                                                         *)
(* Four actors interleave for each player: the supervisor (the main        *)
(* thread, simulator/src/hardware_session/supervisor.rs), the watcher      *)
(* thread (simulator/src/runtime_status.rs), the kernel's inotify queue,   *)
(* and the node.  The node is not part of the repository: its actions      *)
(* (Node...) follow what README.md:98-125 requires of it.                  *)
(***************************************************************************)
EXTENDS Naturals

CONSTANTS
  Players,      \* the simulator/node pairs
  ReadyFiles,   \* the paths a hardware-ready file may have
  ReadyPath,    \* qkd_ready_path of each player
  MaxEvents     \* bound on the idle notifications in flight, per player

ASSUME ReadyPathAssumption == ReadyPath \in [Players -> ReadyFiles]
ASSUME MaxEventsAssumption == MaxEvents \in Nat \ {0, 1}

VARIABLES
  ready,     \* ready[f]: the hardware-ready file f exists
  idle,      \* idle[p]: the node_idle file of p exists
  sup,       \* where the main thread of p stands
  node,      \* what the gc node of p is doing
  inotify,   \* kernel events naming node_idle that the watcher has not read
  batch,     \* events the watcher has read and not yet examined
  sending,   \* the watcher has seen the file and is about to send a token
  tokens     \* tokens in the channel

files == <<ready, idle>>
watcher == <<inotify, batch, sending, tokens>>
vars == <<ready, idle, sup, node, inotify, batch, sending, tokens>>

Starting == {"start_unlink_idle", "start_watcher", "start_announce"}
Serving == {"opening", "session"}
Beginning == {"unlink_idle", "drain", "unlink_ready"}
Waiting == {"coordinate", "wait", "check"}
Pausing == {"pausing", "resetting", "announcing"}
SupStates == {"down"} \cup Starting \cup Serving \cup Beginning \cup Waiting \cup Pausing

\* The node holds its ends of the FIFOs in the Attached states only.  It
\* acknowledges by creating the file and closing it, two kernel events.
Attached == {"attached", "attached_unacked"}
NodeStates == Attached \cup {"opening", "acking", "ack_written", "idle", "resuming"}

IsReady(p) == ready[ReadyPath[p]]

\* The watch exists once start_node_idle_watcher has returned; before that,
\* and while no process runs, the kernel queues nothing.
Watching(p) == sup[p] \notin {"down", "start_unlink_idle", "start_watcher"}

InFlight(p) == inotify[p] + batch[p] + (IF sending[p] THEN 1 ELSE 0) + tokens[p]

TypeOK ==
  /\ ready \in [ReadyFiles -> BOOLEAN]
  /\ idle \in [Players -> BOOLEAN]
  /\ sup \in [Players -> SupStates]
  /\ node \in [Players -> NodeStates]
  /\ inotify \in [Players -> 0..MaxEvents]
  /\ batch \in [Players -> 0..MaxEvents]
  /\ sending \in [Players -> BOOLEAN]
  /\ tokens \in [Players -> 0..MaxEvents]

\* The simulators are started next to nodes that wait for the hardware; a
\* previous run may have left either file behind.
Init ==
  /\ ready \in [ReadyFiles -> BOOLEAN]
  /\ idle \in [Players -> BOOLEAN]
  /\ sup = [p \in Players |-> "start_unlink_idle"]
  /\ node = [p \in Players |-> "opening"]
  /\ inotify = [p \in Players |-> 0]
  /\ batch = [p \in Players |-> 0]
  /\ sending = [p \in Players |-> FALSE]
  /\ tokens = [p \in Players |-> 0]

----------------------------------------------------------------------------
(* The main thread.                                                        *)

Move(p, from, to) == sup[p] = from /\ sup' = [sup EXCEPT ![p] = to]

\* RuntimeStatusFiles::initialize
StartUnlinkIdle(p) ==
  /\ Move(p, "start_unlink_idle", "start_watcher")
  /\ idle' = [idle EXCEPT ![p] = FALSE]
  /\ UNCHANGED <<ready, node, watcher>>

StartWatcher(p) ==
  /\ Move(p, "start_watcher", "start_announce")
  /\ UNCHANGED <<files, node, watcher>>

StartAnnounce(p) ==
  /\ Move(p, "start_announce", "opening")
  /\ ready' = [ready EXCEPT ![ReadyPath[p]] = TRUE]
  /\ UNCHANGED <<idle, node, watcher>>

\* open_fifo_connection returns once both ends of every FIFO are open.
Connect(p) ==
  /\ Move(p, "opening", "session")
  /\ \/ node[p] = "opening" /\ node' = [node EXCEPT ![p] = "attached"]
     \/ node[p] = "resuming" /\ node' = [node EXCEPT ![p] = "attached_unacked"]
  /\ UNCHANGED <<files, watcher>>

\* The session ends without a recalibration: end of file from the node, or a
\* stop.  The FIFOs are recreated and opened again, the files stay.
SessionEnds(p) ==
  /\ Move(p, "session", "opening")
  /\ node' = [node EXCEPT ![p] = IF node[p] = "attached_unacked" THEN "resuming" ELSE "opening"]
  /\ UNCHANGED <<files, watcher>>

\* A pause is taken from the control channel: the runner returns
\* RecalibrationRequested and is dropped, and coordinate_runtime_pause starts.
TakePause(p) ==
  /\ Move(p, "session", "unlink_idle")
  /\ UNCHANGED <<files, node, watcher>>

\* Faulty variant: hardware-ready is withdrawn before the channel is drained.
BeginUnlinkBoth(p) ==
  /\ Move(p, "unlink_idle", "drain")
  /\ idle' = [idle EXCEPT ![p] = FALSE]
  /\ ready' = [ready EXCEPT ![ReadyPath[p]] = FALSE]
  /\ UNCHANGED <<node, watcher>>

\* RuntimeStatusFiles::begin_recalibration, three system calls.
BeginUnlinkIdle(p) ==
  /\ Move(p, "unlink_idle", "drain")
  /\ idle' = [idle EXCEPT ![p] = FALSE]
  /\ UNCHANGED <<ready, node, watcher>>

\* drain_node_idle_events empties the channel.  What the watcher has read and
\* not yet sent is out of its reach.
BeginDrain(p) ==
  /\ Move(p, "drain", "unlink_ready")
  /\ tokens' = [tokens EXCEPT ![p] = 0]
  /\ UNCHANGED <<files, node, inotify, batch, sending>>

BeginUnlinkReady(p) ==
  /\ Move(p, "unlink_ready", "coordinate")
  /\ ready' = [ready EXCEPT ![ReadyPath[p]] = FALSE]
  /\ UNCHANGED <<idle, node, watcher>>

\* Synchronize and Resume have been served (module RuntimeControl).
Resume(p) ==
  /\ Move(p, "coordinate", "wait")
  /\ UNCHANGED <<files, node, watcher>>

\* wait_for_node_idle: a token is only a hint, the file decides.
WaitRecv(p) ==
  /\ Move(p, "wait", "check")
  /\ tokens[p] > 0
  /\ tokens' = [tokens EXCEPT ![p] = @ - 1]
  /\ UNCHANGED <<files, node, inotify, batch, sending>>

\* Faulty variants: a token alone ends the wait; the wait consumes the file.
WaitCheckUnchecked(p) ==
  /\ Move(p, "check", "pausing")
  /\ UNCHANGED <<files, node, watcher>>

WaitCheckConsuming(p) ==
  /\ \/ idle[p] /\ Move(p, "check", "pausing") /\ idle' = [idle EXCEPT ![p] = FALSE]
     \/ ~idle[p] /\ Move(p, "check", "wait") /\ UNCHANGED idle
  /\ UNCHANGED <<ready, node, watcher>>

WaitCheck(p) ==
  /\ \/ idle[p] /\ Move(p, "check", "pausing")
     \/ ~idle[p] /\ Move(p, "check", "wait")
  /\ UNCHANGED <<files, node, watcher>>

\* Faulty variant: readiness is announced before the FIFOs are recreated.
PauseElapsedEarlyReady(p) ==
  /\ Move(p, "pausing", "resetting")
  /\ ready' = [ready EXCEPT ![ReadyPath[p]] = TRUE]
  /\ UNCHANGED <<idle, node, watcher>>

\* finish_runtime_pause after the wait: sleep, reset_ipc_fifos, create_qkd_ready.
PauseElapsed(p) ==
  /\ Move(p, "pausing", "resetting")
  /\ UNCHANGED <<files, node, watcher>>

ResetFifos(p) ==
  /\ Move(p, "resetting", "announcing")
  /\ UNCHANGED <<files, node, watcher>>

Announce(p) ==
  /\ Move(p, "announcing", "opening")
  /\ ready' = [ready EXCEPT ![ReadyPath[p]] = TRUE]
  /\ UNCHANGED <<idle, node, watcher>>

\* The supervisor returns after an error, or the process is killed: the main
\* thread and the watcher end with it, the files keep their last state.
Exit(p) ==
  /\ sup[p] # "down"
  /\ sup' = [sup EXCEPT ![p] = "down"]
  /\ inotify' = [inotify EXCEPT ![p] = 0]
  /\ batch' = [batch EXCEPT ![p] = 0]
  /\ sending' = [sending EXCEPT ![p] = FALSE]
  /\ tokens' = [tokens EXCEPT ![p] = 0]
  /\ UNCHANGED <<files, node>>

\* main.rs: a new process runs setup_ipc_fifos and then initialize.
Restart(p) ==
  /\ Move(p, "down", "start_unlink_idle")
  /\ UNCHANGED <<files, node, watcher>>

----------------------------------------------------------------------------
(* The watcher thread.                                                     *)

\* read_events returns everything queued.
WatcherRead(p) ==
  /\ batch[p] = 0 /\ ~sending[p] /\ inotify[p] > 0
  /\ batch' = [batch EXCEPT ![p] = inotify[p]]
  /\ inotify' = [inotify EXCEPT ![p] = 0]
  /\ UNCHANGED <<files, sup, node, sending, tokens>>

\* Faulty variant: the examined event is not taken from the batch.
WatcherExamineAgain(p) ==
  /\ batch[p] > 0 /\ ~sending[p]
  /\ sending' = [sending EXCEPT ![p] = idle[p]]
  /\ UNCHANGED <<files, sup, node, inotify, batch, tokens>>

\* An event counts only if the file still exists when it is examined.
WatcherExamine(p) ==
  /\ batch[p] > 0 /\ ~sending[p]
  /\ batch' = [batch EXCEPT ![p] = @ - 1]
  /\ sending' = [sending EXCEPT ![p] = idle[p]]
  /\ UNCHANGED <<files, sup, node, inotify, tokens>>

WatcherSend(p) ==
  /\ sending[p]
  /\ sending' = [sending EXCEPT ![p] = FALSE]
  /\ tokens' = [tokens EXCEPT ![p] = @ + 1]
  /\ UNCHANGED <<files, sup, node, inotify, batch>>

----------------------------------------------------------------------------
(* The gc node (external).                                                 *)

Notify(p) == inotify' = [inotify EXCEPT ![p] = IF Watching(p) THEN @ + 1 ELSE @]

\* The simulator has dropped its connection: end of file.
NodeEndOfFile(p) ==
  /\ node[p] \in Attached /\ sup[p] # "session"
  /\ node' = [node EXCEPT ![p] = IF @ = "attached_unacked" THEN "resuming" ELSE "opening"]
  /\ UNCHANGED <<files, sup, watcher>>

\* The node polls the hardware-ready file; once it is gone it closes its FIFOs.
NodeSeesUnavailable(p) ==
  /\ node[p] \in Attached \cup {"opening", "resuming"} /\ ~IsReady(p)
  /\ node' = [node EXCEPT ![p] = "acking"]
  /\ UNCHANGED <<files, sup, watcher>>

\* It acknowledges by writing node_idle: created (an event), then closed (another).
NodeCreatesIdle(p) ==
  /\ node[p] = "acking" /\ InFlight(p) + 2 <= MaxEvents
  /\ node' = [node EXCEPT ![p] = "ack_written"]
  /\ idle' = [idle EXCEPT ![p] = TRUE]
  /\ Notify(p)
  /\ UNCHANGED <<ready, sup, batch, sending, tokens>>

NodeClosesIdle(p) ==
  /\ node[p] = "ack_written"
  /\ node' = [node EXCEPT ![p] = "idle"]
  /\ Notify(p)
  /\ UNCHANGED <<files, sup, batch, sending, tokens>>

\* It sees the hardware again, and opens the FIFOs; it removes its own
\* acknowledgement before or after they are connected.
NodeResumes(p) ==
  /\ node[p] = "idle" /\ IsReady(p)
  /\ node' = [node EXCEPT ![p] = "resuming"]
  /\ UNCHANGED <<files, sup, watcher>>

NodeRemovesIdle(p) ==
  /\ \/ node[p] = "resuming" /\ node' = [node EXCEPT ![p] = "opening"]
     \/ node[p] = "attached_unacked" /\ node' = [node EXCEPT ![p] = "attached"]
  /\ idle' = [idle EXCEPT ![p] = FALSE]
  /\ UNCHANGED <<ready, sup, watcher>>

----------------------------------------------------------------------------
SupervisorStep(p) ==
  \/ StartUnlinkIdle(p) \/ StartWatcher(p) \/ StartAnnounce(p) \/ Connect(p)
  \/ BeginUnlinkIdle(p) \/ BeginDrain(p) \/ BeginUnlinkReady(p)
  \/ WaitRecv(p) \/ WaitCheck(p) \/ PauseElapsed(p) \/ ResetFifos(p) \/ Announce(p)

\* What a controller, an operator or a failure decides.
Environment(p) == SessionEnds(p) \/ TakePause(p) \/ Resume(p) \/ Exit(p) \/ Restart(p)

WatcherStep(p) == WatcherRead(p) \/ WatcherExamine(p) \/ WatcherSend(p)

NodeStep(p) ==
  \/ NodeEndOfFile(p) \/ NodeSeesUnavailable(p) \/ NodeCreatesIdle(p)
  \/ NodeClosesIdle(p) \/ NodeResumes(p) \/ NodeRemovesIdle(p)

Next == \E p \in Players : SupervisorStep(p) \/ Environment(p) \/ WatcherStep(p) \/ NodeStep(p)

Spec == Init /\ [][Next]_vars

\* Threads are scheduled, and a node keeps polling; nothing obliges a client to
\* resume a paused simulator, nor a process to exit.
Fairness ==
  \A p \in Players : /\ WF_vars(SupervisorStep(p))
                     /\ WF_vars(WatcherStep(p))
                     /\ WF_vars(NodeStep(p))

FairSpec == Spec /\ Fairness

----------------------------------------------------------------------------
\* The FIFOs are recreated, and hardware-ready announced again, only while the
\* node has closed its ends in answer to this withdrawal: a token left over
\* from an earlier recalibration never stands in for the node's answer.
ResetOnlyWhileNodeIdle ==
  \A p \in Players : sup[p] \in Pausing => node[p] \in {"ack_written", "idle"} /\ idle[p]

\* A node never reads "ready" from its simulator's file while that simulator is
\* recalibrating (README.md:121).
NoFalseReady ==
  \A p \in Players : sup[p] \in Waiting \cup Pausing => ~IsReady(p)

\* Until the process ends, no step of either side takes back an acknowledgement
\* the supervisor is waiting for or has accepted (README.md:104: the new one is
\* left for the node to remove when it resumes).
AckStands ==
  [][\A p \in Players :
       idle[p] /\ sup[p] \in Waiting \cup Pausing /\ sup'[p] # "down" => idle'[p]]_vars

\* A supervisor that waits for the node is always answered: no acknowledgement
\* is lost between the file, the kernel queue, the watcher and the channel.
RecalibrationCompletes ==
  \A p \in Players : sup[p] = "wait" ~> sup[p] \in {"opening", "down"}

----------------------------------------------------------------------------
\* The handshake as its users see it.
PhaseOf(s) ==
  CASE s \in {"down"} \cup Starting -> "down"
    [] s \in Serving \cup Beginning -> "serving"
    [] s \in Waiting -> "withdrawn"
    [] OTHER -> "acknowledged"

phaseBar == [p \in Players |-> PhaseOf(sup[p])]

attachedBar == [p \in Players |-> node[p] \in Attached]

HS == INSTANCE Handshake WITH phase <- phaseBar, attached <- attachedBar

\* The files, the queue, the watcher and the channel together implement the
\* abstract handshake: every step is one of its steps or a stutter.
ImplementsHandshake == HS!Spec
=============================================================================
