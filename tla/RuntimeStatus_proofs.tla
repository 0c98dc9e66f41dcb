------------------------ MODULE RuntimeStatus_proofs ------------------------
(***************************************************************************)
(* Proofs about RuntimeStatus, for any set of players with distinct        *)
(* hardware-ready paths and any bound on the notifications in flight.      *)
(***************************************************************************)
EXTENDS RuntimeStatus, TLAPS

DistinctPaths == \A p, q \in Players : ReadyPath[p] = ReadyPath[q] => p = q

\* Room is kept for the second event of an acknowledgement being written.
Room(p) == InFlight(p) + (IF node[p] = "ack_written" THEN 1 ELSE 0) <= MaxEvents

\* From the open connection to the end of begin_recalibration the node sees
\* the hardware as ready, so it does not acknowledge anything.
Served(p) ==
  /\ sup[p] \in Serving \cup Beginning => IsReady(p)
  /\ sup[p] = "session" => node[p] \in Attached
  /\ sup[p] \in Beginning => node[p] \in Attached \cup {"opening", "resuming"}
  /\ sup[p] \in {"drain", "unlink_ready"} => ~idle[p]

\* Once it is withdrawn, the file can only be this recalibration's answer.
Withdrawn(p) ==
  /\ sup[p] \in Waiting \cup Pausing => ~IsReady(p)
  /\ sup[p] \in Waiting => (idle[p] => node[p] \in {"ack_written", "idle"})
  /\ sup[p] \in Pausing => idle[p] /\ node[p] \in {"ack_written", "idle"}

PlayerInv(p) == Room(p) /\ Served(p) /\ Withdrawn(p)

IInv == TypeOK /\ \A p \in Players : PlayerInv(p)

USE ReadyPathAssumption, MaxEventsAssumption

\* A player whose own state a step leaves alone keeps its part of the invariant.
LEMMA Frame ==
  ASSUME NEW q \in Players, PlayerInv(q),
         sup'[q] = sup[q], node'[q] = node[q], idle'[q] = idle[q],
         ready'[ReadyPath[q]] = ready[ReadyPath[q]],
         inotify'[q] = inotify[q], batch'[q] = batch[q],
         sending'[q] = sending[q], tokens'[q] = tokens[q]
  PROVE  PlayerInv(q)'
BY DEF PlayerInv, Room, Served, Withdrawn, InFlight, IsReady

\* Bounded counters add up in Nat.
LEMMA Counters ==
  ASSUME TypeOK, NEW p \in Players
  PROVE  /\ inotify[p] \in Nat /\ batch[p] \in Nat /\ tokens[p] \in Nat
         /\ InFlight(p) \in Nat
BY DEF TypeOK, InFlight

\* The main thread preserves the invariant.
LEMMA SupervisorKeeps ==
  ASSUME DistinctPaths, IInv, NEW p \in Players, SupervisorStep(p)
  PROVE  IInv'
<1> USE DEF Move, files, watcher, SupStates, NodeStates, Starting, Serving, Beginning, Waiting, Pausing, Attached
<1>i. TypeOK /\ Room(p) /\ Served(p) /\ Withdrawn(p) BY DEF IInv, PlayerInv
<1>c. inotify[p] \in Nat /\ batch[p] \in Nat /\ tokens[p] \in Nat BY <1>i, Counters
<1>1. CASE StartUnlinkIdle(p)
  <2>1. TypeOK' /\ Room(p)' BY <1>i, <1>c, <1>1 DEF StartUnlinkIdle, TypeOK, Room, InFlight
  <2>2. Served(p)' /\ Withdrawn(p)' BY <1>i, <1>1 DEF StartUnlinkIdle, TypeOK, Served, Withdrawn, IsReady
  <2>3. ASSUME NEW q \in Players, q # p PROVE PlayerInv(q)'
    BY <2>3, <1>i, <1>1, Frame DEF StartUnlinkIdle, TypeOK, IInv, DistinctPaths
  <2> QED BY <2>1, <2>2, <2>3 DEF IInv, PlayerInv
<1>2. CASE StartWatcher(p)
  <2>1. TypeOK' /\ Room(p)' BY <1>i, <1>c, <1>2 DEF StartWatcher, TypeOK, Room, InFlight
  <2>2. Served(p)' /\ Withdrawn(p)' BY <1>i, <1>2 DEF StartWatcher, TypeOK, Served, Withdrawn, IsReady
  <2>3. ASSUME NEW q \in Players, q # p PROVE PlayerInv(q)'
    BY <2>3, <1>i, <1>2, Frame DEF StartWatcher, TypeOK, IInv, DistinctPaths
  <2> QED BY <2>1, <2>2, <2>3 DEF IInv, PlayerInv
<1>3. CASE StartAnnounce(p)
  <2>1. TypeOK' /\ Room(p)' BY <1>i, <1>c, <1>3 DEF StartAnnounce, TypeOK, Room, InFlight
  <2>2. Served(p)' /\ Withdrawn(p)' BY <1>i, <1>3 DEF StartAnnounce, TypeOK, Served, Withdrawn, IsReady
  <2>3. ASSUME NEW q \in Players, q # p PROVE PlayerInv(q)'
    BY <2>3, <1>i, <1>3, Frame DEF StartAnnounce, TypeOK, IInv, DistinctPaths
  <2> QED BY <2>1, <2>2, <2>3 DEF IInv, PlayerInv
<1>4. CASE Connect(p)
  <2>1. TypeOK' /\ Room(p)' BY <1>i, <1>c, <1>4 DEF Connect, TypeOK, Room, InFlight
  <2>2. Served(p)' /\ Withdrawn(p)' BY <1>i, <1>4 DEF Connect, TypeOK, Served, Withdrawn, IsReady
  <2>3. ASSUME NEW q \in Players, q # p PROVE PlayerInv(q)'
    BY <2>3, <1>i, <1>4, Frame DEF Connect, TypeOK, IInv, DistinctPaths
  <2> QED BY <2>1, <2>2, <2>3 DEF IInv, PlayerInv
<1>5. CASE BeginUnlinkIdle(p)
  <2>1. TypeOK' /\ Room(p)' BY <1>i, <1>c, <1>5 DEF BeginUnlinkIdle, TypeOK, Room, InFlight
  <2>2. Served(p)' /\ Withdrawn(p)' BY <1>i, <1>5 DEF BeginUnlinkIdle, TypeOK, Served, Withdrawn, IsReady
  <2>3. ASSUME NEW q \in Players, q # p PROVE PlayerInv(q)'
    BY <2>3, <1>i, <1>5, Frame DEF BeginUnlinkIdle, TypeOK, IInv, DistinctPaths
  <2> QED BY <2>1, <2>2, <2>3 DEF IInv, PlayerInv
<1>6. CASE BeginDrain(p)
  <2>1. TypeOK' /\ Room(p)' BY <1>i, <1>c, <1>6 DEF BeginDrain, TypeOK, Room, InFlight
  <2>2. Served(p)' /\ Withdrawn(p)' BY <1>i, <1>6 DEF BeginDrain, TypeOK, Served, Withdrawn, IsReady
  <2>3. ASSUME NEW q \in Players, q # p PROVE PlayerInv(q)'
    BY <2>3, <1>i, <1>6, Frame DEF BeginDrain, TypeOK, IInv, DistinctPaths
  <2> QED BY <2>1, <2>2, <2>3 DEF IInv, PlayerInv
<1>7. CASE BeginUnlinkReady(p)
  <2>1. TypeOK' /\ Room(p)' BY <1>i, <1>c, <1>7 DEF BeginUnlinkReady, TypeOK, Room, InFlight
  <2>2. Served(p)' /\ Withdrawn(p)' BY <1>i, <1>7 DEF BeginUnlinkReady, TypeOK, Served, Withdrawn, IsReady
  <2>3. ASSUME NEW q \in Players, q # p PROVE PlayerInv(q)'
    BY <2>3, <1>i, <1>7, Frame DEF BeginUnlinkReady, TypeOK, IInv, DistinctPaths
  <2> QED BY <2>1, <2>2, <2>3 DEF IInv, PlayerInv
<1>8. CASE WaitRecv(p)
  <2>1. TypeOK' /\ Room(p)' BY <1>i, <1>c, <1>8 DEF WaitRecv, TypeOK, Room, InFlight
  <2>2. Served(p)' /\ Withdrawn(p)' BY <1>i, <1>8 DEF WaitRecv, TypeOK, Served, Withdrawn, IsReady
  <2>3. ASSUME NEW q \in Players, q # p PROVE PlayerInv(q)'
    BY <2>3, <1>i, <1>8, Frame DEF WaitRecv, TypeOK, IInv, DistinctPaths
  <2> QED BY <2>1, <2>2, <2>3 DEF IInv, PlayerInv
<1>9. CASE WaitCheck(p)
  <2>1. TypeOK' /\ Room(p)' BY <1>i, <1>c, <1>9 DEF WaitCheck, TypeOK, Room, InFlight
  <2>2. Served(p)' /\ Withdrawn(p)' BY <1>i, <1>9 DEF WaitCheck, TypeOK, Served, Withdrawn, IsReady
  <2>3. ASSUME NEW q \in Players, q # p PROVE PlayerInv(q)'
    BY <2>3, <1>i, <1>9, Frame DEF WaitCheck, TypeOK, IInv, DistinctPaths
  <2> QED BY <2>1, <2>2, <2>3 DEF IInv, PlayerInv
<1>10. CASE PauseElapsed(p)
  <2>1. TypeOK' /\ Room(p)' BY <1>i, <1>c, <1>10 DEF PauseElapsed, TypeOK, Room, InFlight
  <2>2. Served(p)' /\ Withdrawn(p)' BY <1>i, <1>10 DEF PauseElapsed, TypeOK, Served, Withdrawn, IsReady
  <2>3. ASSUME NEW q \in Players, q # p PROVE PlayerInv(q)'
    BY <2>3, <1>i, <1>10, Frame DEF PauseElapsed, TypeOK, IInv, DistinctPaths
  <2> QED BY <2>1, <2>2, <2>3 DEF IInv, PlayerInv
<1>11. CASE ResetFifos(p)
  <2>1. TypeOK' /\ Room(p)' BY <1>i, <1>c, <1>11 DEF ResetFifos, TypeOK, Room, InFlight
  <2>2. Served(p)' /\ Withdrawn(p)' BY <1>i, <1>11 DEF ResetFifos, TypeOK, Served, Withdrawn, IsReady
  <2>3. ASSUME NEW q \in Players, q # p PROVE PlayerInv(q)'
    BY <2>3, <1>i, <1>11, Frame DEF ResetFifos, TypeOK, IInv, DistinctPaths
  <2> QED BY <2>1, <2>2, <2>3 DEF IInv, PlayerInv
<1>12. CASE Announce(p)
  <2>1. TypeOK' /\ Room(p)' BY <1>i, <1>c, <1>12 DEF Announce, TypeOK, Room, InFlight
  <2>2. Served(p)' /\ Withdrawn(p)' BY <1>i, <1>12 DEF Announce, TypeOK, Served, Withdrawn, IsReady
  <2>3. ASSUME NEW q \in Players, q # p PROVE PlayerInv(q)'
    BY <2>3, <1>i, <1>12, Frame DEF Announce, TypeOK, IInv, DistinctPaths
  <2> QED BY <2>1, <2>2, <2>3 DEF IInv, PlayerInv
<1> QED BY <1>1, <1>2, <1>3, <1>4, <1>5, <1>6, <1>7, <1>8, <1>9, <1>10, <1>11, <1>12 DEF SupervisorStep

\* The environment preserves the invariant.
LEMMA EnvironmentKeeps ==
  ASSUME DistinctPaths, IInv, NEW p \in Players, Environment(p)
  PROVE  IInv'
<1> USE DEF Move, files, watcher, SupStates, NodeStates, Starting, Serving, Beginning, Waiting, Pausing, Attached
<1>i. TypeOK /\ Room(p) /\ Served(p) /\ Withdrawn(p) BY DEF IInv, PlayerInv
<1>c. inotify[p] \in Nat /\ batch[p] \in Nat /\ tokens[p] \in Nat BY <1>i, Counters
<1>1. CASE SessionEnds(p)
  <2>1. TypeOK' /\ Room(p)' BY <1>i, <1>c, <1>1 DEF SessionEnds, TypeOK, Room, InFlight
  <2>2. Served(p)' /\ Withdrawn(p)' BY <1>i, <1>1 DEF SessionEnds, TypeOK, Served, Withdrawn, IsReady
  <2>3. ASSUME NEW q \in Players, q # p PROVE PlayerInv(q)'
    BY <2>3, <1>i, <1>1, Frame DEF SessionEnds, TypeOK, IInv, DistinctPaths
  <2> QED BY <2>1, <2>2, <2>3 DEF IInv, PlayerInv
<1>2. CASE TakePause(p)
  <2>1. TypeOK' /\ Room(p)' BY <1>i, <1>c, <1>2 DEF TakePause, TypeOK, Room, InFlight
  <2>2. Served(p)' /\ Withdrawn(p)' BY <1>i, <1>2 DEF TakePause, TypeOK, Served, Withdrawn, IsReady
  <2>3. ASSUME NEW q \in Players, q # p PROVE PlayerInv(q)'
    BY <2>3, <1>i, <1>2, Frame DEF TakePause, TypeOK, IInv, DistinctPaths
  <2> QED BY <2>1, <2>2, <2>3 DEF IInv, PlayerInv
<1>3. CASE Resume(p)
  <2>1. TypeOK' /\ Room(p)' BY <1>i, <1>c, <1>3 DEF Resume, TypeOK, Room, InFlight
  <2>2. Served(p)' /\ Withdrawn(p)' BY <1>i, <1>3 DEF Resume, TypeOK, Served, Withdrawn, IsReady
  <2>3. ASSUME NEW q \in Players, q # p PROVE PlayerInv(q)'
    BY <2>3, <1>i, <1>3, Frame DEF Resume, TypeOK, IInv, DistinctPaths
  <2> QED BY <2>1, <2>2, <2>3 DEF IInv, PlayerInv
<1>4. CASE Exit(p)
  <2>1. TypeOK' /\ Room(p)' BY <1>i, <1>c, <1>4 DEF Exit, TypeOK, Room, InFlight
  <2>2. Served(p)' /\ Withdrawn(p)' BY <1>i, <1>4 DEF Exit, TypeOK, Served, Withdrawn, IsReady
  <2>3. ASSUME NEW q \in Players, q # p PROVE PlayerInv(q)'
    BY <2>3, <1>i, <1>4, Frame DEF Exit, TypeOK, IInv, DistinctPaths
  <2> QED BY <2>1, <2>2, <2>3 DEF IInv, PlayerInv
<1>5. CASE Restart(p)
  <2>1. TypeOK' /\ Room(p)' BY <1>i, <1>c, <1>5 DEF Restart, TypeOK, Room, InFlight
  <2>2. Served(p)' /\ Withdrawn(p)' BY <1>i, <1>5 DEF Restart, TypeOK, Served, Withdrawn, IsReady
  <2>3. ASSUME NEW q \in Players, q # p PROVE PlayerInv(q)'
    BY <2>3, <1>i, <1>5, Frame DEF Restart, TypeOK, IInv, DistinctPaths
  <2> QED BY <2>1, <2>2, <2>3 DEF IInv, PlayerInv
<1> QED BY <1>1, <1>2, <1>3, <1>4, <1>5 DEF Environment

\* The watcher thread preserves the invariant.
LEMMA WatcherKeeps ==
  ASSUME DistinctPaths, IInv, NEW p \in Players, WatcherStep(p)
  PROVE  IInv'
<1> USE DEF Move, files, watcher, SupStates, NodeStates, Starting, Serving, Beginning, Waiting, Pausing, Attached
<1>i. TypeOK /\ Room(p) /\ Served(p) /\ Withdrawn(p) BY DEF IInv, PlayerInv
<1>c. inotify[p] \in Nat /\ batch[p] \in Nat /\ tokens[p] \in Nat BY <1>i, Counters
<1>1. CASE WatcherRead(p)
  <2>1. TypeOK' /\ Room(p)' BY <1>i, <1>c, <1>1 DEF WatcherRead, TypeOK, Room, InFlight
  <2>2. Served(p)' /\ Withdrawn(p)' BY <1>i, <1>1 DEF WatcherRead, TypeOK, Served, Withdrawn, IsReady
  <2>3. ASSUME NEW q \in Players, q # p PROVE PlayerInv(q)'
    BY <2>3, <1>i, <1>1, Frame DEF WatcherRead, TypeOK, IInv, DistinctPaths
  <2> QED BY <2>1, <2>2, <2>3 DEF IInv, PlayerInv
<1>2. CASE WatcherExamine(p)
  <2>1. TypeOK' /\ Room(p)' BY <1>i, <1>c, <1>2 DEF WatcherExamine, TypeOK, Room, InFlight
  <2>2. Served(p)' /\ Withdrawn(p)' BY <1>i, <1>2 DEF WatcherExamine, TypeOK, Served, Withdrawn, IsReady
  <2>3. ASSUME NEW q \in Players, q # p PROVE PlayerInv(q)'
    BY <2>3, <1>i, <1>2, Frame DEF WatcherExamine, TypeOK, IInv, DistinctPaths
  <2> QED BY <2>1, <2>2, <2>3 DEF IInv, PlayerInv
<1>3. CASE WatcherSend(p)
  <2>1. TypeOK' /\ Room(p)' BY <1>i, <1>c, <1>3 DEF WatcherSend, TypeOK, Room, InFlight
  <2>2. Served(p)' /\ Withdrawn(p)' BY <1>i, <1>3 DEF WatcherSend, TypeOK, Served, Withdrawn, IsReady
  <2>3. ASSUME NEW q \in Players, q # p PROVE PlayerInv(q)'
    BY <2>3, <1>i, <1>3, Frame DEF WatcherSend, TypeOK, IInv, DistinctPaths
  <2> QED BY <2>1, <2>2, <2>3 DEF IInv, PlayerInv
<1> QED BY <1>1, <1>2, <1>3 DEF WatcherStep

\* The node preserves the invariant.
LEMMA NodeKeeps ==
  ASSUME DistinctPaths, IInv, NEW p \in Players, NodeStep(p)
  PROVE  IInv'
<1> USE DEF Move, files, watcher, SupStates, NodeStates, Starting, Serving, Beginning, Waiting, Pausing, Attached
<1>i. TypeOK /\ Room(p) /\ Served(p) /\ Withdrawn(p) BY DEF IInv, PlayerInv
<1>c. inotify[p] \in Nat /\ batch[p] \in Nat /\ tokens[p] \in Nat BY <1>i, Counters
<1>1. CASE NodeEndOfFile(p)
  <2>1. TypeOK' /\ Room(p)' BY <1>i, <1>c, <1>1 DEF NodeEndOfFile, TypeOK, Room, InFlight
  <2>2. Served(p)' /\ Withdrawn(p)' BY <1>i, <1>1 DEF NodeEndOfFile, TypeOK, Served, Withdrawn, IsReady
  <2>3. ASSUME NEW q \in Players, q # p PROVE PlayerInv(q)'
    BY <2>3, <1>i, <1>1, Frame DEF NodeEndOfFile, TypeOK, IInv, DistinctPaths
  <2> QED BY <2>1, <2>2, <2>3 DEF IInv, PlayerInv
<1>2. CASE NodeSeesUnavailable(p)
  <2>1. TypeOK' /\ Room(p)' BY <1>i, <1>c, <1>2 DEF NodeSeesUnavailable, TypeOK, Room, InFlight
  <2>2. Served(p)' /\ Withdrawn(p)' BY <1>i, <1>2 DEF NodeSeesUnavailable, TypeOK, Served, Withdrawn, IsReady
  <2>3. ASSUME NEW q \in Players, q # p PROVE PlayerInv(q)'
    BY <2>3, <1>i, <1>2, Frame DEF NodeSeesUnavailable, TypeOK, IInv, DistinctPaths
  <2> QED BY <2>1, <2>2, <2>3 DEF IInv, PlayerInv
<1>3. CASE NodeCreatesIdle(p)
  <2>1. TypeOK' /\ Room(p)' BY <1>i, <1>c, <1>3 DEF NodeCreatesIdle, TypeOK, Room, InFlight, Notify
  <2>2. Served(p)' /\ Withdrawn(p)' BY <1>i, <1>3 DEF NodeCreatesIdle, TypeOK, Served, Withdrawn, IsReady
  <2>3. ASSUME NEW q \in Players, q # p PROVE PlayerInv(q)'
    BY <2>3, <1>i, <1>3, Frame DEF NodeCreatesIdle, TypeOK, IInv, DistinctPaths, Notify
  <2> QED BY <2>1, <2>2, <2>3 DEF IInv, PlayerInv
<1>4. CASE NodeClosesIdle(p)
  <2>1. TypeOK' /\ Room(p)' BY <1>i, <1>c, <1>4 DEF NodeClosesIdle, TypeOK, Room, InFlight, Notify
  <2>2. Served(p)' /\ Withdrawn(p)' BY <1>i, <1>4 DEF NodeClosesIdle, TypeOK, Served, Withdrawn, IsReady
  <2>3. ASSUME NEW q \in Players, q # p PROVE PlayerInv(q)'
    BY <2>3, <1>i, <1>4, Frame DEF NodeClosesIdle, TypeOK, IInv, DistinctPaths, Notify
  <2> QED BY <2>1, <2>2, <2>3 DEF IInv, PlayerInv
<1>5. CASE NodeResumes(p)
  <2>1. TypeOK' /\ Room(p)' BY <1>i, <1>c, <1>5 DEF NodeResumes, TypeOK, Room, InFlight
  <2>2. Served(p)' /\ Withdrawn(p)' BY <1>i, <1>5 DEF NodeResumes, TypeOK, Served, Withdrawn, IsReady
  <2>3. ASSUME NEW q \in Players, q # p PROVE PlayerInv(q)'
    BY <2>3, <1>i, <1>5, Frame DEF NodeResumes, TypeOK, IInv, DistinctPaths
  <2> QED BY <2>1, <2>2, <2>3 DEF IInv, PlayerInv
<1>6. CASE NodeRemovesIdle(p)
  <2>1. TypeOK' /\ Room(p)' BY <1>i, <1>c, <1>6 DEF NodeRemovesIdle, TypeOK, Room, InFlight
  <2>2. Served(p)' /\ Withdrawn(p)' BY <1>i, <1>6 DEF NodeRemovesIdle, TypeOK, Served, Withdrawn, IsReady
  <2>3. ASSUME NEW q \in Players, q # p PROVE PlayerInv(q)'
    BY <2>3, <1>i, <1>6, Frame DEF NodeRemovesIdle, TypeOK, IInv, DistinctPaths
  <2> QED BY <2>1, <2>2, <2>3 DEF IInv, PlayerInv
<1> QED BY <1>1, <1>2, <1>3, <1>4, <1>5, <1>6 DEF NodeStep

----------------------------------------------------------------------------
LEMMA InitKeeps == Init => IInv
BY DEF Init, IInv, TypeOK, PlayerInv, Room, Served, Withdrawn, InFlight, SupStates,
       NodeStates, Starting, Serving, Beginning, Waiting, Pausing, Attached

\* A stutter changes nothing the invariant reads.
LEMMA StutterKeeps == ASSUME IInv, UNCHANGED vars PROVE IInv'
<1>1. TypeOK' BY DEF IInv, TypeOK, vars
<1>2. \A p \in Players : PlayerInv(p)' BY Frame DEF IInv, vars
<1> QED BY <1>1, <1>2 DEF IInv

\* The inductive invariant holds in every state of every behaviour.
THEOREM Invariant == ASSUME DistinctPaths PROVE Spec => []IInv
<1>1. IInv /\ [Next]_vars => IInv'
  <2> SUFFICES ASSUME IInv, [Next]_vars PROVE IInv' OBVIOUS
  <2>1. CASE UNCHANGED vars BY <2>1, StutterKeeps
  <2>2. CASE Next
    BY <2>2, SupervisorKeeps, EnvironmentKeeps, WatcherKeeps, NodeKeeps DEF Next
  <2> QED BY <2>1, <2>2
<1> QED BY <1>1, InitKeeps, PTL DEF Spec

\* The variables of RuntimeStatus keep their types; in particular the channel
\* and the kernel queue stay within the bound the node's guard states.
THEOREM TypeCorrect == ASSUME DistinctPaths PROVE Spec => []TypeOK
<1>1. IInv => TypeOK BY DEF IInv
<1> QED BY <1>1, Invariant, PTL

\* Whatever tokens are left over from earlier recalibrations, finish_runtime_pause
\* recreates the FIFOs only while the node has let go of them.
THEOREM ResetSafe == ASSUME DistinctPaths PROVE Spec => []ResetOnlyWhileNodeIdle
<1>1. IInv => ResetOnlyWhileNodeIdle BY DEF IInv, PlayerInv, Withdrawn, ResetOnlyWhileNodeIdle
<1> QED BY <1>1, Invariant, PTL

\* With distinct paths no node reads "ready" from a recalibrating simulator.
THEOREM ReadyHonest == ASSUME DistinctPaths PROVE Spec => []NoFalseReady
<1>1. IInv => NoFalseReady BY DEF IInv, PlayerInv, Withdrawn, NoFalseReady
<1> QED BY <1>1, Invariant, PTL

----------------------------------------------------------------------------
(* Refinement: every step of RuntimeStatus is a step of Handshake, or none. *)

LEMMA BarStutter ==
  ASSUME \A q \in Players : PhaseOf(sup'[q]) = PhaseOf(sup[q])
                           /\ (node'[q] \in Attached <=> node[q] \in Attached)
  PROVE  UNCHANGED HS!vars
BY DEF HS!vars, phaseBar, attachedBar

\* One player changes phase, nobody attaches or detaches.
LEMMA BarShift ==
  ASSUME NEW p \in Players, NEW to, TypeOK, sup' = [sup EXCEPT ![p] = to], node' = node
  PROVE  HS!Shift(p, PhaseOf(sup[p]), PhaseOf(to))
<1>1. phaseBar' = [phaseBar EXCEPT ![p] = PhaseOf(to)] BY DEF phaseBar, TypeOK
<1>2. phaseBar[p] = PhaseOf(sup[p]) /\ attachedBar' = attachedBar BY DEF phaseBar, attachedBar
<1> QED BY <1>1, <1>2 DEF HS!Shift

\* One node attaches or detaches, nobody changes phase.
LEMMA BarAttach ==
  ASSUME NEW p \in Players, NEW to \in Attached, TypeOK, node' = [node EXCEPT ![p] = to],
         \A q \in Players : PhaseOf(sup'[q]) = PhaseOf(sup[q]),
         PhaseOf(sup[p]) = "serving", node[p] \notin Attached
  PROVE  HS!Attach(p)
<1>1. phaseBar[p] = "serving" /\ phaseBar' = phaseBar BY DEF phaseBar
<1>2. ~attachedBar[p] BY DEF attachedBar
<1>3. attachedBar' = [attachedBar EXCEPT ![p] = TRUE]
  <2>1. \A q \in Players : (node'[q] \in Attached) = IF q = p THEN TRUE ELSE node[q] \in Attached
    BY DEF TypeOK
  <2> QED BY <2>1, Zenon DEF attachedBar
<1> QED BY <1>1, <1>2, <1>3 DEF HS!Attach

LEMMA BarDetach ==
  ASSUME NEW p \in Players, NEW to, to \notin Attached, TypeOK, node' = [node EXCEPT ![p] = to],
         \A q \in Players : PhaseOf(sup'[q]) = PhaseOf(sup[q]), node[p] \in Attached
  PROVE  HS!Detach(p)
<1>1. phaseBar' = phaseBar BY DEF phaseBar
<1>2. attachedBar[p] BY DEF attachedBar
<1>3. attachedBar' = [attachedBar EXCEPT ![p] = FALSE]
  <2>1. ASSUME NEW q \in Players
        PROVE  (node'[q] \in Attached) = IF q = p THEN FALSE ELSE node[q] \in Attached
    <3>1. CASE q = p
      <4>1. (to \in Attached) = FALSE OBVIOUS
      <4> QED BY <3>1, <4>1 DEF TypeOK
    <3>2. CASE q # p BY <3>2 DEF TypeOK
    <3> QED BY <3>1, <3>2
  <2> QED BY <2>1, Zenon DEF attachedBar
<1> QED BY <1>1, <1>2, <1>3 DEF HS!Detach

LEMMA StepRefines ==
  ASSUME DistinctPaths, IInv, NEW p \in Players,
         SupervisorStep(p) \/ Environment(p) \/ WatcherStep(p) \/ NodeStep(p)
  PROVE  HS!Next \/ UNCHANGED HS!vars
<1> USE DEF Move, files, watcher, PhaseOf, Starting, Serving, Beginning, Waiting, Pausing
<1>i. TypeOK /\ Served(p) /\ Withdrawn(p) BY DEF IInv, PlayerInv
<1>1. CASE StartUnlinkIdle(p) BY <1>i, <1>1, BarStutter DEF StartUnlinkIdle, TypeOK
<1>2. CASE StartWatcher(p) BY <1>i, <1>2, BarStutter DEF StartWatcher, TypeOK
<1>3. CASE BeginUnlinkIdle(p) BY <1>i, <1>3, BarStutter DEF BeginUnlinkIdle, TypeOK
<1>4. CASE BeginDrain(p) BY <1>i, <1>4, BarStutter DEF BeginDrain, TypeOK
<1>5. CASE WaitRecv(p) BY <1>i, <1>5, BarStutter DEF WaitRecv, TypeOK
<1>6. CASE PauseElapsed(p) BY <1>i, <1>6, BarStutter DEF PauseElapsed, TypeOK
<1>7. CASE ResetFifos(p) BY <1>i, <1>7, BarStutter DEF ResetFifos, TypeOK
<1>8. CASE TakePause(p) BY <1>i, <1>8, BarStutter DEF TakePause, TypeOK
<1>9. CASE Resume(p) BY <1>i, <1>9, BarStutter DEF Resume, TypeOK
<1>10. CASE Restart(p) BY <1>i, <1>10, BarStutter DEF Restart, TypeOK
<1>11. CASE WatcherRead(p) BY <1>i, <1>11, BarStutter DEF WatcherRead, TypeOK
<1>12. CASE WatcherExamine(p) BY <1>i, <1>12, BarStutter DEF WatcherExamine, TypeOK
<1>13. CASE WatcherSend(p) BY <1>i, <1>13, BarStutter DEF WatcherSend, TypeOK
<1>14. CASE NodeCreatesIdle(p) BY <1>i, <1>14, BarStutter DEF NodeCreatesIdle, TypeOK, Attached
<1>15. CASE NodeClosesIdle(p) BY <1>i, <1>15, BarStutter DEF NodeClosesIdle, TypeOK, Attached
<1>16. CASE NodeResumes(p) BY <1>i, <1>16, BarStutter DEF NodeResumes, TypeOK, Attached
<1>17. CASE NodeRemovesIdle(p) BY <1>i, <1>17, BarStutter DEF NodeRemovesIdle, TypeOK, Attached
<1>18. CASE StartAnnounce(p)
  <2>1. HS!Shift(p, PhaseOf(sup[p]), PhaseOf("opening")) BY <1>i, <1>18, BarShift DEF StartAnnounce
  <2>2. PhaseOf(sup[p]) = "down" /\ PhaseOf("opening") = "serving" BY <1>18 DEF StartAnnounce
  <2> QED BY <2>1, <2>2 DEF HS!Start, HS!Next
<1>19. CASE BeginUnlinkReady(p)
  <2>1. HS!Shift(p, PhaseOf(sup[p]), PhaseOf("coordinate")) BY <1>i, <1>19, BarShift DEF BeginUnlinkReady
  <2>2. PhaseOf(sup[p]) = "serving" /\ PhaseOf("coordinate") = "withdrawn" BY <1>19 DEF BeginUnlinkReady
  <2> QED BY <2>1, <2>2 DEF HS!Withdraw, HS!Next
<1>20. CASE Announce(p)
  <2>1. HS!Shift(p, PhaseOf(sup[p]), PhaseOf("opening")) BY <1>i, <1>20, BarShift DEF Announce
  <2>2. PhaseOf(sup[p]) = "acknowledged" /\ PhaseOf("opening") = "serving" BY <1>20 DEF Announce
  <2> QED BY <2>1, <2>2 DEF HS!Announce, HS!Next
<1>21. CASE Exit(p)
  <2>1. HS!Shift(p, PhaseOf(sup[p]), PhaseOf("down")) BY <1>i, <1>21, BarShift DEF Exit
  <2>2. CASE PhaseOf(sup[p]) = "down"
    BY <2>2, <1>i, <1>21, BarStutter DEF Exit, TypeOK
  <2>3. CASE PhaseOf(sup[p]) # "down"
    <3>1. phaseBar[p] = PhaseOf(sup[p]) BY DEF phaseBar
    <3> QED BY <2>1, <2>3, <3>1 DEF HS!Stop, HS!Next
  <2> QED BY <2>2, <2>3
<1>22. CASE WaitCheck(p)
  <2>1. CASE ~idle[p] BY <2>1, <1>i, <1>22, BarStutter DEF WaitCheck, TypeOK
  <2>2. CASE idle[p]
    <3>1. HS!Shift(p, PhaseOf(sup[p]), PhaseOf("pausing")) BY <2>2, <1>i, <1>22, BarShift DEF WaitCheck
    <3>2. PhaseOf(sup[p]) = "withdrawn" /\ PhaseOf("pausing") = "acknowledged"
      BY <2>2, <1>22 DEF WaitCheck
    <3>3. ~attachedBar[p] BY <2>2, <1>i, <1>22 DEF WaitCheck, Withdrawn, attachedBar, Attached
    <3> QED BY <3>1, <3>2, <3>3 DEF HS!Acknowledge, HS!Next
  <2> QED BY <2>1, <2>2
<1>23. CASE Connect(p)
  <2>1. PICK to \in Attached : node' = [node EXCEPT ![p] = to]
    BY <1>23 DEF Connect, Attached
  <2>2. node[p] \notin Attached /\ PhaseOf(sup[p]) = "serving" BY <1>23 DEF Connect, Attached
  <2>3. \A q \in Players : PhaseOf(sup'[q]) = PhaseOf(sup[q]) BY <1>i, <1>23 DEF Connect, TypeOK
  <2> QED BY <1>i, <2>1, <2>2, <2>3, BarAttach DEF HS!Next
<1>24. CASE SessionEnds(p)
  <2>1. PICK to \in {"opening", "resuming"} : node' = [node EXCEPT ![p] = to]
    BY <1>i, <1>24 DEF SessionEnds, TypeOK
  <2>2. node[p] \in Attached /\ to \notin Attached BY <1>i, <1>24 DEF SessionEnds, Served, Attached
  <2>3. \A q \in Players : PhaseOf(sup'[q]) = PhaseOf(sup[q]) BY <1>i, <1>24 DEF SessionEnds, TypeOK
  <2> QED BY <1>i, <2>1, <2>2, <2>3, BarDetach DEF HS!Next
<1>25. CASE NodeEndOfFile(p)
  <2>1. PICK to \in {"opening", "resuming"} : node' = [node EXCEPT ![p] = to]
    BY <1>i, <1>25 DEF NodeEndOfFile, TypeOK
  <2>2. node[p] \in Attached /\ to \notin Attached BY <1>i, <1>25 DEF NodeEndOfFile, Served, Attached
  <2>3. \A q \in Players : PhaseOf(sup'[q]) = PhaseOf(sup[q]) BY <1>i, <1>25 DEF NodeEndOfFile, TypeOK
  <2> QED BY <1>i, <2>1, <2>2, <2>3, BarDetach DEF HS!Next
<1>26. CASE NodeSeesUnavailable(p)
  <2>1. CASE node[p] \notin Attached
    BY <2>1, <1>i, <1>26, BarStutter DEF NodeSeesUnavailable, TypeOK, Attached
  <2>2. CASE node[p] \in Attached
    <3>1. "acking" \notin Attached BY DEF Attached
    <3> QED BY <2>2, <3>1, <1>i, <1>26, BarDetach DEF NodeSeesUnavailable, HS!Next
  <2> QED BY <2>1, <2>2
<1> QED BY <1>1, <1>2, <1>3, <1>4, <1>5, <1>6, <1>7, <1>8, <1>9, <1>10, <1>11, <1>12, <1>13, <1>14, <1>15, <1>16, <1>17, <1>18, <1>19, <1>20, <1>21, <1>22, <1>23, <1>24, <1>25, <1>26
        DEF SupervisorStep, Environment, WatcherStep, NodeStep

\* The files, the kernel queue, the watcher and the channel implement the
\* abstract handshake for every set of players with distinct ready paths: the
\* hardware is rebuilt only between a node's answer and the next announcement.
THEOREM Refinement == ASSUME DistinctPaths PROVE Spec => ImplementsHandshake
<1>1. Init => HS!Init
  <2>1. Init => phaseBar = [p \in Players |-> "down"]
    <3>1. PhaseOf("start_unlink_idle") = "down" BY DEF PhaseOf, Starting, Serving, Beginning, Waiting
    <3> QED BY <3>1 DEF Init, phaseBar
  <2>2. Init => attachedBar = [p \in Players |-> FALSE]
    <3>1. ("opening" \in Attached) = FALSE BY DEF Attached
    <3> SUFFICES ASSUME Init PROVE attachedBar = [p \in Players |-> FALSE] OBVIOUS
    <3>2. \A p \in Players : (node[p] \in Attached) = FALSE BY <3>1 DEF Init
    <3> QED BY <3>2, Zenon DEF attachedBar
  <2> QED BY <2>1, <2>2 DEF HS!Init
<1>2. IInv /\ [Next]_vars => [HS!Next]_(HS!vars)
  <2> SUFFICES ASSUME IInv, [Next]_vars PROVE HS!Next \/ UNCHANGED HS!vars OBVIOUS
  <2>1. CASE UNCHANGED vars BY <2>1, BarStutter DEF vars
  <2>2. CASE Next BY <2>2, StepRefines DEF Next
  <2> QED BY <2>1, <2>2
<1> QED BY <1>1, <1>2, Invariant, PTL DEF Spec, HS!Spec, ImplementsHandshake

\* An acknowledgement the supervisor waits for, or has accepted, is taken back by
\* neither side: the watcher and the supervisor only look at the file, and a node
\* that has acknowledged removes it when the hardware is back, not before.
THEOREM AckStandsAlways == ASSUME DistinctPaths PROVE Spec => AckStands
<1>1. ASSUME IInv, [Next]_vars, NEW p \in Players,
             idle[p], sup[p] \in Waiting \cup Pausing
      PROVE  idle'[p]
  <2>1. TypeOK /\ Withdrawn(p) BY <1>1 DEF IInv, PlayerInv
  <2>2. sup[p] \notin {"start_unlink_idle", "unlink_idle"} BY <1>1 DEF Waiting, Pausing
  <2>3. node[p] \notin {"resuming", "attached_unacked"} BY <1>1, <2>1 DEF Withdrawn
  <2>4. CASE UNCHANGED vars BY <1>1, <2>4 DEF vars
  <2>5. ASSUME NEW q \in Players, SupervisorStep(q) \/ Environment(q) PROVE idle'[p]
    <3>1. CASE StartUnlinkIdle(q) \/ BeginUnlinkIdle(q)
      BY <1>1, <2>1, <2>2, <3>1 DEF StartUnlinkIdle, BeginUnlinkIdle, Move, TypeOK
    <3>2. CASE ~(StartUnlinkIdle(q) \/ BeginUnlinkIdle(q))
      <4>1. idle' = idle
        BY <2>5, <3>2 DEF SupervisorStep, Environment, StartWatcher, StartAnnounce, Connect, BeginDrain,
             BeginUnlinkReady, WaitRecv, WaitCheck, PauseElapsed, ResetFifos, Announce, SessionEnds,
             TakePause, Resume, Exit, Restart, files
      <4> QED BY <1>1, <4>1
    <3> QED BY <3>1, <3>2
  <2>6. ASSUME NEW q \in Players, WatcherStep(q) PROVE idle'[p]
    BY <1>1, <2>6 DEF WatcherStep, WatcherRead, WatcherExamine, WatcherSend, files
  <2>7. ASSUME NEW q \in Players, NodeStep(q) PROVE idle'[p]
    <3>1. CASE NodeRemovesIdle(q)
      BY <1>1, <2>1, <2>3, <3>1 DEF NodeRemovesIdle, TypeOK
    <3>2. CASE NodeCreatesIdle(q)
      BY <1>1, <2>1, <3>2 DEF NodeCreatesIdle, TypeOK
    <3>3. CASE ~(NodeRemovesIdle(q) \/ NodeCreatesIdle(q))
      BY <1>1, <2>7, <3>3 DEF NodeStep, NodeEndOfFile, NodeSeesUnavailable, NodeClosesIdle, NodeResumes, files
    <3> QED BY <3>1, <3>2, <3>3
  <2> QED BY <1>1, <2>4, <2>5, <2>6, <2>7 DEF Next
<1>2. IInv /\ [Next]_vars =>
        [\A p \in Players :
           idle[p] /\ sup[p] \in Waiting \cup Pausing /\ sup'[p] # "down" => idle'[p]]_vars
  BY <1>1
<1> QED BY <1>2, Invariant, PTL DEF Spec, AckStands
=============================================================================
