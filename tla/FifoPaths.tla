------------------------------ MODULE FifoPaths ------------------------------
(***************************************************************************)
(* The supervisor's loop (HardwareSessionSupervisor::run) seen from the    *)
(* FIFO paths it must keep in order: after every connection they are       *)
(* unlinked and created again, one by one, by system calls that may fail   *)
(* half way (reset_ipc_fifos and ensure_fifo_exists in                     *)
(* configs/src/ipc/mod.rs), and only then opened.                          *)
(***************************************************************************)
EXTENDS Naturals, Sequences

CONSTANTS
  Fifos,       \* the paths, in the order in which they are recreated
  MaxFaults    \* bound on the system calls that fail and the paths removed

ASSUME FifosAssumption == Fifos \in Seq(STRING) /\ Fifos # <<>>
ASSUME MaxFaultsAssumption == MaxFaults \in Nat

VARIABLES
  sup,           \* where the supervisor stands
  paths_state,   \* fifo_paths_state
  fifo,          \* what is at each path, "used" once a connection has opened it
  next,          \* the path to recreate next
  faults         \* failures so far

pathVars == <<sup, paths_state, fifo, next, faults>>

Paths == DOMAIN Fifos

PathTypeOK ==
  /\ sup \in {"top", "reset", "open", "session", "pause", "returned"}
  /\ paths_state \in {"ReadyForOpen", "ResetRequired"}
  /\ fifo \in [Paths -> {"fresh", "used", "missing"}]
  /\ next \in Paths
  /\ faults \in 0..MaxFaults

\* setup_ipc_fifos has succeeded, or the process would not have come here.
PathInit ==
  /\ sup = "top" /\ paths_state = "ReadyForOpen"
  /\ fifo = [i \in Paths |-> "fresh"]
  /\ next = 1 /\ faults = 0

Fault == faults < MaxFaults /\ faults' = faults + 1

----------------------------------------------------------------------------
Begin ==
  /\ sup = "top"
  /\ sup' = IF paths_state = "ResetRequired" THEN "reset" ELSE "open"
  /\ UNCHANGED <<paths_state, fifo, next, faults>>

\* Where a reset leads: the supervisor's own goes on to the opens; the one that
\* ends a recalibration goes back to the top of the loop.
AfterReset ==
  IF sup = "pause" THEN sup' = "top" /\ paths_state' = "ReadyForOpen"
                   ELSE sup' = "open" /\ UNCHANGED paths_state

\* Faulty variant: the first path is done again and again.
RecreateFirstAgain ==
  /\ sup \in {"reset", "pause"}
  /\ fifo' = [fifo EXCEPT ![1] = "fresh"]
  /\ UNCHANGED <<sup, paths_state, next, faults>>

\* ensure_fifo_exists for the next path.
Recreate ==
  /\ sup \in {"reset", "pause"}
  /\ fifo' = [fifo EXCEPT ![next] = "fresh"]
  /\ IF next = Len(Fifos)
       THEN next' = 1 /\ AfterReset
       ELSE next' = next + 1 /\ UNCHANGED <<sup, paths_state>>
  /\ UNCHANGED faults

\* It fails, before the path is removed or before it is created again: the
\* supervisor tries the whole reset again, a recalibration ends the process.
RecreateFails ==
  /\ sup \in {"reset", "pause"} /\ Fault
  /\ \/ UNCHANGED fifo
     \/ fifo' = [fifo EXCEPT ![next] = "missing"]
  /\ sup' = IF sup = "pause" THEN "returned" ELSE "top"
  /\ next' = 1
  /\ UNCHANGED paths_state

\* The paths a thread of open_fifo_connection has opened.
Opened == [i \in Paths |-> IF fifo[i] = "fresh" THEN "used" ELSE fifo[i]]

OpenSucceeds ==
  /\ sup = "open" /\ \A i \in Paths : fifo[i] # "missing"
  /\ sup' = "session" /\ fifo' = Opened
  /\ UNCHANGED <<paths_state, next, faults>>

\* FifoConnectionError::Open, once every thread is joined: the nodes may have
\* opened the paths that are there.
OpenFails ==
  /\ sup = "open" /\ \E i \in Paths : fifo[i] = "missing"
  /\ sup' = "top" /\ fifo' = Opened
  /\ paths_state' = "ResetRequired"
  /\ UNCHANGED <<next, faults>>

\* FifoConnection::new fails: any other FifoConnectionError ends the supervisor.
InitializeFails ==
  /\ sup = "open" /\ \A i \in Paths : fifo[i] # "missing"
  /\ Fault
  /\ sup' = "returned" /\ fifo' = Opened
  /\ UNCHANGED <<paths_state, next>>

\* Faulty variant: paths stay as they are after a clean end.
SessionEndsUnreset ==
  /\ sup = "session"
  /\ sup' = "top" /\ paths_state' = "ReadyForOpen"
  /\ UNCHANGED <<fifo, next, faults>>

\* Stopped, PeerDisconnected or an error.
SessionEnds ==
  /\ sup = "session"
  /\ sup' = "top" /\ paths_state' = "ResetRequired"
  /\ UNCHANGED <<fifo, next, faults>>

\* RecalibrationRequested, up to reset_ipc_fifos in finish_runtime_pause.
Pause ==
  /\ sup = "session" /\ sup' = "pause"
  /\ UNCHANGED <<paths_state, fifo, next, faults>>

\* The coordination fails, or hardware-ready cannot be written: an error of a
\* recalibration ends the process.
PauseFails ==
  /\ sup = "pause" /\ next = 1 /\ Fault
  /\ sup' = "returned"
  /\ UNCHANGED <<paths_state, fifo, next>>

\* Somebody removes a path (external).
Remove(i) ==
  /\ fifo[i] # "missing" /\ Fault
  /\ fifo' = [fifo EXCEPT ![i] = "missing"]
  /\ UNCHANGED <<sup, paths_state, next>>

----------------------------------------------------------------------------
SupervisorStep ==
  \/ Begin \/ Recreate \/ RecreateFails \/ OpenSucceeds \/ OpenFails \/ InitializeFails
  \/ PauseFails

PathNext ==
  \/ SupervisorStep \/ SessionEnds \/ Pause
  \/ \E i \in Paths : Remove(i)

PathSpec == PathInit /\ [][PathNext]_pathVars

\* The main thread runs and its opens are met; sessions may last.
PathFairSpec == PathSpec /\ WF_pathVars(SupervisorStep)

----------------------------------------------------------------------------
\* No connection opens a FIFO that an earlier one, or a failed attempt at one,
\* has opened: no data of another session is in it and no node of one holds it.
OpensFresh == sup = "open" => \A i \in Paths : fifo[i] # "used"

\* With finitely many failures the supervisor gets to a connection again, or
\* returns: no half-done reset leaves it retrying for ever.
Reconnects == sup \in {"top", "reset", "open", "pause"} ~> sup \in {"session", "returned"}
=============================================================================
