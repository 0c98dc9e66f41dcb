------------------------------ MODULE Restarts ------------------------------
(***************************************************************************)
(* The hardware sessions of a pair whose processes crash and are started   *)
(* again.  A new process seeds its simulator afresh, replaces the FIFOs    *)
(* and prepares the register file, which outlives it (simulator/src/       *)
(* main.rs, configs/src/ipc/mod.rs); a node keeps what it had opened until *)
(* it leaves.                                                              *)
(***************************************************************************)
EXTENDS HardwareSession

CONSTANT MaxCrashes   \* bound on the crashes of both processes together

ASSUME MaxCrashesAssumption == MaxCrashes \in Nat

VARIABLES
  up,          \* the process runs
  orphan,      \* the node holds FIFOs that setup_ipc_fifos has replaced
  crashes      \* crashes so far

processes == <<up, orphan, crashes>>
restartVars == <<hwVars, processes>>

RestartTypeOK ==
  /\ TypeOK
  /\ up \in [Players -> BOOLEAN]
  /\ orphan \in [Players -> BOOLEAN]
  /\ crashes \in 0 .. MaxCrashes

RestartInit ==
  /\ Init
  /\ up = [p \in Players |-> TRUE]
  /\ orphan = [p \in Players |-> FALSE]
  /\ crashes = 0

----------------------------------------------------------------------------
Crash(p) ==
  /\ crashes < MaxCrashes /\ crashes' = crashes + 1
  /\ up[p] /\ up' = [up EXCEPT ![p] = FALSE]
  /\ run' = [run EXCEPT ![p] = "closed"]
  /\ sim' = [sim EXCEPT ![p] = Fresh]
  /\ CloseEnds(p)
  /\ UNCHANGED <<last, drawn, heard, mmio, nodes, orphan>>

\* Faulty variant: the FIFOs that exist are used, and the node still has them.
BootOnOldFifos(p) ==
  /\ ~up[p] /\ up' = [up EXCEPT ![p] = TRUE]
  /\ linked' = [linked EXCEPT ![p] = FALSE]
  /\ UNCHANGED <<sim, runner, mmio, ended, stale, wires, orphan, crashes>>

\* setup_ipc_fifos makes new, empty FIFOs; from_config seeds the simulator.
\* ensure_mock_mmio_file_exists keeps a file of sufficient size and zeroes the
\* init/reset register in it, trigger_pps sets the PPS register: neither writes
\* the generation-start register.
Boot(p) ==
  /\ ~up[p] /\ up' = [up EXCEPT ![p] = TRUE]
  /\ orphan' = [orphan EXCEPT ![p] = @ \/ linked[p]]
  /\ linked' = [linked EXCEPT ![p] = FALSE]
  /\ Emptied(p)
  /\ UNCHANGED <<sim, runner, mmio, ended, stale, crashes>>

\* A step of the process's main thread; between connections it needs a node
\* that opens the FIFOs there are now.
RunningStep(p) == up[p] /\ RunnerStep(p) /\ UNCHANGED processes

NodeOpens(p) ==
  /\ up[p]
  /\ (Connect(p) /\ ~orphan[p]) \/ Relink(p)
  /\ UNCHANGED processes

WriteAnyTime(p) == WriteRegister(p) /\ UNCHANGED processes

\* A node finds FIFOs without another end, or leaves of its own accord.
Abandon(p) ==
  /\ linked[p] \/ orphan[p]
  /\ linked' = [linked EXCEPT ![p] = FALSE] /\ orphan' = [orphan EXCEPT ![p] = FALSE]
  /\ Leaves(p, [q \in Players |-> linked[q] \/ orphan[q]])
  /\ NodeCloses(p)
  /\ UNCHANGED <<sim, runner, mmio, stale, up, crashes>>

RelayOn == Relay /\ UNCHANGED processes

RestartNext ==
  \/ \E p \in Players :
       Crash(p) \/ Boot(p) \/ RunningStep(p) \/ NodeOpens(p) \/ WriteAnyTime(p) \/ Abandon(p)
  \/ RelayOn

RestartSpec == RestartInit /\ [][RestartNext]_restartVars

\* The main threads of running processes run, and the nodes relay what they get.
Fairness ==
  /\ WF_restartVars(RelayOn)
  /\ \A p \in Players : WF_restartVars(RunningStep(p))

FairSpec == RestartSpec /\ Fairness
=============================================================================
