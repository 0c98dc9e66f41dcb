-------------------------- MODULE ControllerSession --------------------------
(***************************************************************************)
(* One simulator and the test controller that stands in for its node       *)
(* (simulator/src/bin/simu_controller.rs), down to the FIFOs as the kernel *)
(* knows them: a path leads to an inode, opening blocks until the other    *)
(* end of the same inode is opened, and the simulator replaces the inodes  *)
(* between two connections.  The controller triggers a START, opens its    *)
(* ends one by one, exchanges its batches in lock step, triggers a STOP    *)
(* and exits; it may be killed at any point.                               *)
(***************************************************************************)
EXTENDS Naturals, Sequences

CONSTANTS
  Batches,    \* num_batches of every run
  MaxRuns     \* bound on the runs of the controller

ASSUME BoundsAssumption == Batches \in Nat \ {0} /\ MaxRuns \in Nat \ {0}

VARIABLES
  player,    \* whose simulator this is
  patient,   \* the user waits until the simulator is blocked in its opens
  path,      \* the inode each path leads to
  ends,      \* what each process has opened, or waits to open, of each FIFO
  data,      \* the batches in each inode of each FIFO
  register,  \* the generation-start register, 0 or 1, "empty" while its file is
  main,      \* the simulator's main thread
  heard,     \* the GC batch it has read
  fresh,     \* FIFOs recreated since the last connection
  tool,      \* the controller
  runs, done,\* its number, and the batches it has completed
  got        \* the last angles it has read

files == <<path, ends, data>>
simulator == <<main, heard, fresh>>
controller == <<tool, runs, done, got>>
setting == <<player, patient>>
ctlVars == <<setting, files, register, simulator, controller>>

Sides == {"sim", "tool"}
Fifos == IF player = "bob" THEN {"gcr", "gc", "angles"} ELSE {"gc", "angles"}
Inodes == 1 .. MaxRuns + 1
Items == (0..MaxRuns) \X (0..Batches)

Loop == {"gcr", "read", "angles"}
Triggering == {"start_size", "start_store", "stop_size", "stop_store"}
Exchanging == {"batch", "read_gcr", "write_gc", "read_angles"}

NoEnd == [inode |-> 0, state |-> "none"]

TypeOK ==
  /\ player \in {"alice", "bob"} /\ patient \in BOOLEAN
  /\ path \in [Fifos -> Inodes]
  /\ ends \in [Sides -> [Fifos ->
       {NoEnd} \cup [inode : Inodes, state : {"waiting", "open"}]]]
  /\ data \in [Fifos -> [Inodes -> Seq(Items)]]
  /\ \A f \in Fifos, i \in Inodes : Len(data[f][i]) <= (IF patient THEN 1 ELSE MaxRuns)
  /\ register \in {"empty", "stop", "start"}
  /\ main \in {"reset", "opening", "command", "dead"} \cup Loop
  /\ heard \in Items /\ got \in Items
  /\ fresh \in 0..2
  /\ tool \in {"off", "open"} \cup Triggering \cup Exchanging
  /\ runs \in 0..MaxRuns /\ done \in 0..Batches

\* setup_ipc_fifos has run; the register may survive an earlier process.
Init ==
  /\ player \in {"alice", "bob"} /\ patient \in BOOLEAN
  /\ path = [f \in Fifos |-> 1]
  /\ ends = [s \in Sides |-> [f \in Fifos |-> NoEnd]]
  /\ data = [f \in Fifos |-> [i \in Inodes |-> <<>>]]
  /\ register \in {"stop", "start"}
  /\ main = "opening" /\ heard = <<0, 0>> /\ fresh = 0
  /\ tool = "off" /\ runs = 0 /\ done = 0 /\ got = <<0, 0>>

----------------------------------------------------------------------------
(* The FIFOs (external).                                                   *)

Peer(s) == IF s = "sim" THEN "tool" ELSE "sim"

End(s, f) == ends[s][f]
IsOpen(s, f) == End(s, f).state = "open"

\* open(2) of a FIFO for reading or writing only.
Open(s, f) ==
  LET meets == End(Peer(s), f).inode = path[f] IN
  /\ End(s, f) = NoEnd
  /\ ends' = [ends EXCEPT
       ![s][f] = [inode |-> path[f], state |-> IF meets THEN "open" ELSE "waiting"],
       ![Peer(s)][f].state = IF meets THEN "open" ELSE @]
  /\ UNCHANGED <<path, data>>

\* The process closes all it has; an inode nobody holds loses its batches.
CloseAll(s) ==
  /\ ends' = [ends EXCEPT ![s] = [f \in Fifos |-> NoEnd]]
  /\ data' = [f \in Fifos |-> [i \in Inodes |->
       IF End(Peer(s), f).inode = i THEN data[f][i] ELSE <<>>]]
  /\ UNCHANGED path

\* The other end of the FIFO that s holds is held too.
Connected(s, f) == IsOpen(Peer(s), f) /\ End(Peer(s), f).inode = End(s, f).inode

Contents(s, f) == data[f][End(s, f).inode]

Put(s, f, item) ==
  /\ data' = [data EXCEPT ![f][End(s, f).inode] = Append(@, item)]
  /\ UNCHANGED <<path, ends>>

Take(s, f) ==
  /\ Contents(s, f) # <<>>
  /\ data' = [data EXCEPT ![f][End(s, f).inode] = Tail(@)]
  /\ UNCHANGED <<path, ends>>

----------------------------------------------------------------------------
(* The simulator.                                                          *)

ResetOrder == IF player = "bob" THEN <<"angles", "gcr", "gc">> ELSE <<"angles", "gc">>

\* Faulty variant: the FIFOs are opened one after the other.
SimOpensInTurn(f) ==
  /\ main = "opening"
  /\ \A i, j \in DOMAIN ResetOrder : ResetOrder[i] = f /\ j < i => IsOpen("sim", ResetOrder[j])
  /\ Open("sim", f)
  /\ UNCHANGED <<setting, register, simulator, controller>>

\* One thread per FIFO; Alice's GCR file is /dev/null.
SimOpens(f) ==
  /\ main = "opening"
  /\ Open("sim", f)
  /\ UNCHANGED <<setting, register, simulator, controller>>

\* Faulty variant: one thread is joined.
ConnectOnGc ==
  /\ main = "opening" /\ IsOpen("sim", "gc")
  /\ main' = "command"
  /\ UNCHANGED <<setting, files, register, heard, fresh, controller>>

\* FifoConnection::new, when all threads are joined.
Connect ==
  /\ main = "opening" /\ \A f \in Fifos : IsOpen("sim", f)
  /\ main' = "command"
  /\ UNCHANGED <<setting, files, register, heard, fresh, controller>>

\* Where a turn of the generation loop begins.
LoopStart == IF player = "bob" THEN "gcr" ELSE "read"

\* await_next_command: the last known value is 0 since the workflow began (see
\* HardwareSession), so a register that holds 1 is a START.
Poll ==
  /\ main = "command" /\ register # "empty"
  /\ main' = IF register = "start" THEN LoopStart ELSE main
  /\ UNCHANGED <<setting, files, register, heard, fresh, controller>>

\* read_u32_from_mmio maps a truncated file: reading from it is a SIGBUS.
PollTruncated ==
  /\ main = "command" /\ register = "empty"
  /\ main' = "dead"
  /\ CloseAll("sim")
  /\ UNCHANGED <<setting, register, heard, fresh, controller>>

\* Bob sends the GCR of his next batch; without a reader the writer logs EPIPE.
WriteGcr ==
  /\ main = "gcr" /\ main' = "read"
  /\ IF Connected("sim", "gcr") THEN Put("sim", "gcr", <<runs, done>>) ELSE UNCHANGED files
  /\ UNCHANGED <<setting, register, heard, fresh, controller>>

\* Faulty variant: the records stay in the FIFO.
ReadGcPeeking ==
  /\ main = "read" /\ main' = "angles"
  /\ Contents("sim", "gc") # <<>> /\ heard' = Head(Contents("sim", "gc"))
  /\ UNCHANGED <<setting, files, register, fresh, controller>>

ReadGc ==
  /\ main = "read" /\ main' = "angles"
  /\ Take("sim", "gc") /\ heard' = Head(Contents("sim", "gc"))
  /\ UNCHANGED <<setting, register, fresh, controller>>

WriteAngles ==
  /\ main = "angles" /\ main' = LoopStart
  /\ IF Connected("sim", "angles") THEN Put("sim", "angles", heard) ELSE UNCHANGED files
  /\ UNCHANGED <<setting, register, heard, fresh, controller>>

\* Faulty variant: end of file is taken for a batch that is still to come.
EndOfFileIgnored ==
  /\ main = "read" /\ Contents("sim", "gc") = <<>> /\ ~Connected("sim", "gc")
  /\ UNCHANGED ctlVars

\* The connection is dropped and SESSION_RESTART_DELAY begins.
EndOfFile ==
  /\ main = "read" /\ Contents("sim", "gc") = <<>> /\ ~Connected("sim", "gc")
  /\ main' = "reset"
  /\ CloseAll("sim")
  /\ UNCHANGED <<setting, register, heard, fresh, controller>>

\* reset_ipc_fifos: ensure_fifo_exists unlinks and creates one path after the other.
Recreate ==
  LET f == ResetOrder[fresh + 1] IN
  /\ main = "reset"
  /\ path' = [path EXCEPT ![f] = @ + 1]
  /\ IF fresh + 1 = Len(ResetOrder)
       THEN fresh' = 0 /\ main' = "opening"
       ELSE fresh' = fresh + 1 /\ UNCHANGED main
  /\ UNCHANGED <<setting, ends, data, register, heard, controller>>

----------------------------------------------------------------------------
(* The controller.                                                         *)

OpenOrder == IF player = "bob" THEN <<"gcr", "gc", "angles">> ELSE <<"gc", "angles">>

\* The simulator is blocked in its opens.
AwaitsNode == main = "opening" /\ \E f \in Fifos : End("sim", f).state = "waiting"

\* A run begins with trigger_mmio_command(1), which truncates the file first.
Begin ==
  /\ tool = "off" /\ runs < MaxRuns
  /\ patient => AwaitsNode
  /\ tool' = "start_size" /\ register' = "empty"
  /\ runs' = runs + 1 /\ done' = 0
  /\ UNCHANGED <<setting, files, simulator, got>>

SetLength ==
  /\ \/ tool = "start_size" /\ tool' = "start_store"
     \/ tool = "stop_size" /\ tool' = "stop_store"
  /\ register' = "stop"
  /\ UNCHANGED <<setting, files, simulator, runs, done, got>>

StoreStart ==
  /\ tool = "start_store" /\ tool' = "open" /\ register' = "start"
  /\ UNCHANGED <<setting, files, simulator, runs, done, got>>

ToolOpens ==
  /\ tool = "open"
  /\ \E i \in DOMAIN OpenOrder :
       /\ \A j \in 1 .. i - 1 : IsOpen("tool", OpenOrder[j])
       /\ Open("tool", OpenOrder[i])
  /\ UNCHANGED <<setting, register, simulator, controller>>

ToolConnected ==
  /\ tool = "open" /\ tool' = "batch"
  /\ \A f \in Fifos : IsOpen("tool", f)
  /\ UNCHANGED <<setting, files, register, simulator, runs, done, got>>

NextBatch ==
  /\ tool = "batch" /\ done < Batches
  /\ tool' = IF player = "bob" THEN "read_gcr" ELSE "write_gc"
  /\ UNCHANGED <<setting, files, register, simulator, runs, done, got>>

ReadGcr ==
  /\ tool = "read_gcr" /\ tool' = "write_gc"
  /\ Take("tool", "gcr")
  /\ UNCHANGED <<setting, register, simulator, runs, done, got>>

WriteGc ==
  /\ tool = "write_gc" /\ tool' = "read_angles"
  /\ Connected("tool", "gc")
  /\ Put("tool", "gc", <<runs, done>>)
  /\ UNCHANGED <<setting, register, simulator, runs, done, got>>

ReadAngles ==
  /\ tool = "read_angles" /\ tool' = "batch"
  /\ Take("tool", "angles") /\ got' = Head(Contents("tool", "angles"))
  /\ done' = done + 1
  /\ UNCHANGED <<setting, register, simulator, runs>>

\* All batches done: trigger_mmio_command(0), truncating again.
Stop ==
  /\ tool = "batch" /\ done = Batches
  /\ tool' = "stop_size" /\ register' = "empty"
  /\ UNCHANGED <<setting, files, simulator, runs, done, got>>

StoreStop ==
  /\ tool = "stop_store" /\ tool' = "off" /\ register' = "stop"
  /\ CloseAll("tool")
  /\ UNCHANGED <<setting, simulator, runs, done, got>>

\* EPIPE, or end of file in the middle of a run: the controller returns an error.
Fail ==
  /\ \/ tool = "write_gc" /\ ~Connected("tool", "gc")
     \/ \E f \in Fifos :
          /\ \/ f = "gcr" /\ tool = "read_gcr"
             \/ f = "angles" /\ tool = "read_angles"
          /\ Contents("tool", f) = <<>> /\ ~Connected("tool", f)
  /\ tool' = "off" /\ CloseAll("tool")
  /\ UNCHANGED <<setting, register, simulator, runs, done, got>>

Kill ==
  /\ tool # "off" /\ tool' = "off"
  /\ CloseAll("tool")
  /\ UNCHANGED <<setting, register, simulator, runs, done, got>>

----------------------------------------------------------------------------
SimStep ==
  \/ Connect \/ Poll \/ PollTruncated \/ WriteGcr \/ ReadGc \/ WriteAngles \/ EndOfFile \/ Recreate
  \/ \E f \in Fifos : SimOpens(f)

ToolStep ==
  \/ SetLength \/ StoreStart \/ ToolOpens \/ ToolConnected \/ NextBatch \/ ReadGcr
  \/ WriteGc \/ ReadAngles \/ Stop \/ StoreStop \/ Fail

Next == SimStep \/ ToolStep \/ Begin \/ Kill

Spec == Init /\ [][Next]_ctlVars

SimOpensGcr == "gcr" \in Fifos /\ SimOpens("gcr")

\* Both processes run, and so does every thread that opens a FIFO.
FairSpec ==
  /\ Spec
  /\ WF_ctlVars(SimStep) /\ WF_ctlVars(ToolStep)
  /\ WF_ctlVars(SimOpensGcr) /\ WF_ctlVars(SimOpens("gc")) /\ WF_ctlVars(SimOpens("angles"))

----------------------------------------------------------------------------
\* With a patient user, whatever earlier runs left behind, killed at any point of
\* their opens or of a batch, the angles a run reads answer its own GC batches, in
\* order.
OwnAngles ==
  patient /\ tool \in {"batch", "read_gcr", "write_gc"} /\ done > 0 => got = <<runs, done - 1>>

\* With a patient user the simulator never maps the register while its file is
\* truncated: START comes before the opens, STOP while it is generating.
NeverTruncated == patient /\ main = "command" => register # "empty"

\* With a patient user a run comes to its end: its opens meet the simulator's,
\* and no batch leaves each side waiting for the other.
RunsEnd == patient /\ tool # "off" ~> tool = "off"

\* Whatever the user does, a simulator whose controller goes while it generates
\* leaves its loop, unless another controller comes first (which then finds its
\* old inodes: reading sees no end of file).
SessionsEnd == main \in Loop /\ tool = "off" ~> main \notin Loop \/ tool # "off"
=============================================================================
