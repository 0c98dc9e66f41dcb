-------------------------- MODULE HardwareSession --------------------------
(***************************************************************************)
(* The hardware sessions of a pair: Bob, the detector, generates a batch,  *)
(* writes its GCR to his node and waits for the echoed GC; Alice, the      *)
(* source, waits for GC from her node and then generates the batch they    *)
(* belong to (simulator/src/hardware_session/mod.rs).  The supervisor      *)
(* opens one FIFO connection after the other (supervisor.rs).              *)
(*                                                                         *)
(* External: the two gc nodes, which relay Bob's GC to both sides, each    *)
(* leaving in its own time, and the controller, which writes the           *)
(* generation-start register.  A FIFO keeps what is in it while either end *)
(* is open.  Runtime control is added by module Recalibration.             *)
(***************************************************************************)
EXTENDS Simulator, Sequences

CONSTANT MaxWire   \* bound on the GC batches in the pipe to Alice

ASSUME MaxWireAssumption == MaxWire \in Nat \ {0}

Players == {"alice", "bob"}
Other(p) == CHOOSE q \in Players : q # p

VARIABLES
  sim,      \* the simulator of each process
  run,      \* where the runner stands, "closed" between connections
  last,     \* last_known_command_trigger_value
  mmio,     \* the generation-start register (external)
  linked,   \* the node holds its ends of the player's FIFOs (external)
  ended,    \* the node's session with the other one is over (external)
  stale,    \* Alice's node has opened a FIFO with GC of an earlier node in it
  drawn,    \* the batch the runner has in hand
  heard,    \* the batch whose GC Alice has read
  gcr,      \* GCR batches Bob has written and his node has not read
  echo,     \* batches whose GC has been echoed to Bob and not read
  wire      \* batches whose GC has been passed on to Alice and not read

wires == <<gcr, echo, wire>>
runner == <<run, last, drawn, heard>>
nodes == <<linked, ended, stale>>
hwVars == <<sim, runner, mmio, nodes, wires>>

\* A batch: its number in Bob's session, carried by base_gc, and its position.
Batches == Counter \X Counter
ThisBatch(s) == <<s.events, s.stream>>

Loop == {"gen", "check", "read", "angles"}
RunStates == {"closed", "command"} \cup Loop

TypeOK ==
  /\ sim \in [Players -> Simulators]
  /\ run \in [Players -> RunStates]
  /\ last \in [Players -> {0, 1}]
  /\ mmio \in [Players -> {0, 1}]
  /\ linked \in [Players -> BOOLEAN] /\ ended \in [Players -> BOOLEAN]
  /\ stale \in BOOLEAN
  /\ drawn \in [Players -> Batches]
  /\ heard \in Batches
  /\ gcr \in Seq(Batches) /\ echo \in Seq(Batches) /\ wire \in Seq(Batches)
  /\ Len(gcr) <= 1 /\ Len(echo) <= 1 /\ Len(wire) <= MaxWire

\* Two processes just started; the register file may survive an earlier run.
Init ==
  /\ sim = [p \in Players |-> Fresh]
  /\ run = [p \in Players |-> "closed"]
  /\ last = [p \in Players |-> 0]
  /\ mmio \in [Players -> {0, 1}]
  /\ linked = [p \in Players |-> FALSE] /\ ended = [p \in Players |-> FALSE]
  /\ stale = FALSE
  /\ drawn = [p \in Players |-> <<0, 0>>]
  /\ heard = <<0, 0>>
  /\ gcr = <<>> /\ echo = <<>> /\ wire = <<>>

----------------------------------------------------------------------------
(* The supervisor and the runner.                                          *)

\* Bob's loop is gen, check, read, angles; Alice's check, read, gen, angles.
\* Each of gen, check and angles starts with check_runtime_pause.
LoopStart(p) == IF p = "bob" THEN "gen" ELSE "check"

GoTo(p, from, to) == run[p] = from /\ run' = [run EXCEPT ![p] = to]

\* The pipe p reads from.
Unread(p) == IF p = "bob" THEN echo ELSE wire

\* Both ends of p's pipes are closed: what is in them is gone.
Emptied(p) ==
  IF p = "bob" THEN gcr' = <<>> /\ echo' = <<>> /\ UNCHANGED wire
               ELSE wire' = <<>> /\ UNCHANGED <<gcr, echo>>

\* The simulator drops its connection; a node that is still there keeps the pipes.
CloseEnds(p) == IF linked[p] THEN UNCHANGED wires ELSE Emptied(p)

\* Faulty variant: the workflow remembers the register from before.
ConnectKeepingLast(p) ==
  /\ ~linked[p] /\ linked' = [linked EXCEPT ![p] = TRUE]
  /\ GoTo(p, "closed", "command")
  /\ stale' = (stale /\ p # "alice")
  /\ UNCHANGED <<sim, last, drawn, heard, mmio, ended, wires>>

\* open_fifo_connection returns when the node has opened its ends too; the
\* workflow starts by forgetting the register.
Connect(p) ==
  /\ ~linked[p] /\ linked' = [linked EXCEPT ![p] = TRUE]
  /\ GoTo(p, "closed", "command")
  /\ last' = [last EXCEPT ![p] = 0]
  /\ stale' = (stale /\ p # "alice")
  /\ UNCHANGED <<sim, drawn, heard, mmio, ended, wires>>

\* classify_generation_start_transition
Classify(previous, current) ==
  CASE previous = 0 /\ current = 1 -> "start"
    [] previous = 1 /\ current = 0 -> "stop"
    [] OTHER -> "none"

\* await_next_command: one poll of the register, and the command it makes.
Poll(p) ==
  /\ last' = [last EXCEPT ![p] = mmio[p]]
  /\ CASE Classify(last[p], mmio[p]) = "start" ->
            /\ GoTo(p, "command", LoopStart(p))
            /\ sim' = [sim EXCEPT ![p] = Initialize(@)]
            /\ UNCHANGED wires
       [] Classify(last[p], mmio[p]) = "stop" ->
            /\ GoTo(p, "command", "closed")
            /\ sim' = [sim EXCEPT ![p] = End(@)]
            /\ CloseEnds(p)
       [] OTHER -> run[p] = "command" /\ UNCHANGED <<run, sim, wires>>
  /\ UNCHANGED <<drawn, heard, mmio, nodes>>

\* Bob: next_batch, then the GCR goes to the node - or nowhere if it has gone,
\* which the writer only logs.
BobGenerates ==
  /\ GoTo("bob", "gen", "check") /\ CanGenerate(sim["bob"])
  /\ drawn' = [drawn EXCEPT !["bob"] = ThisBatch(sim["bob"])]
  /\ sim' = [sim EXCEPT !["bob"] = Generate(@)]
  /\ gcr' = IF linked["bob"] THEN Append(gcr, ThisBatch(sim["bob"])) ELSE gcr
  /\ UNCHANGED <<last, heard, mmio, nodes, echo, wire>>

\* Alice: next_batch, for the GC she has just read.
AliceGenerates ==
  /\ GoTo("alice", "gen", "angles") /\ CanGenerate(sim["alice"])
  /\ drawn' = [drawn EXCEPT !["alice"] = ThisBatch(sim["alice"])]
  /\ sim' = [sim EXCEPT !["alice"] = Generate(@)]
  /\ UNCHANGED <<last, heard, mmio, nodes, wires>>

\* The check before the read: from here the runner only listens to the FIFO.
Check(p) ==
  /\ GoTo(p, "check", "read")
  /\ UNCHANGED <<sim, last, drawn, heard, mmio, nodes, wires>>

\* Faulty variant: Bob goes on without waiting for the echo.
BobReadsNothing ==
  /\ GoTo("bob", "read", "angles")
  /\ UNCHANGED <<sim, last, drawn, heard, mmio, nodes, wires>>

BobReads ==
  /\ GoTo("bob", "read", "angles")
  /\ echo # <<>> /\ echo' = Tail(echo)
  /\ UNCHANGED <<sim, last, drawn, heard, mmio, nodes, gcr, wire>>

AliceReads ==
  /\ GoTo("alice", "read", "gen")
  /\ wire # <<>> /\ wire' = Tail(wire) /\ heard' = Head(wire)
  /\ UNCHANGED <<sim, last, drawn, mmio, nodes, gcr, echo>>

WriteAngles(p) ==
  /\ GoTo(p, "angles", LoopStart(p))
  /\ UNCHANGED <<sim, last, drawn, heard, mmio, nodes, wires>>

\* Faulty variants: the read is tried again; the session is left running.
EndOfFileRetried(p) ==
  /\ run[p] = "read" /\ ~linked[p] /\ Unread(p) = <<>>
  /\ UNCHANGED hwVars

EndOfFileUnstopped(p) ==
  /\ GoTo(p, "read", "closed") /\ ~linked[p] /\ Unread(p) = <<>>
  /\ Emptied(p)
  /\ UNCHANGED <<sim, last, drawn, heard, mmio, nodes>>

\* The node has left and no whole batch is left to read: the read fails, the loop
\* ends, the session stops, PeerDisconnected.
EndOfFile(p) ==
  /\ GoTo(p, "read", "closed") /\ ~linked[p] /\ Unread(p) = <<>>
  /\ sim' = [sim EXCEPT ![p] = End(@)]
  /\ Emptied(p)
  /\ UNCHANGED <<last, drawn, heard, mmio, nodes>>

----------------------------------------------------------------------------
(* The nodes and the controller (external).                                *)

\* Bob's node reads a GCR batch, echoes the GC and passes it to Alice's node.
Relay ==
  /\ \A p \in Players : linked[p] /\ ~ended[p]
  /\ gcr # <<>> /\ gcr' = Tail(gcr)
  /\ echo' = Append(echo, Head(gcr))
  /\ Len(wire) < MaxWire /\ wire' = Append(wire, Head(gcr))
  /\ UNCHANGED <<sim, runner, mmio, nodes>>

\* The node of p has left: the session of the other one, if it was with this
\* node, is over.
Leaves(p, present) ==
  ended' = [ended EXCEPT ![p] = FALSE,
                         ![Other(p)] = @ \/ (present[Other(p)] /\ ~ended[p])]

\* The pipes a node leaves to a simulator keep what has got into them; the last
\* echo, or the end of what is on the way to Alice, may not have.
LeftBehind(p) ==
  IF p = "bob"
    THEN echo' \in {echo, <<>>} /\ UNCHANGED <<gcr, wire>>
    ELSE /\ \E n \in 0 .. Len(wire) : wire' = SubSeq(wire, 1, n)
         /\ UNCHANGED <<gcr, echo>>

NodeCloses(p) == IF run[p] = "closed" THEN Emptied(p) ELSE LeftBehind(p)

\* A node closes its ends of the FIFOs, whatever the other one does.
Disconnect(p) ==
  /\ linked[p] /\ linked' = [linked EXCEPT ![p] = FALSE]
  /\ Leaves(p, linked)
  /\ NodeCloses(p)
  /\ UNCHANGED <<sim, runner, mmio, stale>>

\* A node opens the FIFOs again while the simulator still holds its ends: it
\* waits for a command and does not look at the FIFOs.
Relink(p) ==
  /\ run[p] = "command" /\ ~linked[p]
  /\ linked' = [linked EXCEPT ![p] = TRUE]
  /\ stale' = IF p = "alice" THEN wire # <<>> ELSE stale
  /\ UNCHANGED <<sim, runner, mmio, ended, wires>>

WriteRegister(p) ==
  /\ mmio' = [mmio EXCEPT ![p] = 1 - @]
  /\ UNCHANGED <<sim, runner, nodes, wires>>

----------------------------------------------------------------------------
RunnerStep(p) ==
  \/ Poll(p) \/ Check(p) \/ WriteAngles(p) \/ EndOfFile(p)
  \/ p = "bob" /\ (BobGenerates \/ BobReads)
  \/ p = "alice" /\ (AliceGenerates \/ AliceReads)

NodeStep ==
  \E p \in Players : Connect(p) \/ Relink(p) \/ Disconnect(p) \/ WriteRegister(p)

Next == (\E p \in Players : RunnerStep(p)) \/ Relay \/ NodeStep

Spec == Init /\ [][Next]_hwVars

----------------------------------------------------------------------------
\* The batch Alice generates for a GC batch has the same number in her session
\* as that batch has in Bob's, in every session of the processes' lives and
\* whichever node leaves first: no restart of one side leaves a GC of the old
\* session for the new one.  The one exception is in the nodes' hands: GC that
\* reached Alice before her START is still in the FIFO if her node leaves and
\* another one opens it before the START, for the runner does not look at it.
SameNumber == run["alice"] = "angles" /\ ~stale => drawn["alice"][1] = heard[1]

\* The batch Alice generates for a GC batch is the very batch Bob measured.
Correlated == run["alice"] = "angles" => drawn["alice"][2] = heard[2]

\* The runner forgets the register when it enters its command loop and leaves it
\* at the first START: what the register was in one session plays no part in the
\* next.
RegisterForgotten == \A p \in Players : run[p] = "command" => last[p] = 0

\* Sessions neither overlap nor reach into each other: generate_batch is never
\* refused inside one, a simulator between two is idle, whatever ended the last
\* one, and what the register was then plays no part in the next.
GeneratesInLoop ==
  /\ \A p \in Players : run[p] \in Loop <=> CanGenerate(sim[p])
  /\ RegisterForgotten

\* simulator/src/ipc/mod.rs:10: "Stop = 0x26, // stop the generating bits and
\* filling the fifos": a simulator whose register stays cleared comes to
\* generate no more.
StopStops ==
  \A p \in Players : <>[](mmio[p] = 0) => <>[](run[p] # "gen")

\* Bob never runs ahead of his node: the batch in his hands is the last one he
\* generated, and at most one batch waits for an echo that is not there yet.
EchoesMatch ==
  /\ Len(gcr) + Len(echo) <= 1
  /\ run["bob"] = "read" /\ echo # <<>> => Head(echo) = drawn["bob"]

\* A peer that goes away is noticed: a generating simulator gets back to
\* opening its FIFOs.
DisconnectNoticed ==
  \A p \in Players : run[p] \in Loop /\ ~linked[p] ~> run[p] = "closed"
=============================================================================
