----------------------------- MODULE IpcWriter -----------------------------
(***************************************************************************)
(* The IPC writer actor of a simulator (simulator/src/ipc/writer/actor.rs) *)
(* and the FIFO connection that owns its files                             *)
(* (simulator/src/ipc/fifo_connection.rs).                                 *)
(*                                                                         *)
(* The runner queues batches and never waits for them; opening and         *)
(* dropping a connection send a command and wait for the reply.  The actor *)
(* writes to non-blocking FIFOs, in parts; while a FIFO is full it sleeps, *)
(* and looks at close_requested, which the main thread raises before it    *)
(* queues CloseWriters.                                                    *)
(***************************************************************************)
EXTENDS Naturals, Sequences

CONSTANTS
  GcrUnits,      \* writes a GCR batch may be split into
  Capacity,      \* units a FIFO holds
  MaxQueue,      \* bound on the messages in the channel
  MaxConnections \* bound on the connections opened

ASSUME UnitsAssumption == GcrUnits \in Nat \ {0} /\ Capacity \in Nat \ {0}
ASSUME BoundsAssumption == MaxQueue \in Nat \ {0, 1} /\ MaxConnections \in Nat \ {0}

Files == {"gcr", "angles"}

\* A batch of angles, 512 bytes, is shorter than PIPE_BUF and written as a whole
\* or not at all; a GCR batch, 8 or 16 KiB, is not.
Units(f) == IF f = "gcr" THEN GcrUnits ELSE 1

VARIABLES
  main,      \* what the main thread does with its connection
  conn,      \* the number of its latest connection
  queue,     \* the channel to the actor
  current,   \* the message the actor handles, a Nothing between messages
  left,      \* units of the batch in hand still to be written
  file,      \* the connection each writer file belongs to, 0 without a file
  close_requested,
  stored,    \* units in each FIFO
  reader,    \* the node holds the reading end (external)
  given_up   \* a batch was abandoned on the present connection of the file

fifos == <<stored, reader, given_up>>
actor == <<current, left, file>>
writerVars == <<main, conn, queue, actor, close_requested, fifos>>

Messages == [kind : Files \cup {"attach", "close"}, conn : 1..MaxConnections]
Nothing == [kind |-> "none", conn |-> 0]

TypeOK ==
  /\ main \in {"closed", "attaching", "open", "closing", "exited"}
  /\ conn \in 0..MaxConnections
  /\ queue \in Seq(Messages) /\ Len(queue) <= MaxQueue
  /\ current \in Messages \cup {Nothing}
  /\ left \in 0..GcrUnits
  /\ file \in [Files -> 0..MaxConnections]
  /\ close_requested \in BOOLEAN
  /\ stored \in [Files -> 0..Capacity]
  /\ reader \in [Files -> BOOLEAN]
  /\ given_up \in [Files -> BOOLEAN]

Init ==
  /\ main = "closed" /\ conn = 0
  /\ queue = <<>> /\ current = Nothing /\ left = 0
  /\ file = [f \in Files |-> 0]
  /\ close_requested = FALSE
  /\ stored = [f \in Files |-> 0]
  /\ reader = [f \in Files |-> FALSE]
  /\ given_up = [f \in Files |-> FALSE]

----------------------------------------------------------------------------
(* The main thread.                                                        *)

\* Faulty variant: a message overtakes those queued before it.
SendFirst(kind, c) ==
  /\ Len(queue) < MaxQueue
  /\ queue' = <<[kind |-> kind, conn |-> c]>> \o queue

Send(kind, c) ==
  /\ Len(queue) < MaxQueue
  /\ queue' = Append(queue, [kind |-> kind, conn |-> c])

\* FifoConnection::new: the FIFOs are new and open at both ends.
AttachWriters ==
  /\ main = "closed" /\ conn < MaxConnections
  /\ main' = "attaching" /\ conn' = conn + 1
  /\ Send("attach", conn + 1)
  /\ stored' = [f \in Files |-> 0]
  /\ reader' = [f \in Files |-> TRUE]
  /\ given_up' = [f \in Files |-> FALSE]
  /\ UNCHANGED <<actor, close_requested>>

\* write_gcr_batch, write_angles_batch: queued and forgotten.  One place is kept
\* for CloseWriters: the channel itself has no bound.
Write(f) ==
  /\ main = "open" /\ Len(queue) + 1 < MaxQueue
  /\ Send(f, conn)
  /\ UNCHANGED <<main, conn, actor, close_requested, fifos>>

\* FifoConnection is dropped: close_writers.
CloseWriters ==
  /\ main = "open"
  /\ main' = "closing"
  /\ close_requested' = TRUE
  /\ Send("close", conn)
  /\ UNCHANGED <<conn, actor, fifos>>

----------------------------------------------------------------------------
(* The actor.                                                              *)

IsBatch == current.kind \in Files

Done == current' = Nothing /\ left' = 0

Receive ==
  /\ current = Nothing /\ queue # <<>>
  /\ current' = Head(queue) /\ queue' = Tail(queue)
  /\ left' = IF Head(queue).kind \in Files THEN Units(Head(queue).kind) ELSE 0
  /\ UNCHANGED <<main, conn, file, close_requested, fifos>>

\* Faulty variant: the flag of the last close stays up.
AttachKeepingFlag ==
  /\ current.kind = "attach"
  /\ file' = [f \in Files |-> current.conn]
  /\ main' = "open"
  /\ Done
  /\ UNCHANGED <<conn, queue, close_requested, fifos>>

\* attach_writers.  Refused because there are writers, or because set_nonblocking
\* fails, the new files are dropped and the supervisor returns.
HandleAttach ==
  /\ current.kind = "attach"
  /\ \/ /\ \A f \in Files : file[f] = 0
        /\ file' = [f \in Files |-> current.conn]
        /\ close_requested' = FALSE
        /\ main' = "open"
     \/ main' = "exited" /\ UNCHANGED <<file, close_requested>>
  /\ Done
  /\ UNCHANGED <<conn, queue, fifos>>

\* Faulty variant: only the first file is dropped.
HandleCloseHalf ==
  /\ current.kind = "close"
  /\ file' = [file EXCEPT !["gcr"] = 0]
  /\ main' = "closed"
  /\ Done
  /\ UNCHANGED <<conn, queue, close_requested, fifos>>

\* close_writers
HandleClose ==
  /\ current.kind = "close"
  /\ file' = [f \in Files |-> 0]
  /\ main' = "closed"
  /\ Done
  /\ UNCHANGED <<conn, queue, close_requested, fifos>>

\* Faulty variant: the FIFO takes everything.
WritePartBlind ==
  /\ IsBatch /\ file[current.kind] # 0 /\ reader[current.kind]
  /\ stored' = [stored EXCEPT ![current.kind] = @ + left]
  /\ Done
  /\ UNCHANGED <<main, conn, queue, file, close_requested, reader, given_up>>

\* write_interruptibly: the part of the buffer for which there is room.
WritePart ==
  /\ IsBatch /\ file[current.kind] # 0 /\ reader[current.kind]
  /\ \E n \in 1..left :
       /\ stored[current.kind] + n <= Capacity
       /\ stored' = [stored EXCEPT ![current.kind] = @ + n]
       /\ IF n = left THEN Done ELSE left' = left - n /\ UNCHANGED current
  /\ UNCHANGED <<main, conn, queue, file, close_requested, reader, given_up>>

Full == stored[current.kind] = Capacity

\* Faulty variant: the retry does not look at the flag.
CancelNever ==
  /\ IsBatch /\ file[current.kind] # 0 /\ reader[current.kind]
  /\ Full
  /\ UNCHANGED writerVars

\* WouldBlock, and a close is waiting: the rest of the batch is dropped.
Cancel ==
  /\ IsBatch /\ file[current.kind] # 0 /\ reader[current.kind]
  /\ Full /\ close_requested
  /\ given_up' = [given_up EXCEPT ![current.kind] = TRUE]
  /\ Done
  /\ UNCHANGED <<main, conn, queue, file, close_requested, stored, reader>>

\* Without a file, or without a reader (EPIPE), the error is logged.
DropBatch ==
  /\ IsBatch /\ (file[current.kind] = 0 \/ ~reader[current.kind])
  /\ Done
  /\ UNCHANGED <<main, conn, queue, file, close_requested, fifos>>

----------------------------------------------------------------------------
(* The node (external).                                                    *)

NodeReads(f) ==
  /\ reader[f] /\ stored[f] > 0
  /\ stored' = [stored EXCEPT ![f] = @ - 1]
  /\ UNCHANGED <<main, conn, queue, actor, close_requested, reader, given_up>>

NodeCloses(f) ==
  /\ reader[f]
  /\ reader' = [reader EXCEPT ![f] = FALSE]
  /\ stored' = [stored EXCEPT ![f] = 0]
  /\ UNCHANGED <<main, conn, queue, actor, close_requested, given_up>>

----------------------------------------------------------------------------
ActorStep ==
  Receive \/ HandleAttach \/ HandleClose \/ WritePart \/ Cancel \/ DropBatch

Next ==
  \/ ActorStep
  \/ AttachWriters \/ CloseWriters \/ \E f \in Files : Write(f)
  \/ \E f \in Files : NodeReads(f) \/ NodeCloses(f)

Spec == Init /\ [][Next]_writerVars

\* The actor thread runs.  Nothing is assumed of the node: it may neither read
\* nor leave.
FairSpec == Spec /\ WF_writerVars(ActorStep)

----------------------------------------------------------------------------
\* A batch queued on one connection is never written to the next one's FIFO: a
\* new node never receives events of the session before.
OwnConnection ==
  IsBatch /\ file[current.kind] # 0 => current.conn = file[current.kind]

\* The writer is free whenever a new connection is handed to it: attach_writers
\* never fails with WritersAlreadyOpen, which would end the process.
AttachAccepted ==
  current.kind = "attach" => \A f \in Files : file[f] = 0

\* While a connection is open no batch is abandoned, whole or in part, however
\* slowly the node reads: what cuts one short is the close of this very
\* connection, never the flag left by an earlier one.
WholeBatches == main = "open" => \A f \in Files : ~given_up[f]

\* Dropping a connection always returns, even if the node never reads again:
\* a full FIFO does not keep the supervisor from recalibrating.
CloseReturns == main = "closing" ~> main = "closed"
=============================================================================
