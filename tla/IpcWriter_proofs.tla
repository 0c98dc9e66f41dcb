-------------------------- MODULE IpcWriter_proofs --------------------------
(***************************************************************************)
(* Proofs about IpcWriter, for any batch size, FIFO capacity and bounds.   *)
(***************************************************************************)
EXTENDS IpcWriter, TLAPS

\* A message of the present connection that carries a batch.
OwnBatch(m) == m.kind \in Files /\ m.conn = conn

\* The channel of a life of the connection: nothing before it, its attach, its
\* batches, its close behind the last of them.
NothingSent == queue = <<>> /\ current = Nothing

AttachMessage == [kind |-> "attach", conn |-> conn]

AttachSent ==
  \/ queue = <<AttachMessage>> /\ current = Nothing
  \/ queue = <<>> /\ current = AttachMessage

BatchInHand == current = Nothing \/ OwnBatch(current)

BatchesSent ==
  /\ BatchInHand
  /\ \A i \in 1..Len(queue) : OwnBatch(queue[i])

CloseSent ==
  \/ queue = <<>> /\ current.kind = "close"
  \/ /\ BatchInHand
     /\ Len(queue) > 0 /\ queue[Len(queue)].kind = "close"
     /\ \A i \in 1..(Len(queue) - 1) : OwnBatch(queue[i])

Attached == \A f \in Files : file[f] = conn
Detached == \A f \in Files : file[f] = 0

Phases ==
  /\ main # "closed" => conn > 0
  /\ main = "exited" => NothingSent
  /\ main = "closed" => NothingSent /\ Detached
  /\ main = "attaching" => AttachSent /\ Detached /\ \A f \in Files : ~given_up[f]
  /\ main = "open" => BatchesSent /\ Attached /\ ~close_requested /\ \A f \in Files : ~given_up[f]
  /\ main = "closing" => CloseSent /\ Attached

IInv == TypeOK /\ Phases

USE UnitsAssumption, BoundsAssumption

LEMMA SeqFacts ==
  ASSUME NEW S, NEW s \in Seq(S)
  PROVE  /\ Len(s) \in Nat
         /\ s = <<>> <=> Len(s) = 0
         /\ \A i \in 1..Len(s) : s[i] \in S
         /\ s # <<>> => /\ Head(s) = s[1] /\ Tail(s) \in Seq(S)
                        /\ Len(Tail(s)) = Len(s) - 1
                        /\ \A i \in 1..(Len(s) - 1) : Tail(s)[i] = s[i + 1]
         /\ \A x \in S : /\ Append(s, x) \in Seq(S)
                         /\ Len(Append(s, x)) = Len(s) + 1
                         /\ Append(s, x)[Len(s) + 1] = x
                         /\ \A i \in 1..Len(s) : Append(s, x)[i] = s[i]
OBVIOUS

LEMMA Singleton ==
  ASSUME NEW x
  PROVE  /\ Head(<<x>>) = x /\ Tail(<<x>>) = <<>> /\ <<x>> # <<>> /\ Len(<<x>>) = 1 /\ <<x>>[1] = x
         /\ Append(<<>>, x) = <<x>>
OBVIOUS

\* What is in the actor's hand tells in which phase the connection is.
LEMMA PhaseOfMessage ==
  ASSUME IInv
  PROVE  /\ current.kind = "attach" =>
              main = "attaching" /\ current = AttachMessage /\ queue = <<>>
         /\ current.kind = "close" => main = "closing" /\ queue = <<>>
         /\ current.kind \in Files => main \in {"open", "closing"} /\ OwnBatch(current) /\ Attached
BY DEF IInv, TypeOK, Phases, NothingSent, AttachSent, AttachMessage, BatchesSent, CloseSent,
       BatchInHand, OwnBatch, Nothing, Files

LEMMA InitInv == Init => IInv
<1> SUFFICES ASSUME Init PROVE IInv
  OBVIOUS
<1>1. queue \in Seq(Messages) /\ Len(queue) = 0 BY DEF Init
<1>2. 0 \in 0..GcrUnits /\ 0 \in 0..Capacity /\ 0 \in 0..MaxConnections OBVIOUS
<1>3. file \in [Files -> 0..MaxConnections] /\ stored \in [Files -> 0..Capacity]
  BY <1>2 DEF Init
<1>4. reader \in [Files -> BOOLEAN] /\ given_up \in [Files -> BOOLEAN] BY DEF Init
<1>5. TypeOK
  <2>1. main = "closed" /\ conn = 0 /\ current = Nothing /\ left = 0 /\ close_requested = FALSE BY DEF Init
  <2>2. Len(queue) <= MaxQueue BY <1>1
  <2>3. main \in {"closed", "attaching", "open", "closing", "exited"} BY <2>1
  <2>4. conn \in 0..MaxConnections /\ left \in 0..GcrUnits BY <1>2, <2>1
  <2>5. current \in Messages \cup {Nothing} /\ close_requested \in BOOLEAN BY <2>1
  <2> QED BY <1>1, <1>3, <1>4, <2>2, <2>3, <2>4, <2>5 DEF TypeOK
<1>6. Phases BY DEF Init, Phases, NothingSent, Detached
<1> QED BY <1>5, <1>6 DEF IInv

\* The actor is done with the batch it had, whatever became of it.
LEMMA BatchDone ==
  ASSUME IInv, current.kind \in Files, current' = Nothing \/ current' = current,
         UNCHANGED <<main, conn, queue, file, close_requested>>,
         main = "open" => UNCHANGED given_up
  PROVE  Phases'
<1>1. main \in {"open", "closing"} /\ OwnBatch(current) BY PhaseOfMessage
<1>2. CASE main = "open"
  BY <1>1, <1>2 DEF IInv, Phases, BatchesSent, BatchInHand, OwnBatch, Attached
<1>3. CASE main = "closing"
  <2>1. Len(queue) > 0 /\ queue[Len(queue)].kind = "close" /\ \A i \in 1..(Len(queue) - 1) : OwnBatch(queue[i])
    BY <1>1, <1>3 DEF IInv, Phases, CloseSent, OwnBatch, Files
  <2> QED BY <1>1, <1>3, <2>1 DEF IInv, Phases, CloseSent, BatchInHand, OwnBatch, Attached
<1> QED BY <1>1, <1>2, <1>3

LEMMA SendTypes ==
  ASSUME TypeOK, NEW kind \in Files \cup {"attach", "close"}, NEW c \in 1..MaxConnections,
         Send(kind, c)
  PROVE  queue' \in Seq(Messages) /\ Len(queue') <= MaxQueue
<1> DEFINE m == [kind |-> kind, conn |-> c]
<1>1. m \in Messages BY DEF Messages
<1>2. queue' = Append(queue, m) /\ Len(queue) < MaxQueue BY DEF Send
<1> QED BY <1>1, <1>2, SeqFacts DEF TypeOK

LEMMA MainKeeps ==
  ASSUME IInv, AttachWriters \/ CloseWriters \/ \E f \in Files : Write(f)
  PROVE  IInv'
<1> USE DEF actor, fifos
<1>i. TypeOK /\ Phases BY DEF IInv
<1>1. CASE AttachWriters
  <2>1. conn + 1 \in 1..MaxConnections /\ conn' = conn + 1 BY <1>i, <1>1 DEF AttachWriters, TypeOK
  <2>2. TypeOK'
    <3>1. queue' \in Seq(Messages) /\ Len(queue') <= MaxQueue BY <1>i, <1>1, <2>1, SendTypes DEF AttachWriters
    <3> QED BY <1>i, <1>1, <2>1, <3>1 DEF AttachWriters, TypeOK
  <2>3. AttachSent'
    <3>1. queue = <<>> /\ current = Nothing BY <1>i, <1>1 DEF AttachWriters, Phases, NothingSent
    <3>2. queue' = Append(queue, AttachMessage') BY <1>1, <2>1 DEF AttachWriters, Send, AttachMessage
    <3>3. queue' = <<AttachMessage'>> BY <3>1, <3>2, Singleton
    <3> QED BY <1>1, <3>1, <3>3 DEF AttachWriters, AttachSent, Nothing
  <2>4. Phases' BY <1>i, <1>1, <2>1, <2>3 DEF AttachWriters, Phases, Detached, TypeOK
  <2> QED BY <2>2, <2>4 DEF IInv
<1>2. CASE CloseWriters
  <2> DEFINE m == [kind |-> "close", conn |-> conn]
  <2>1. conn \in 1..MaxConnections BY <1>i, <1>2 DEF CloseWriters, TypeOK, Phases
  <2>2. m \in Messages BY <2>1 DEF Messages
  <2>3. TypeOK'
    <3>1. queue' \in Seq(Messages) /\ Len(queue') <= MaxQueue BY <1>i, <1>2, <2>1, SendTypes DEF CloseWriters
    <3> QED BY <1>i, <1>2, <3>1 DEF CloseWriters, TypeOK
  <2>4. queue' = Append(queue, m) BY <1>2 DEF CloseWriters, Send
  <2>5. CloseSent'
    <3>1. BatchesSent BY <1>i, <1>2 DEF CloseWriters, Phases
    <3>2. /\ Len(queue') = Len(queue) + 1 /\ queue'[Len(queue')] = m
          /\ \A i \in 1..Len(queue) : queue'[i] = queue[i]
          /\ Len(queue) \in Nat
      BY <1>i, <2>2, <2>4, SeqFacts DEF TypeOK
    <3>3. \A i \in 1..(Len(queue') - 1) : OwnBatch(queue[i])
      BY <3>1, <3>2 DEF BatchesSent
    <3>4. \A i \in 1..(Len(queue') - 1) : OwnBatch(queue'[i]) BY <3>2, <3>3
    <3>5. UNCHANGED <<conn, current>> BY <1>2 DEF CloseWriters
    <3> QED BY <3>1, <3>2, <3>4, <3>5 DEF CloseSent, BatchesSent, BatchInHand, OwnBatch
  <2>6. Phases' BY <1>i, <1>2, <2>5 DEF CloseWriters, Phases, Attached
  <2> QED BY <2>3, <2>6 DEF IInv
<1>3. ASSUME NEW f \in Files, Write(f) PROVE IInv'
  <2> DEFINE m == [kind |-> f, conn |-> conn]
  <2>1. conn \in 1..MaxConnections BY <1>i, <1>3 DEF Write, TypeOK, Phases
  <2>2. m \in Messages BY <2>1 DEF Messages
  <2>3. TypeOK'
    <3>1. queue' \in Seq(Messages) /\ Len(queue') <= MaxQueue BY <1>i, <1>3, <2>1, SendTypes DEF Write
    <3> QED BY <1>i, <1>3, <3>1 DEF Write, TypeOK
  <2>4. queue' = Append(queue, m) BY <1>3 DEF Write, Send
  <2>5. BatchesSent'
    <3>1. BatchesSent BY <1>i, <1>3 DEF Write, Phases
    <3>2. /\ Len(queue') = Len(queue) + 1 /\ queue'[Len(queue')] = m
          /\ \A i \in 1..Len(queue) : queue'[i] = queue[i]
          /\ Len(queue) \in Nat
      BY <1>i, <2>2, <2>4, SeqFacts DEF TypeOK
    <3>3. OwnBatch(m) BY DEF OwnBatch
    <3>4. \A i \in 1..Len(queue') : OwnBatch(queue'[i]) BY <3>1, <3>2, <3>3 DEF BatchesSent
    <3>5. UNCHANGED <<conn, current>> BY <1>3 DEF Write
    <3> QED BY <3>1, <3>4, <3>5 DEF BatchesSent, BatchInHand, OwnBatch
  <2>6. Phases' BY <1>i, <1>3, <2>5 DEF Write, Phases, Attached
  <2> QED BY <2>3, <2>6 DEF IInv
<1> QED BY <1>1, <1>2, <1>3

LEMMA ReceiveKeeps ==
  ASSUME IInv, Receive
  PROVE  IInv'
<1> USE DEF fifos
<1>i. TypeOK /\ Phases BY DEF IInv
<1>r. /\ current = Nothing /\ queue # <<>> /\ current' = queue[1] /\ queue' = Tail(queue)
      /\ UNCHANGED <<main, conn, file, close_requested, fifos>>
  BY <1>i, SeqFacts DEF Receive, TypeOK
<1>s. /\ Len(queue) \in Nat \ {0} /\ Len(queue') = Len(queue) - 1
      /\ \A i \in 1..Len(queue') : queue'[i] = queue[i + 1]
      /\ queue[1] \in Messages /\ queue' \in Seq(Messages)
      /\ queue' = <<>> <=> Len(queue') = 0
  <2>1. queue \in Seq(Messages) BY <1>i DEF TypeOK
  <2>2. /\ Len(queue) \in Nat /\ Len(queue) # 0 /\ queue[1] \in Messages
        /\ queue' \in Seq(Messages) /\ Len(queue') = Len(queue) - 1
        /\ \A i \in 1..(Len(queue) - 1) : queue'[i] = queue[i + 1]
    BY <1>r, <2>1, SeqFacts
  <2>3. queue' = <<>> <=> Len(queue') = 0 BY <2>2, SeqFacts
  <2> QED BY <2>2, <2>3
<1>1. TypeOK'
  <2>1. left' \in 0..GcrUnits
    BY <1>i, <1>r, <1>s DEF Receive, Units, TypeOK
  <2> QED BY <1>i, <1>r, <1>s, <2>1 DEF TypeOK
<1>2. main \in {"attaching", "open", "closing"}
  BY <1>i, <1>r DEF TypeOK, Phases, NothingSent
<1>3. CASE main = "attaching"
  <2>1. queue = <<AttachMessage>> BY <1>i, <1>r, <1>3 DEF Phases, AttachSent
  <2>2. current' = AttachMessage /\ queue' = <<>> BY <1>r, <2>1, Singleton
  <2>3. AttachSent' BY <1>r, <2>2 DEF AttachSent, AttachMessage
  <2> QED BY <1>1, <1>i, <1>r, <1>3, <2>3 DEF IInv, Phases, Detached
<1>4. CASE main = "open"
  <2>1. \A i \in 1..Len(queue) : OwnBatch(queue[i]) BY <1>i, <1>4 DEF Phases, BatchesSent
  <2>2. OwnBatch(queue[1]) /\ \A i \in 1..Len(queue') : OwnBatch(queue'[i]) BY <1>s, <2>1
  <2>3. BatchesSent' BY <1>r, <2>2 DEF BatchesSent, BatchInHand, OwnBatch
  <2> QED BY <1>1, <1>i, <1>r, <1>4, <2>3 DEF IInv, Phases, Attached
<1>5. CASE main = "closing"
  <2>1. /\ queue[Len(queue)].kind = "close"
        /\ \A i \in 1..(Len(queue) - 1) : OwnBatch(queue[i])
    BY <1>i, <1>r, <1>5 DEF Phases, CloseSent
  <2>2. CloseSent'
    <3>1. CASE Len(queue) = 1 BY <1>r, <1>s, <2>1, <3>1 DEF CloseSent
    <3>2. CASE Len(queue) > 1
      <4>1. OwnBatch(queue[1]) BY <1>s, <2>1, <3>2
      <4>2. \A i \in 1..(Len(queue') - 1) : OwnBatch(queue'[i])
        <5> TAKE i \in 1..(Len(queue') - 1)
        <5>1. i \in 1..Len(queue') /\ i + 1 \in 1..(Len(queue) - 1) BY <1>s
        <5> QED BY <1>s, <2>1, <5>1
      <4>3. Len(queue') > 0 /\ queue'[Len(queue')].kind = "close"
        <5>1. Len(queue') \in 1..Len(queue') /\ Len(queue') + 1 = Len(queue) BY <1>s, <3>2
        <5> QED BY <1>s, <2>1, <5>1
      <4> QED BY <1>r, <4>1, <4>2, <4>3 DEF CloseSent, BatchInHand, OwnBatch
    <3> QED BY <1>s, <3>1, <3>2
  <2> QED BY <1>1, <1>i, <1>r, <1>5, <2>2 DEF IInv, Phases, Attached
<1> QED BY <1>2, <1>3, <1>4, <1>5

LEMMA ActorKeeps ==
  ASSUME IInv, HandleAttach \/ HandleClose \/ WritePart \/ Cancel \/ DropBatch
  PROVE  IInv'
<1> USE DEF fifos, Done, IsBatch
<1>i. TypeOK /\ Phases BY DEF IInv
<1>1. CASE HandleAttach
  <2>1. main = "attaching" /\ current = AttachMessage /\ queue = <<>> BY <1>1, PhaseOfMessage DEF HandleAttach
  <2>2. current' = Nothing /\ left' = 0 /\ UNCHANGED <<conn, queue, fifos>> BY <1>1 DEF HandleAttach
  <2>3. CASE main' = "open" /\ file' = [f \in Files |-> current.conn] /\ close_requested' = FALSE
    <3>1. file' = [f \in Files |-> conn] BY <2>1, <2>3 DEF AttachMessage
    <3>2. TypeOK'
      <4>1. conn \in 0..MaxConnections BY <1>i DEF TypeOK
      <4>2. file' \in [Files -> 0..MaxConnections] BY <3>1, <4>1
      <4>3. close_requested' \in BOOLEAN BY <2>3
      <4> QED BY <1>i, <2>2, <2>3, <4>2, <4>3 DEF TypeOK
    <3>3. BatchesSent' BY <2>1, <2>2 DEF BatchesSent, BatchInHand, Nothing
    <3> QED BY <1>i, <2>1, <2>2, <2>3, <3>1, <3>2, <3>3 DEF IInv, Phases, Attached
  <2>4. CASE main' = "exited" /\ UNCHANGED <<file, close_requested>>
    <3>1. TypeOK' BY <1>i, <2>2, <2>4 DEF TypeOK
    <3> QED BY <1>i, <2>1, <2>2, <2>4, <3>1 DEF IInv, Phases, NothingSent, Nothing
  <2> QED BY <1>1, <2>3, <2>4 DEF HandleAttach
<1>2. CASE HandleClose
  <2>1. main = "closing" /\ queue = <<>> BY <1>2, PhaseOfMessage DEF HandleClose
  <2>2. TypeOK' BY <1>i, <1>2 DEF HandleClose, TypeOK
  <2> QED BY <1>2, <2>1, <2>2 DEF HandleClose, IInv, Phases, NothingSent, Detached, Nothing
<1>3. CASE WritePart
  <2>1. TypeOK'
    <3>1. PICK n \in 1..left :
            /\ stored[current.kind] + n <= Capacity
            /\ stored' = [stored EXCEPT ![current.kind] = @ + n]
            /\ IF n = left THEN Done ELSE left' = left - n /\ UNCHANGED current
      BY <1>3 DEF WritePart
    <3>2. current.kind \in Files /\ UNCHANGED <<main, conn, queue, file, close_requested, reader, given_up>>
      BY <1>3 DEF WritePart
    <3>3. stored[current.kind] \in 0..Capacity /\ left \in 0..GcrUnits BY <1>i, <3>2 DEF TypeOK
    <3>4. stored' \in [Files -> 0..Capacity]
      <4>1. stored[current.kind] + n \in 0..Capacity BY <3>1, <3>3
      <4> QED BY <1>i, <3>1, <3>2, <4>1 DEF TypeOK
    <3>5. left' \in 0..GcrUnits /\ current' \in Messages \cup {Nothing} BY <1>i, <3>1, <3>3 DEF TypeOK
    <3> QED BY <1>i, <3>2, <3>4, <3>5 DEF TypeOK
  <2>2. Phases' BY <1>3, BatchDone DEF WritePart
  <2> QED BY <2>1, <2>2 DEF IInv
<1>4. CASE Cancel
  <2>1. TypeOK' BY <1>i, <1>4 DEF Cancel, TypeOK
  <2>2. main # "open" BY <1>i, <1>4 DEF Cancel, Phases
  <2>3. Phases' BY <1>4, <2>2, BatchDone DEF Cancel
  <2> QED BY <2>1, <2>3 DEF IInv
<1>5. CASE DropBatch
  <2>1. TypeOK' BY <1>i, <1>5 DEF DropBatch, TypeOK
  <2>2. Phases' BY <1>5, BatchDone DEF DropBatch
  <2> QED BY <2>1, <2>2 DEF IInv
<1> QED BY <1>1, <1>2, <1>3, <1>4, <1>5

\* The node only takes units out of the FIFOs, or goes away.
LEMMA NodeKeeps ==
  ASSUME IInv, NEW f \in Files, NodeReads(f) \/ NodeCloses(f)
  PROVE  IInv'
<1>1. UNCHANGED <<main, conn, queue, actor, close_requested, given_up>>
  BY DEF NodeReads, NodeCloses
<1>2. stored' \in [Files -> 0..Capacity] /\ reader' \in [Files -> BOOLEAN]
  <2>1. stored \in [Files -> 0..Capacity] /\ reader \in [Files -> BOOLEAN] BY DEF IInv, TypeOK
  <2>2. CASE NodeReads(f)
    <3>1. stored[f] - 1 \in 0..Capacity BY <2>1, <2>2 DEF NodeReads
    <3> QED BY <2>1, <2>2, <3>1 DEF NodeReads
  <2>3. CASE NodeCloses(f) BY <2>1, <2>3 DEF NodeCloses
  <2> QED BY <2>2, <2>3
<1>3. TypeOK' BY <1>1, <1>2 DEF IInv, TypeOK, actor
<1>4. Phases'
  BY <1>1 DEF IInv, Phases, NothingSent, AttachSent, AttachMessage, BatchesSent, CloseSent,
              BatchInHand, OwnBatch, Attached, Detached, actor
<1> QED BY <1>3, <1>4 DEF IInv

LEMMA StepInv == IInv /\ [Next]_writerVars => IInv'
<1> SUFFICES ASSUME IInv, [Next]_writerVars PROVE IInv'
  OBVIOUS
<1>1. CASE Next
  BY <1>1, MainKeeps, ReceiveKeeps, ActorKeeps, NodeKeeps DEF Next, ActorStep
<1>2. CASE UNCHANGED writerVars
  BY <1>2 DEF IInv, TypeOK, Phases, NothingSent, AttachSent, AttachMessage, BatchesSent, CloseSent,
              BatchInHand, OwnBatch, Attached, Detached, writerVars, actor, fifos
<1> QED BY <1>1, <1>2

\* The inductive invariant: what is in the channel is a suffix of the script of
\* one connection - attach, batches, close.
THEOREM Invariance == Spec => []IInv
BY InitInv, StepInv, PTL DEF Spec

\* The variables keep their types: the channel holds at most MaxQueue messages,
\* with the place for CloseWriters never taken by a batch, and a FIFO never more
\* than its capacity.
THEOREM TypeCorrect == Spec => []TypeOK
<1>1. IInv => TypeOK BY DEF IInv
<1> QED BY <1>1, Invariance, PTL

\* A batch is written to the FIFO of the connection it was queued on, whatever
\* is left in the channel when that connection is dropped.
THEOREM OwnConnectionAlways == Spec => []OwnConnection
<1>1. IInv => OwnConnection BY PhaseOfMessage DEF OwnConnection, IsBatch, OwnBatch, Attached
<1> QED BY <1>1, Invariance, PTL

\* attach_writers is never refused with WritersAlreadyOpen.
THEOREM AttachAcceptedAlways == Spec => []AttachAccepted
<1>1. IInv => AttachAccepted BY PhaseOfMessage DEF AttachAccepted, IInv, Phases, Detached
<1> QED BY <1>1, Invariance, PTL

\* No batch is abandoned on an open connection.
THEOREM WholeBatchesAlways == Spec => []WholeBatches
<1>1. IInv => WholeBatches BY DEF WholeBatches, IInv, Phases
<1> QED BY <1>1, Invariance, PTL
=============================================================================
