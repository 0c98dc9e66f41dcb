------------------------ MODULE Recalibration_proofs ------------------------
(***************************************************************************)
(* Proofs about Recalibration, for any number of clients, any bounds and   *)
(* any use of the registers.                                               *)
(***************************************************************************)
EXTENDS Recalibration, Integers, TLAPS

----------------------------------------------------------------------------
(* The parts of the inductive invariant: the hardware sessions.            *)

\* What is between Bob and his node belongs to the batch he waits for.
OneInFlight ==
  /\ gcr = <<>> \/ echo = <<>>
  /\ gcr # <<>> \/ echo # <<>> =>
       run["bob"] \in {"check", "read"} \/ (run["bob"] = "closed" /\ linked["bob"])

HwInv == TypeOK /\ OneInFlight

----------------------------------------------------------------------------
(* The parts of the inductive invariant: who may drive the pair.           *)

Elems(s) == {s[i] : i \in 1..Len(s)}
OnePerClient(s) == \A i, j \in 1..Len(s) : s[i].client = s[j].client => i = j

\* A client has at most one request in each line, of the phase it is in or has
\* failed in, and one while it waits for an answer.
Queueing ==
  /\ \A p \in Players : OnePerClient(line[p])
  /\ \A p \in Players : \A r \in Elems(line[p]) :
       \/ phase[r.client] = r.command /\ ask[r.client][p] \in {"sent", "timeout"}
       \/ phase[r.client] = "failed"
  /\ \A p, q \in Players : \A r \in Elems(line[p]), s \in Elems(line[q]) :
       r.client = s.client => r.command = s.command
  /\ \A p \in Players : \A c \in Clients :
       /\ ask[c][p] = "sent" => \E r \in Elems(line[p]) : r.client = c
       /\ phase[c] \in {"done", "failed"} => ask[c][p] = "unsent"
  /\ \A p \in Players : main[p] = "finishing" => Asked(p, "resume")

\* c has paused p and has not, by its last request to p, let go of it.
Owns(c, p) ==
  \/ phase[c] = "pause" /\ ask[c][p] = "ok"
  \/ phase[c] = "synchronize"
  \/ phase[c] = "resume" /\ ask[c][p] = "unsent"
  \/ \E r \in Elems(line[p]) : r.client = c /\ r.command # "pause"

\* c has paused both and has not let go of both.
Active(c) == phase[c] # "pause" /\ \E p \in Players : Owns(c, p)

Exclusive ==
  /\ \A p \in Players : \A c, d \in Clients : Owns(c, p) /\ Owns(d, p) => c = d
  /\ \A c, d \in Clients : Active(c) /\ Active(d) => c = d

\* How far a simulator has come, by what its owner asks and has been told, unless
\* it has ended.
AtLast(p, places) == main[p] \in places \cup {"exited"}
Synchronizing == {"await_sync", "await_resume"}

Positions ==
  \A p \in Players :
    /\ \A c \in Clients :
         /\ phase[c] = "pause" /\ ask[c][p] = "ok" => AtLast(p, {"await_sync"})
         /\ phase[c] = "synchronize" =>
              /\ AtLast(p, Synchronizing)
              /\ ask[c][p] = "unsent" => AtLast(p, {"await_sync"})
              /\ ask[c][p] = "ok" => AtLast(p, {"await_resume"})
         /\ phase[c] = "resume" /\ ask[c][p] = "unsent" => AtLast(p, {"await_resume"})
    /\ \A r \in Elems(line[p]) :
         /\ r.command = "synchronize" =>
              AtLast(p, {"await_sync"}) /\ \A q \in Players : AtLast(q, Synchronizing)
         /\ r.command = "resume" => AtLast(p, {"await_resume", "finishing"})

\* When one simulator is on its way back to its sessions, so is every other one
\* that has caught up.
Realigned(p) == Mode(main[p]) = "realigned"
Aligned == \E p \in Players : Realigned(p) /\ ResumeUnderWay(p)
InStep == Aligned => \A p \in Players : Realigned(p) => ResumeUnderWay(p)

\* The pair of module PairPause goes on being, or not being, aligned.
SameAligned == Aligned' <=> Aligned

\* A client goes on to Resume: the simulators that are left have caught up.
NowAligned ==
  /\ ~Aligned /\ Aligned'
  /\ \E p \in Players : Realigned(p)
  /\ \A p \in Players : Realigned(p) \/ main[p] = "exited"

\* p is in step with nobody any more; the others are if they were.
AlignedWithout(p) == Aligned' <=> Aligned /\ \E q \in Players \ {p} : Realigned(q)

LineInv == Queueing /\ Exclusive /\ Positions /\ InStep

----------------------------------------------------------------------------
(* The parts of the inductive invariant: the counters.                     *)

\* Where both counters are to meet.
Meeting(c) ==
  IF progress[c]["alice"] > progress[c]["bob"] THEN progress[c]["alice"] ELSE progress[c]["bob"]

Comparable ==
  /\ \A c \in Clients, p \in Players :
       /\ phase[c] = "pause" /\ ask[c][p] = "ok" => sim[p].events = progress[c][p]
       /\ phase[c] = "synchronize" =>
            /\ main[p] = "await_sync" => sim[p].events = progress[c][p]
            /\ main[p] = "await_resume" => sim[p].events = Meeting(c)
  /\ \A p \in Players : \A r \in Elems(line[p]) : r.command = "synchronize" =>
       /\ Advance(sim[p].events, r.batches) = Meeting(r.client)
       /\ \A q \in Players : main[q] = "await_resume" => sim[q].events = Meeting(r.client)
  /\ (\A p \in Players : main[p] = "await_resume") => sim["alice"].events = sim["bob"].events

PairInv == PairTypeOK /\ OneInFlight /\ LineInv /\ Comparable

USE ModulusAssumption, MaxWireAssumption

----------------------------------------------------------------------------
(* The operators of Simulator and of the sequences.                        *)

LEMMA TwoPlayers == Players = {"alice", "bob"} /\ "alice" \in Players /\ "bob" \in Players
BY DEF Players

LEMMA Remainders ==
  ASSUME NEW a \in Int
  PROVE  a % Modulus \in Counter /\ (a \in Counter => a % Modulus = a)
<1>1. a % Modulus \in 0..(Modulus - 1) OBVIOUS
<1>2. a \in 0..(Modulus - 1) => a % Modulus = a OBVIOUS
<1> QED BY <1>1, <1>2 DEF Counter

LEMMA SimulatorSteps ==
  ASSUME NEW s \in Simulators
  PROVE  /\ Initialize(s) \in Simulators /\ Generate(s) \in Simulators /\ ThisBatch(s) \in Batches
         /\ End(s) \in Simulators /\ End(s).events = s.events
         /\ \A n \in Nat : Discard(s, n) \in Simulators /\ Discard(s, n).events = Advance(s.events, n)
         /\ s.events \in Counter
<1>1. s.events \in Counter /\ s.stream \in Counter BY DEF Simulators
<1>2. \A n \in Nat : Advance(s.events, n) \in Counter /\ Advance(s.stream, n) \in Counter
  <2> TAKE n \in Nat
  <2>1. s.events + n \in Int /\ s.stream + n \in Int BY <1>1 DEF Counter
  <2> QED BY <2>1, Remainders DEF Advance
<1>3. \A n \in Nat : Discard(s, n) \in Simulators /\ Discard(s, n).events = Advance(s.events, n)
  BY <1>2 DEF Simulators, Discard
<1>4. Generate(s) \in Simulators
  <2>1. 1 \in Nat OBVIOUS
  <2> QED BY <1>2, <2>1 DEF Simulators, Generate
<1>5. 0 \in Counter BY DEF Counter
<1>6. Initialize(s) \in Simulators BY <1>5 DEF Simulators, Initialize
<1>7. End(s) \in Simulators /\ End(s).events = s.events BY DEF Simulators, End
<1>8. ThisBatch(s) \in Batches BY <1>1 DEF ThisBatch, Batches
<1> QED BY <1>1, <1>3, <1>4, <1>6, <1>7, <1>8

LEMMA SeqFacts ==
  ASSUME NEW S, NEW s \in Seq(S)
  PROVE  /\ Len(s) \in Nat /\ DOMAIN s = 1..Len(s)
         /\ \A i \in 1..Len(s) : s[i] \in S
         /\ s # <<>> => /\ Len(s) > 0 /\ Head(s) = s[1] /\ Tail(s) \in Seq(S)
                        /\ Len(Tail(s)) = Len(s) - 1
                        /\ \A i \in 1..(Len(s) - 1) : Tail(s)[i] = s[i + 1]
         /\ \A x \in S : /\ Append(s, x) \in Seq(S)
                         /\ Len(Append(s, x)) = Len(s) + 1
                         /\ Append(s, x)[Len(s) + 1] = x
                         /\ \A i \in 1..Len(s) : Append(s, x)[i] = s[i]
OBVIOUS

LEMMA HeadFacts ==
  ASSUME NEW S, NEW s \in Seq(S), s # <<>>
  PROVE  Head(s) \in S
<1>1. Len(s) \in Nat /\ Len(s) > 0 /\ Head(s) = s[1] /\ \A i \in 1..Len(s) : s[i] \in S
  BY SeqFacts
<1>2. 1 \in 1..Len(s) BY <1>1
<1> QED BY <1>1, <1>2

LEMMA ShortSeq ==
  ASSUME NEW S, NEW s \in Seq(S), Len(s) <= 1, s # <<>>
  PROVE  Tail(s) = <<>>
<1>1. Len(s) \in Nat /\ Len(s) > 0 /\ Tail(s) \in Seq(S) /\ Len(Tail(s)) = Len(s) - 1 BY SeqFacts
<1>2. Len(Tail(s)) = 0 BY <1>1
<1> QED BY <1>1, <1>2

LEMMA OtherPlayer == Other("alice") = "bob" /\ Other("bob") = "alice"
<1>1. \E q \in Players : q # "alice" BY TwoPlayers
<1>2. \E q \in Players : q # "bob" BY TwoPlayers
<1>3. Other("alice") \in Players /\ Other("alice") # "alice" BY <1>1 DEF Other
<1>4. Other("bob") \in Players /\ Other("bob") # "bob" BY <1>2 DEF Other
<1> QED BY <1>3, <1>4, TwoPlayers

\* What is left of a pipe from its front.
LEMMA Prefixes ==
  ASSUME NEW S, NEW s \in Seq(S), NEW n \in 0..Len(s)
  PROVE  SubSeq(s, 1, n) \in Seq(S) /\ Len(SubSeq(s, 1, n)) = n
OBVIOUS

----------------------------------------------------------------------------
(* The hardware sessions.                                                  *)

LEMMA HwInitInv == PairInit => HwInv
<1> SUFFICES ASSUME PairInit PROVE HwInv
  OBVIOUS
<1>1. 0 \in Counter BY DEF Counter
<1>2. Fresh \in Simulators /\ <<0, 0>> \in Batches BY <1>1 DEF Fresh, Simulators, Batches
<1>3. <<>> \in Seq(Batches) /\ Len(<<>>) <= 1 /\ Len(<<>>) <= MaxWire OBVIOUS
<1>4. TypeOK BY <1>2, <1>3 DEF PairInit, Init, TypeOK, RunStates
<1>5. OneInFlight BY DEF PairInit, Init, OneInFlight
<1> QED BY <1>4, <1>5 DEF HwInv

\* The simulator of p closes its ends, or both ends are closed: the pipes of the
\* other player are left alone, and Bob's keep what is in them or lose it all.
LEMMA ClosedPipes ==
  ASSUME HwInv, NEW p \in Players, Emptied(p) \/ CloseEnds(p)
  PROVE  /\ gcr' \in Seq(Batches) /\ echo' \in Seq(Batches) /\ wire' \in Seq(Batches)
         /\ Len(gcr') <= 1 /\ Len(echo') <= 1 /\ Len(wire') <= MaxWire
         /\ p = "alice" => gcr' = gcr /\ echo' = echo
         /\ p = "bob" => \/ gcr' = <<>> /\ echo' = <<>>
                         \/ linked[p] /\ gcr' = gcr /\ echo' = echo
<1>1. <<>> \in Seq(Batches) /\ Len(<<>>) <= 1 /\ Len(<<>>) <= MaxWire OBVIOUS
<1>2. p = "alice" \/ p = "bob" BY TwoPlayers
<1>3. /\ wire' \in {wire, <<>>} /\ gcr' \in {gcr, <<>>} /\ echo' \in {echo, <<>>}
      /\ p = "alice" => gcr' = gcr /\ echo' = echo
      /\ p = "bob" => \/ gcr' = <<>> /\ echo' = <<>>
                      \/ linked[p] /\ gcr' = gcr /\ echo' = echo
  BY <1>2 DEF Emptied, CloseEnds, wires
<1> QED BY <1>1, <1>3 DEF HwInv, TypeOK

\* The simulator of p drops its connection.
LEMMA ClosingKeeps ==
  ASSUME HwInv, NEW p \in Players, CloseEnds(p), run' = [run EXCEPT ![p] = "closed"],
         UNCHANGED <<sim, last, drawn, heard, mmio, nodes>>
  PROVE  HwInv'
<1> USE TwoPlayers DEF nodes
<1>1. TypeOK' BY ClosedPipes DEF HwInv, TypeOK, RunStates
<1>2. OneInFlight'
  <2>1. CASE p = "alice" BY <2>1, ClosedPipes DEF HwInv, TypeOK, OneInFlight
  <2>2. CASE p = "bob" BY <2>2, ClosedPipes DEF HwInv, TypeOK, OneInFlight
  <2> QED BY <2>1, <2>2
<1> QED BY <1>1, <1>2 DEF HwInv

LEMMA RunnerKeeps ==
  ASSUME HwInv, NEW p \in Players, RunnerStep(p)
  PROVE  HwInv'
<1> USE TwoPlayers DEF GoTo, wires, nodes, RunStates, Loop
<1>1. TypeOK /\ OneInFlight /\ sim[p] \in Simulators BY DEF HwInv, TypeOK
<1>2. CASE Poll(p)
  <2>1. /\ run' \in [Players -> RunStates] /\ sim' \in [Players -> Simulators]
        /\ run[p] = "command" /\ \A q \in Players : q # p => run'[q] = run[q]
    BY <1>1, <1>2, SimulatorSteps DEF Poll, TypeOK, LoopStart
  <2>2. UNCHANGED wires \/ CloseEnds(p) BY <1>2 DEF Poll
  <2>3. /\ gcr' \in Seq(Batches) /\ echo' \in Seq(Batches) /\ wire' \in Seq(Batches)
        /\ Len(gcr') <= 1 /\ Len(echo') <= 1 /\ Len(wire') <= MaxWire
        /\ gcr' \in {gcr, <<>>} /\ echo' \in {echo, <<>>}
    <3>1. CASE UNCHANGED wires BY <1>1, <3>1 DEF TypeOK
    <3>2. CASE CloseEnds(p) BY <3>2, ClosedPipes
    <3> QED BY <2>2, <3>1, <3>2
  <2>4. last' \in [Players -> {0, 1}] BY <1>1, <1>2 DEF Poll, TypeOK
  <2>5. UNCHANGED <<drawn, heard, mmio, linked, ended, stale>> BY <1>2 DEF Poll
  <2>6. TypeOK' BY <1>1, <2>1, <2>3, <2>4, <2>5 DEF TypeOK
  <2>7. OneInFlight'
    <3>1. CASE p = "bob" BY <1>1, <2>1, <2>3, <3>1 DEF OneInFlight
    <3>2. CASE p = "alice"
      <4>1. gcr' = gcr /\ echo' = echo /\ run'["bob"] = run["bob"] /\ linked' = linked
        BY <2>1, <2>2, <2>5, <3>2, ClosedPipes
      <4> QED BY <1>1, <4>1 DEF OneInFlight
    <3> QED BY <3>1, <3>2
  <2> QED BY <2>6, <2>7 DEF HwInv
<1>3. CASE Check(p) BY <1>1, <1>3 DEF HwInv, Check, TypeOK, OneInFlight
<1>4. CASE WriteAngles(p) BY <1>1, <1>4 DEF HwInv, WriteAngles, TypeOK, OneInFlight, LoopStart
<1>5. CASE EndOfFile(p)
  <2>1. sim' \in [Players -> Simulators] BY <1>1, <1>5, SimulatorSteps DEF EndOfFile, TypeOK
  <2>2. Emptied(p) BY <1>5 DEF EndOfFile
  <2>3. TypeOK' BY <1>1, <1>5, <2>1, <2>2, ClosedPipes DEF EndOfFile, TypeOK
  <2>4. OneInFlight'
    <3>1. CASE p = "alice" BY <1>1, <1>5, <2>2, <3>1, ClosedPipes DEF EndOfFile, TypeOK, OneInFlight
    <3>2. CASE p = "bob" BY <2>2, <3>2 DEF Emptied, OneInFlight
    <3> QED BY <3>1, <3>2
  <2> QED BY <2>3, <2>4 DEF HwInv
<1>6. CASE BobGenerates
  <2>1. sim["bob"] \in Simulators BY <1>1 DEF TypeOK
  <2>2. sim' \in [Players -> Simulators] /\ drawn' \in [Players -> Batches]
    BY <1>1, <1>6, <2>1, SimulatorSteps DEF BobGenerates, TypeOK
  <2>3. gcr = <<>> /\ echo = <<>> BY <1>1, <1>6 DEF BobGenerates, OneInFlight
  <2>4. gcr' \in Seq(Batches) /\ Len(gcr') <= 1
    <3> DEFINE b == ThisBatch(sim["bob"])
    <3>1. b \in Batches BY <2>1, SimulatorSteps
    <3> HIDE DEF b
    <3>2. <<b>> \in Seq(Batches) /\ Len(<<b>>) = 1 /\ <<>> \in Seq(Batches) /\ Len(<<>>) = 0 BY <3>1
    <3>3. Append(<<>>, b) = <<b>> OBVIOUS
    <3>4. gcr' = <<>> \/ gcr' = <<b>> BY <1>6, <2>3, <3>3 DEF BobGenerates, b
    <3>5. CASE gcr' = <<>> BY <3>2, <3>5
    <3>6. CASE gcr' = <<b>> BY <3>2, <3>6
    <3> QED BY <3>4, <3>5, <3>6
  <2>5. TypeOK' BY <1>1, <1>6, <2>2, <2>4 DEF BobGenerates, TypeOK
  <2>6. OneInFlight' BY <1>1, <1>6, <2>3 DEF BobGenerates, TypeOK, OneInFlight
  <2> QED BY <2>5, <2>6 DEF HwInv
<1>7. CASE AliceGenerates
  <2>1. sim["alice"] \in Simulators BY <1>1 DEF TypeOK
  <2>2. sim' \in [Players -> Simulators] /\ drawn' \in [Players -> Batches]
    BY <1>1, <1>7, <2>1, SimulatorSteps DEF AliceGenerates, TypeOK
  <2>3. TypeOK' BY <1>1, <1>7, <2>2 DEF AliceGenerates, TypeOK
  <2>4. OneInFlight' BY <1>1, <1>7 DEF AliceGenerates, TypeOK, OneInFlight
  <2> QED BY <2>3, <2>4 DEF HwInv
<1>8. CASE BobReads
  <2>1. gcr = <<>> /\ echo # <<>> BY <1>1, <1>8 DEF BobReads, OneInFlight
  <2>2. echo' = <<>> BY <1>1, <1>8, <2>1, ShortSeq DEF BobReads, TypeOK
  <2>3. TypeOK' BY <1>1, <1>8, <2>2 DEF BobReads, TypeOK
  <2>4. OneInFlight' BY <1>8, <2>1, <2>2 DEF BobReads, OneInFlight
  <2> QED BY <2>3, <2>4 DEF HwInv
<1>9. CASE AliceReads
  <2>1. wire' \in Seq(Batches) /\ heard' \in Batches /\ Len(wire') <= MaxWire
    BY <1>1, <1>9, SeqFacts, HeadFacts DEF AliceReads, TypeOK
  <2>2. TypeOK' BY <1>1, <1>9, <2>1 DEF AliceReads, TypeOK
  <2>3. OneInFlight' BY <1>1, <1>9 DEF AliceReads, TypeOK, OneInFlight
  <2> QED BY <2>2, <2>3 DEF HwInv
<1> QED BY <1>2, <1>3, <1>4, <1>5, <1>6, <1>7, <1>8, <1>9 DEF RunnerStep

LEMMA DisconnectKeeps ==
  ASSUME HwInv, NEW p \in Players, Disconnect(p)
  PROVE  HwInv'
<1> USE TwoPlayers
<1>1. /\ UNCHANGED <<sim, run, last, drawn, heard, mmio, stale>> /\ NodeCloses(p) /\ Leaves(p, linked)
      /\ linked' = [linked EXCEPT ![p] = FALSE]
  BY DEF Disconnect, runner
<1>2. ended' \in [Players -> BOOLEAN] BY <1>1, OtherPlayer DEF HwInv, TypeOK, Leaves
<1>3. /\ gcr' \in {gcr, <<>>} /\ echo' \in {echo, <<>>}
      /\ wire' \in Seq(Batches) /\ Len(wire') <= MaxWire
      /\ run[p] = "closed" /\ p = "bob" => gcr' = <<>> /\ echo' = <<>>
  <2>0. <<>> \in Seq(Batches) /\ Len(<<>>) <= MaxWire OBVIOUS
  <2>1. wire \in Seq(Batches) /\ Len(wire) <= MaxWire BY DEF HwInv, TypeOK
  <2>2. CASE Emptied(p) BY <2>0, <2>1, <2>2 DEF Emptied
  <2>3. CASE run[p] # "closed" /\ LeftBehind(p)
    <3>1. CASE p = "bob" BY <2>1, <2>3, <3>1 DEF LeftBehind
    <3>2. CASE p # "bob"
      <4>1. PICK n \in 0..Len(wire) : wire' = SubSeq(wire, 1, n) BY <2>3, <3>2 DEF LeftBehind
      <4>2. wire' \in Seq(Batches) /\ Len(wire') = n BY <2>1, <4>1, Prefixes
      <4>3. Len(wire) \in Nat BY <2>1, SeqFacts
      <4> QED BY <2>1, <2>3, <3>2, <4>2, <4>3 DEF LeftBehind
    <3> QED BY <3>1, <3>2
  <2> QED BY <1>1, <2>2, <2>3 DEF NodeCloses
<1>4. <<>> \in Seq(Batches) /\ Len(<<>>) <= 1 OBVIOUS
<1>5. TypeOK' BY <1>1, <1>2, <1>3, <1>4 DEF HwInv, TypeOK
<1>6. OneInFlight' BY <1>1, <1>3 DEF HwInv, TypeOK, OneInFlight
<1> QED BY <1>5, <1>6 DEF HwInv

LEMMA NodesKeep ==
  ASSUME HwInv, Relay \/ \E p \in Players : Connect(p) \/ Disconnect(p) \/ Relink(p) \/ WriteRegister(p)
  PROVE  HwInv'
<1> USE TwoPlayers DEF GoTo, wires, runner, nodes, RunStates, Loop
<1>1. TypeOK /\ OneInFlight BY DEF HwInv
<1>2. CASE Relay
  <2>1. /\ linked["bob"] /\ gcr # <<>> /\ echo = <<>> /\ gcr' = <<>>
        /\ run["bob"] \in {"check", "read", "closed"} /\ Head(gcr) \in Batches
    BY <1>1, <1>2, ShortSeq, HeadFacts DEF Relay, OneInFlight, TypeOK
  <2>2. wire' \in Seq(Batches) /\ Len(wire') <= MaxWire
    BY <1>1, <1>2, <2>1, SeqFacts DEF Relay, TypeOK
  <2>3. echo' \in Seq(Batches) /\ Len(echo') <= 1
    BY <1>1, <1>2, <2>1, SeqFacts DEF Relay, TypeOK
  <2>4. TypeOK' BY <1>1, <1>2, <2>1, <2>2, <2>3 DEF Relay, TypeOK
  <2>5. OneInFlight' BY <1>2, <2>1 DEF Relay, OneInFlight
  <2> QED BY <2>4, <2>5 DEF HwInv
<1>3. ASSUME NEW p \in Players, Connect(p) \/ Disconnect(p) \/ Relink(p) \/ WriteRegister(p) PROVE HwInv'
  <2>1. CASE Connect(p) BY <1>1, <2>1 DEF HwInv, Connect, TypeOK, OneInFlight
  <2>2. CASE Relink(p) BY <1>1, <2>2 DEF HwInv, Relink, TypeOK, OneInFlight
  <2>3. CASE WriteRegister(p)
    <3>1. mmio' \in [Players -> {0, 1}] BY <1>1, <2>3 DEF WriteRegister, TypeOK
    <3> QED BY <1>1, <2>3, <3>1 DEF HwInv, WriteRegister, TypeOK, OneInFlight
  <2>4. CASE Disconnect(p) BY <2>4, DisconnectKeeps
  <2> QED BY <1>3, <2>1, <2>2, <2>3, <2>4
<1> QED BY <1>2, <1>3

\* What the recalibration does to the simulators: it closes a connection, counts
\* on, or ends a session.
LEMMA ControlKeepsHw ==
  ASSUME PairTypeOK, HwInv, NEW p \in Players,
         TakePause(p) \/ Synchronize(p) \/ TakeResume(p) \/ Crash(p)
  PROVE  HwInv'
<1> USE TwoPlayers DEF wires, runner, nodes
<1>1. TypeOK /\ OneInFlight /\ sim[p] \in Simulators BY DEF HwInv, TypeOK
<1>2. CASE TakePause(p) \/ Crash(p)
  <2>1. /\ CloseEnds(p) /\ run' = [run EXCEPT ![p] = "closed"]
        /\ UNCHANGED <<sim, last, drawn, heard, mmio, nodes>>
    BY <1>2 DEF TakePause, Crash
  <2> QED BY <2>1, ClosingKeeps
<1>3. ASSUME sim' \in [Players -> Simulators],
             UNCHANGED <<run, last, drawn, heard, mmio, linked, ended, stale, gcr, echo, wire>>
      PROVE  HwInv'
  BY <1>1, <1>3 DEF HwInv, TypeOK, OneInFlight
<1>4. CASE Synchronize(p)
  <2>1. line[p] # <<>> /\ line[p] \in Seq(Lines) BY <1>4 DEF Synchronize, Asked, PairTypeOK
  <2>2. Head(line[p]).batches \in Nat
    <3>1. Head(line[p]) \in Lines BY <2>1, HeadFacts
    <3> QED BY <3>1 DEF Lines, Counter
  <2>3. sim' \in [Players -> Simulators]
    <3>1. sim' = sim \/ sim' = [sim EXCEPT ![p] = Discard(sim[p], Head(line[p]).batches)]
      BY <1>4 DEF Synchronize
    <3>2. Discard(sim[p], Head(line[p]).batches) \in Simulators BY <1>1, <2>2, SimulatorSteps
    <3> QED BY <1>1, <3>1, <3>2 DEF TypeOK
  <2> QED BY <1>3, <1>4, <2>3 DEF Synchronize
<1>5. CASE TakeResume(p)
  <2>1. sim' \in [Players -> Simulators]
    <3>1. sim' = sim \/ sim' = [sim EXCEPT ![p] = End(sim[p])] BY <1>5 DEF TakeResume
    <3> QED BY <1>1, <3>1, SimulatorSteps DEF TypeOK
  <2> QED BY <1>3, <1>5, <2>1 DEF TakeResume
<1> QED BY <1>2, <1>4, <1>5

----------------------------------------------------------------------------
(* The lines.                                                              *)

LEMMA Appended ==
  ASSUME NEW s \in Seq(Lines), NEW x \in Lines
  PROVE  /\ Append(s, x) \in Seq(Lines) /\ Append(s, x) # <<>>
         /\ Elems(Append(s, x)) = Elems(s) \cup {x}
         /\ s # <<>> => Head(Append(s, x)) = Head(s)
         /\ OnePerClient(s) /\ (\A r \in Elems(s) : r.client # x.client) => OnePerClient(Append(s, x))
<1> DEFINE t == Append(s, x)
<1>1. /\ Len(s) \in Nat /\ t \in Seq(Lines) /\ Len(t) = Len(s) + 1 /\ t[Len(s) + 1] = x
      /\ \A i \in 1..Len(s) : t[i] = s[i]
  BY SeqFacts
<1> HIDE DEF t
<1>2. t # <<>>
  <2>1. Len(t) # 0 BY <1>1
  <2>2. ASSUME t = <<>> PROVE Len(t) = 0 BY <2>2
  <2> QED BY <2>1, <2>2
<1>3. 1..Len(t) = 1..Len(s) \cup {Len(s) + 1} BY <1>1
<1>4. Elems(t) = Elems(s) \cup {x} BY <1>1, <1>3 DEF Elems
<1>5. ASSUME s # <<>> PROVE Head(t) = Head(s)
  <2>1. Len(s) > 0 /\ Head(s) = s[1] /\ Head(t) = t[1] BY <1>1, <1>2, <1>5, SeqFacts
  <2>2. 1 \in 1..Len(s) BY <1>1, <2>1
  <2> QED BY <1>1, <2>1, <2>2
<1>6. ASSUME OnePerClient(s), \A r \in Elems(s) : r.client # x.client PROVE OnePerClient(t)
  <2>1. \A i \in 1..Len(s) : t[i].client # x.client BY <1>1, <1>6 DEF Elems
  <2> SUFFICES ASSUME NEW i \in 1..Len(t), NEW j \in 1..Len(t), t[i].client = t[j].client PROVE i = j
    BY DEF OnePerClient
  <2>2. CASE i \in 1..Len(s) /\ j \in 1..Len(s) BY <1>1, <1>6, <2>2 DEF OnePerClient
  <2>3. CASE i = Len(s) + 1 /\ j = Len(s) + 1 BY <2>3
  <2>4. CASE i \in 1..Len(s) /\ j = Len(s) + 1 BY <1>1, <2>1, <2>4
  <2>5. CASE i = Len(s) + 1 /\ j \in 1..Len(s) BY <1>1, <2>1, <2>5
  <2> QED BY <1>3, <2>2, <2>3, <2>4, <2>5
<1> QED BY <1>1, <1>2, <1>4, <1>5, <1>6 DEF t

LEMMA Removed ==
  ASSUME NEW s \in Seq(Lines), s # <<>>, OnePerClient(s)
  PROVE  /\ Tail(s) \in Seq(Lines) /\ Head(s) \in Lines /\ Head(s) \in Elems(s)
         /\ Elems(Tail(s)) = {r \in Elems(s) : r.client # Head(s).client}
         /\ \A r \in Elems(s) : r.client = Head(s).client => r = Head(s)
         /\ OnePerClient(Tail(s))
<1>1. /\ Len(s) \in Nat /\ Len(s) > 0 /\ Tail(s) \in Seq(Lines) /\ Len(Tail(s)) = Len(s) - 1
      /\ Head(s) = s[1] /\ \A i \in 1..(Len(s) - 1) : Tail(s)[i] = s[i + 1]
  BY SeqFacts
<1>2. Head(s) \in Lines BY HeadFacts
<1> DEFINE t == Tail(s)
           n == Len(s)
<1>3. /\ n \in Nat /\ n > 0 /\ Len(t) = n - 1 /\ Head(s) = s[1]
      /\ \A i \in 1..(n - 1) : t[i] = s[i + 1]
      /\ \A i, j \in 1..n : s[i].client = s[j].client => i = j
      /\ Elems(s) = {s[i] : i \in 1..n} /\ Elems(t) = {t[i] : i \in 1..(n - 1)}
  BY <1>1 DEF Elems, OnePerClient
<1> HIDE DEF t, n
<1>4. 1 \in 1..n /\ (\A i \in 1..(n - 1) : i + 1 \in 1..n /\ i + 1 # 1)
      /\ \A i \in 1..n : i # 1 => i - 1 \in 1..(n - 1) /\ (i - 1) + 1 = i
  BY <1>3
<1>5. \A r \in Elems(s) : r.client = Head(s).client => r = Head(s) BY <1>3, <1>4
<1>6. \A r \in Elems(t) : r \in Elems(s) /\ r.client # Head(s).client BY <1>3, <1>4
<1>7. \A r \in Elems(s) : r.client # Head(s).client => r \in Elems(t)
  <2> SUFFICES ASSUME NEW r \in Elems(s), r.client # Head(s).client PROVE r \in Elems(t)
    OBVIOUS
  <2>1. PICK i \in 1..n : r = s[i] BY <1>3
  <2>2. i # 1 BY <1>3, <2>1
  <2>3. i - 1 \in 1..(n - 1) /\ t[i - 1] = s[i]
    <3>1. i - 1 \in 1..(n - 1) /\ (i - 1) + 1 = i BY <1>4, <2>2
    <3>2. t[i - 1] = s[(i - 1) + 1] BY <1>3, <3>1
    <3> QED BY <3>1, <3>2
  <2> QED BY <1>3, <2>1, <2>3
<1>8. OnePerClient(t)
  <2> SUFFICES ASSUME NEW i \in 1..(n - 1), NEW j \in 1..(n - 1), t[i].client = t[j].client PROVE i = j
    BY <1>3 DEF OnePerClient
  <2>1. i + 1 = j + 1 BY <1>3, <1>4
  <2>2. n \in Int /\ i \in Int /\ j \in Int BY <1>3
  <2> QED BY ONLY <2>1, <2>2
<1>9. Head(s) \in Elems(s) BY <1>3, <1>4
<1> QED BY <1>1, <1>2, <1>5, <1>6, <1>7, <1>8, <1>9 DEF t

LEMMA RequestsTyped ==
  ASSUME PairTypeOK
  PROVE  /\ \A p \in Players : line[p] \in Seq(Lines)
         /\ \A p \in Players : \A r \in Elems(line[p]) :
              r \in Lines /\ r.client \in Clients /\ r.command \in Commands /\ r.batches \in Counter
         /\ \A c \in Clients : phase[c] \in PhaseStates
         /\ \A c \in Clients, p \in Players : ask[c][p] \in {"unsent", "sent"} \cup Answers
<1>1. \A p \in Players : line[p] \in Seq(Lines) BY DEF PairTypeOK
<1>2. \A p \in Players : \A r \in Elems(line[p]) : r \in Lines BY <1>1, SeqFacts DEF Elems
<1>3. \A r \in Lines : r.client \in Clients /\ r.command \in Commands /\ r.batches \in Counter
  BY DEF Lines
<1> QED BY <1>1, <1>2, <1>3 DEF PairTypeOK

\* The request h of p is answered, and nothing else.
Answered(p, h, answer) ==
  /\ h \in Elems(line[p]) /\ h.client \in Clients
  /\ line' \in [Players -> Seq(Lines)]
  /\ ask' \in [Clients -> [Players -> {"unsent", "sent"} \cup Answers]]
  /\ \A q \in Players : q # p => line'[q] = line[q]
  /\ \A r : r \in Elems(line'[p]) <=> r \in Elems(line[p]) /\ r.client # h.client
  /\ \A q \in Players : Elems(line'[q]) \subseteq Elems(line[q])
  /\ \A d \in Clients, q \in Players : d # h.client \/ q # p => ask'[d][q] = ask[d][q]
  /\ ask[h.client][p] = "sent" => ask'[h.client][p] = answer
  /\ ask[h.client][p] # "sent" => ask'[h.client][p] = ask[h.client][p]

LEMMA Replied ==
  ASSUME PairTypeOK, Queueing, NEW p \in Players, NEW answer \in Answers, line[p] # <<>>,
         Reply(p, answer), phase' = phase,
         NEW h, h = Head(line[p])
  PROVE  /\ Answered(p, h, answer)
         /\ (\A q \in Players : main'[q] = "finishing" => main[q] = "finishing" /\ q # p) => Queueing'
<1>1. line[p] \in Seq(Lines) /\ OnePerClient(line[p]) BY RequestsTyped DEF Queueing
<1>2. /\ Tail(line[p]) \in Seq(Lines) /\ h \in Lines /\ h \in Elems(line[p])
      /\ Elems(Tail(line[p])) = {r \in Elems(line[p]) : r.client # h.client}
      /\ OnePerClient(Tail(line[p]))
  BY <1>1, Removed
<1>3. h.client \in Clients BY <1>2 DEF Lines
<1>4. /\ line' = [line EXCEPT ![p] = Tail(line[p])]
      /\ ask' = [ask EXCEPT ![h.client][p] = IF ask[h.client][p] = "sent" THEN answer ELSE ask[h.client][p]]
  BY DEF Reply
<1>5. /\ line' \in [Players -> Seq(Lines)] /\ line'[p] = Tail(line[p])
      /\ \A q \in Players : q # p => line'[q] = line[q]
  BY <1>2, <1>4 DEF PairTypeOK
<1>6. /\ \A d \in Clients, q \in Players : d # h.client \/ q # p => ask'[d][q] = ask[d][q]
      /\ ask'[h.client][p] = IF ask[h.client][p] = "sent" THEN answer ELSE ask[h.client][p]
  BY <1>3, <1>4 DEF PairTypeOK
<1>7. ask' \in [Clients -> [Players -> {"unsent", "sent"} \cup Answers]]
  <2>1. (IF ask[h.client][p] = "sent" THEN answer ELSE ask[h.client][p]) \in {"unsent", "sent"} \cup Answers
    BY <1>3, RequestsTyped
  <2> QED BY <1>3, <1>4, <2>1 DEF PairTypeOK
<1>8. \A r : r \in Elems(line'[p]) <=> r \in Elems(line[p]) /\ r.client # h.client BY <1>2, <1>5
<1>9. \A q \in Players : Elems(line'[q]) \subseteq Elems(line[q]) BY <1>5, <1>8
<1>10. ASSUME \A q \in Players : main'[q] = "finishing" => main[q] = "finishing" /\ q # p
       PROVE  Queueing'
  <2>1. \A q \in Players : OnePerClient(line'[q]) BY <1>2, <1>5 DEF Queueing
  <2>2. \A q \in Players : \A r \in Elems(line'[q]) :
          \/ phase[r.client] = r.command /\ ask'[r.client][q] \in {"sent", "timeout"}
          \/ phase[r.client] = "failed"
    <3> SUFFICES ASSUME NEW q \in Players, NEW r \in Elems(line'[q]), phase[r.client] # "failed"
                 PROVE  phase[r.client] = r.command /\ ask'[r.client][q] \in {"sent", "timeout"}
      OBVIOUS
    <3>1. r \in Elems(line[q]) /\ (r.client # h.client \/ q # p) BY <1>5, <1>8
    <3>2. ask'[r.client][q] = ask[r.client][q] BY <1>6, <3>1, RequestsTyped
    <3> QED BY <3>1, <3>2 DEF Queueing
  <2>3. \A q1, q2 \in Players : \A r \in Elems(line'[q1]), s \in Elems(line'[q2]) :
          r.client = s.client => r.command = s.command
    BY <1>9 DEF Queueing
  <2>4. \A q \in Players : \A c \in Clients : ask'[c][q] = "sent" => \E r \in Elems(line'[q]) : r.client = c
    <3> SUFFICES ASSUME NEW q \in Players, NEW c \in Clients, ask'[c][q] = "sent"
                 PROVE  \E r \in Elems(line'[q]) : r.client = c
      OBVIOUS
    <3>1. ~(c = h.client /\ q = p) BY <1>6 DEF Answers
    <3>2. ask[c][q] = "sent" BY <1>6, <3>1
    <3>3. PICK r \in Elems(line[q]) : r.client = c BY <3>2 DEF Queueing
    <3>4. r \in Elems(line'[q])
      <4>1. CASE q = p BY <1>8, <3>1, <3>3, <4>1
      <4>2. CASE q # p BY <1>5, <3>3, <4>2
      <4> QED BY <4>1, <4>2
    <3> QED BY <3>3, <3>4
  <2>5. \A q \in Players, c \in Clients : phase[c] \in {"done", "failed"} => ask'[c][q] = "unsent"
    BY <1>3, <1>6 DEF Queueing
  <2>6. \A q \in Players : main'[q] = "finishing" => Asked(q, "resume")'
    BY <1>5, <1>10 DEF Queueing, Asked
  <2> QED BY <2>1, <2>2, <2>3, <2>4, <2>5, <2>6 DEF Queueing
<1> QED BY <1>2, <1>3, <1>5, <1>6, <1>7, <1>8, <1>9, <1>10 DEF Answered

\* What the requests of a line say about their clients.
LEMMA Requests ==
  ASSUME PairTypeOK, Queueing, NEW p \in Players, NEW r \in Elems(line[p])
  PROVE  /\ r.client \in Clients /\ phase[r.client] \in {r.command, "failed"}
         /\ r.command \in Commands
         /\ r.command # "pause" => Owns(r.client, p) /\ Active(r.client)
         /\ phase[r.client] = r.command => ask[r.client][p] \in {"sent", "timeout"}
<1>1. r.client \in Clients /\ r.command \in Commands BY RequestsTyped
<1>2. \/ phase[r.client] = r.command /\ ask[r.client][p] \in {"sent", "timeout"}
      \/ phase[r.client] = "failed"
  BY DEF Queueing
<1>3. r.command # "pause" => Owns(r.client, p) BY DEF Owns
<1>4. r.command # "pause" => Active(r.client) BY <1>2, <1>3 DEF Active
<1>5. phase[r.client] = r.command => ask[r.client][p] \in {"sent", "timeout"} BY <1>1, <1>2 DEF Commands
<1> QED BY <1>1, <1>2, <1>3, <1>4, <1>5

\* A simulator that a client has paused is not in its sessions.
LEMMA OwnedHeld ==
  ASSUME PairTypeOK, Queueing, Positions, NEW c \in Clients, NEW p \in Players, Owns(c, p)
  PROVE  main[p] \notin {"serving", "completing"}
<1>1. CASE phase[c] = "pause" /\ ask[c][p] = "ok" BY <1>1 DEF Positions, AtLast
<1>2. CASE phase[c] = "synchronize" BY <1>2 DEF Positions, AtLast, Synchronizing
<1>3. CASE phase[c] = "resume" /\ ask[c][p] = "unsent" BY <1>3 DEF Positions, AtLast
<1>4. CASE \E r \in Elems(line[p]) : r.client = c /\ r.command # "pause"
  <2>1. PICK r \in Elems(line[p]) : r.command # "pause" BY <1>4
  <2>2. r.command \in {"synchronize", "resume"} BY <2>1, Requests DEF Commands
  <2> QED BY <2>2 DEF Positions, AtLast
<1> QED BY <1>1, <1>2, <1>3, <1>4 DEF Owns

----------------------------------------------------------------------------
(* The initial states, and the sessions.                                   *)

LEMMA PairInitInv == PairInit => PairInv
<1> SUFFICES ASSUME PairInit PROVE PairInv
  OBVIOUS
<1> USE TwoPlayers
<1>1. HwInv BY HwInitInv
<1>2. /\ phase = [c \in Clients |-> "pause"] /\ ask = [c \in Clients |-> NothingAsked]
      /\ progress = [c \in Clients |-> [p \in Players |-> 0]]
      /\ line = [p \in Players |-> <<>>] /\ main = [p \in Players |-> "serving"]
  BY DEF PairInit
<1>3. \A p \in Players : line[p] = <<>> /\ main[p] = "serving" BY <1>2
<1>4. \A c \in Clients : phase[c] = "pause" /\ \A p \in Players : ask[c][p] = "unsent"
  BY <1>2 DEF NothingAsked
<1>5. \A p \in Players : Elems(line[p]) = {} BY <1>3 DEF Elems
<1>6. PairTypeOK
  <2>1. 0 \in Counter /\ <<>> \in Seq(Lines) BY DEF Counter
  <2>2. NothingAsked \in [Players -> {"unsent", "sent"} \cup Answers] BY DEF NothingAsked
  <2> QED BY <1>1, <1>2, <2>1, <2>2 DEF PairTypeOK, HwInv, PhaseStates, Commands
<1>7. Queueing
  <2>1. \A p \in Players : OnePerClient(line[p]) BY <1>3 DEF OnePerClient
  <2> QED BY <1>3, <1>4, <1>5, <2>1 DEF Queueing
<1>8. \A c \in Clients, p \in Players : ~Owns(c, p) BY <1>4, <1>5 DEF Owns
<1>9. Exclusive BY <1>8 DEF Exclusive, Active
<1>10. Positions BY <1>4, <1>5 DEF Positions, AtLast
<1>11. InStep BY <1>3 DEF InStep, Realigned, Mode
<1>12. Comparable BY <1>3, <1>4, <1>5 DEF Comparable
<1> QED BY <1>1, <1>6, <1>7, <1>9, <1>10, <1>11, <1>12 DEF PairInv, HwInv, LineInv

\* The sessions move no request, and no counter that has been compared.
LEMMA SessionsKeep ==
  ASSUME PairInv, (\E p \in Players : SessionStep(p)) \/ OutsideStep
  PROVE  PairInv' /\ SameAligned
<1> USE TwoPlayers
<1>1. PairTypeOK /\ HwInv /\ LineInv /\ Comparable BY DEF PairInv, HwInv, PairTypeOK
<1>2. phase' = phase /\ ask' = ask /\ progress' = progress /\ line' = line /\ main' = main
  BY DEF SessionStep, OutsideStep, clientVars
<1>3. HwInv'
  <2>1. ASSUME NEW p \in Players, SessionStep(p) PROVE HwInv'
    <3>1. RunnerStep(p) \/ Connect(p) BY <2>1 DEF SessionStep
    <3> QED BY <1>1, <3>1, RunnerKeeps, NodesKeep
  <2>2. CASE OutsideStep
    <3>1. Relay \/ \E p \in Players : Connect(p) \/ Disconnect(p) \/ Relink(p) \/ WriteRegister(p)
      BY <2>2 DEF OutsideStep
    <3> QED BY <1>1, <3>1, NodesKeep
  <2> QED BY <2>1, <2>2
<1>4. PairTypeOK' BY <1>1, <1>2, <1>3 DEF PairTypeOK, HwInv
<1>5. LineInv'
  <2>1. Queueing' BY <1>1, <1>2 DEF LineInv, Queueing, Asked
  <2>2. Exclusive' BY <1>1, <1>2 DEF LineInv, Exclusive, Active, Owns
  <2>3. Positions' BY <1>1, <1>2 DEF LineInv, Positions, AtLast
  <2>4. InStep' BY <1>1, <1>2 DEF LineInv, InStep, Aligned, Realigned, ResumeUnderWay
  <2> QED BY <2>1, <2>2, <2>3, <2>4 DEF LineInv
<1>8. SameAligned BY <1>2 DEF SameAligned, Aligned, Realigned, ResumeUnderWay
<1>6. \A p \in Players : main[p] # "serving" => sim'[p] = sim[p]
  <2>1. ASSUME NEW p \in Players, SessionStep(p), NEW q \in Players, main[q] # "serving"
        PROVE  sim'[q] = sim[q]
    <3>1. q # p BY <2>1 DEF SessionStep
    <3>2. RunnerStep(p) \/ Connect(p) BY <2>1 DEF SessionStep
    <3>3. CASE RunnerStep(p)
      BY <1>1, <3>1, <3>3 DEF RunnerStep, Poll, Check, WriteAngles, EndOfFile, BobGenerates, BobReads,
                              AliceGenerates, AliceReads, HwInv, TypeOK
    <3>4. CASE Connect(p) BY <3>4 DEF Connect
    <3> QED BY <3>2, <3>3, <3>4
  <2>2. CASE OutsideStep BY <2>2 DEF OutsideStep, Relay, Disconnect, Relink, WriteRegister
  <2> QED BY <2>1, <2>2
<1>7. Comparable'
  <2>1. \A c \in Clients, p \in Players : phase[c] = "pause" /\ ask[c][p] = "ok" => main[p] \in {"await_sync", "exited"}
    BY <1>1 DEF LineInv, Positions, AtLast
  <2>2. \A p \in Players : \A r \in Elems(line[p]) : r.command = "synchronize" => main[p] \in {"await_sync", "exited"}
    BY <1>1 DEF LineInv, Positions, AtLast
  <2> QED BY <1>1, <1>2, <1>6, <2>1, <2>2 DEF Comparable, Meeting
<1> QED BY <1>3, <1>4, <1>5, <1>7, <1>8 DEF PairInv, HwInv

----------------------------------------------------------------------------
(* The clients.                                                            *)

LEMMA HwUnchanged ==
  ASSUME HwInv, UNCHANGED hwVars
  PROVE  HwInv' /\ sim' = sim
BY DEF HwInv, hwVars, runner, nodes, wires, TypeOK, OneInFlight

LEMMA ResumesInLine ==
  ASSUME NEW s \in Seq(Lines)
  PROVE  (\E i \in DOMAIN s : s[i].command = "resume") <=> \E r \in Elems(s) : r.command = "resume"
<1>1. DOMAIN s = 1..Len(s) BY SeqFacts
<1> QED BY <1>1 DEF Elems

\* A step after which nobody owns more, and whoever is active owned the pair or
\* was active before.
LEMMA ExclusiveShrinks ==
  ASSUME Exclusive,
         \A c \in Clients : \A p \in Players : Owns(c, p)' => Owns(c, p),
         \A c \in Clients : Active(c)' => Active(c) \/ \A p \in Players : Owns(c, p)
  PROVE  Exclusive'
<1>1. \A p \in Players : \A c, d \in Clients : Owns(c, p)' /\ Owns(d, p)' => c = d BY DEF Exclusive
<1>2. \A c, d \in Clients : Active(c)' /\ Active(d)' => c = d
  <2> SUFFICES ASSUME NEW c \in Clients, NEW d \in Clients, Active(c)', Active(d)' PROVE c = d
    OBVIOUS
  <2>1. \A p \in Players : Owns(c, p) /\ Owns(d, p) => c = d BY DEF Exclusive
  <2>2. Active(c) => \E p \in Players : Owns(c, p) BY DEF Active
  <2>3. Active(d) => \E p \in Players : Owns(d, p) BY DEF Active
  <2>4. CASE Active(c) /\ Active(d) BY <2>4 DEF Exclusive
  <2>5. CASE ~Active(c) \/ ~Active(d)
    <3>1. \E p \in Players : Owns(c, p) /\ Owns(d, p) BY <2>2, <2>3, <2>5, TwoPlayers
    <3> QED BY <2>1, <3>1
  <2> QED BY <2>4, <2>5
<1> QED BY <1>1, <1>2 DEF Exclusive

LEMMA InStepWithout ==
  ASSUME InStep, NEW p \in Players, ~Realigned(p)',
         \A q \in Players : q # p => (Realigned(q)' <=> Realigned(q)),
         \A q \in Players : q # p => (ResumeUnderWay(q)' <=> ResumeUnderWay(q))
  PROVE  InStep' /\ (~Realigned(p) => SameAligned)
BY DEF InStep, Aligned, SameAligned

LEMMA InStepKept ==
  ASSUME InStep,
         \A p \in Players : Realigned(p)' <=> Realigned(p),
         \A p \in Players : Realigned(p) => (ResumeUnderWay(p)' <=> ResumeUnderWay(p))
  PROVE  InStep' /\ SameAligned
BY DEF InStep, Aligned, SameAligned

\* A request that is refused before it is sent, or given up.
LEMMA AnsweredByItself ==
  ASSUME PairInv, NEW c \in Clients, NEW p \in Players, NEW v \in {"error", "timeout"},
         phase[c] \notin {"done", "failed"}, ask[c][p] \in {"unsent", "sent"},
         ask[c][p] = "unsent" => main[p] = "exited",
         ask[c][p] = "sent" => v = "timeout",
         ask' = [ask EXCEPT ![c][p] = v], UNCHANGED <<phase, progress, line, main, hwVars>>
  PROVE  PairInv' /\ SameAligned
<1>1. PairTypeOK /\ HwInv /\ Queueing /\ Exclusive /\ Positions /\ InStep /\ Comparable
  BY DEF PairInv, HwInv, PairTypeOK, LineInv
<1>2. /\ phase' = phase /\ progress' = progress /\ line' = line /\ main' = main
      /\ HwInv' /\ sim' = sim
  BY <1>1, HwUnchanged
<1>3. /\ \A d \in Clients, q \in Players : d # c \/ q # p => ask'[d][q] = ask[d][q]
      /\ ask'[c][p] = v
      /\ ask' \in [Clients -> [Players -> {"unsent", "sent"} \cup Answers]]
  BY <1>1 DEF PairTypeOK, Answers
<1>4. PairTypeOK' BY <1>1, <1>2, <1>3 DEF PairTypeOK, HwInv
<1>5. \A q \in Players : \A r \in Elems(line[q]) : r.client \in Clients BY <1>1, RequestsTyped
\* A client whose Resume finds nobody gives the simulator up.
<1>6. phase[c] = "resume" /\ ask[c][p] = "unsent" => main[p] = "exited" OBVIOUS
<1>7. Queueing'
  <2>1. \A q \in Players : \A r \in Elems(line[q]) :
          \/ phase[r.client] = r.command /\ ask'[r.client][q] \in {"sent", "timeout"}
          \/ phase[r.client] = "failed"
    BY <1>1, <1>3, <1>5 DEF Queueing
  <2>2. \A q \in Players : \A d \in Clients :
         /\ ask'[d][q] = "sent" => \E r \in Elems(line[q]) : r.client = d
         /\ phase[d] \in {"done", "failed"} => ask'[d][q] = "unsent"
    BY <1>1, <1>3 DEF Queueing
  <2> QED BY <1>1, <1>2, <2>1, <2>2 DEF Queueing, Asked
<1>8. \A d \in Clients : \A q \in Players : Owns(d, q)' => Owns(d, q)
  <2> SUFFICES ASSUME NEW d \in Clients, NEW q \in Players, Owns(d, q)' PROVE Owns(d, q)
    OBVIOUS
  <2>1. CASE d = c /\ q = p BY <1>2, <1>3, <2>1 DEF Owns
  <2>2. CASE d # c \/ q # p BY <1>2, <1>3, <2>2 DEF Owns
  <2> QED BY <2>1, <2>2
<1>9. Exclusive'
  <2>1. \A d \in Clients : Active(d)' => Active(d) BY <1>2, <1>8 DEF Active
  <2> QED BY <1>1, <1>8, <2>1, ExclusiveShrinks
<1>10. \A d \in Clients, q \in Players : ask'[d][q] \in {"ok", "unsent"} => ask'[d][q] = ask[d][q]
  BY <1>3
<1>11. Positions' BY <1>1, <1>2, <1>10 DEF Positions, AtLast
<1>12. InStep' /\ SameAligned
  <2>1. \A q \in Players : Realigned(q)' <=> Realigned(q) BY <1>2 DEF Realigned
  <2>2. Realigned(p) => main[p] # "exited" BY DEF Realigned, Mode
  <2>3. ASSUME NEW q \in Players, Realigned(q) PROVE ResumeUnderWay(q)' <=> ResumeUnderWay(q)
    <3>1. \A d \in Clients : phase[d] = "resume" => (ask'[d][q] = "unsent" <=> ask[d][q] = "unsent")
      BY <1>3, <1>6, <2>2, <2>3
    <3> QED BY <1>2, <3>1 DEF ResumeUnderWay
  <2> QED BY <1>1, <2>1, <2>3, InStepKept
<1>13. Comparable' BY <1>1, <1>2, <1>10 DEF Comparable, Meeting
<1> QED BY <1>2, <1>4, <1>7, <1>9, <1>11, <1>12, <1>13 DEF PairInv, HwInv, LineInv

\* Who has come less far discards exactly what brings it to where the other is.
LEMMA CatchingUp ==
  ASSUME PairTypeOK, NEW c \in Clients, NEW p \in Players
  PROVE  Missing(c, p) \in Counter /\ Advance(progress[c][p], Missing(c, p)) = Meeting(c)
<1> DEFINE a == progress[c]["alice"]
           b == progress[c]["bob"]
<1>1. a \in Counter /\ b \in Counter BY TwoPlayers DEF PairTypeOK
<1>2. Other("alice") = "bob" /\ Other("bob") = "alice" BY OtherPlayer
<1>3. \A n \in Counter : n % Modulus = n BY Remainders DEF Counter
<1>4. CASE p = "alice"
  <2>1. Missing(c, p) = IF a < b THEN Difference(a, b) ELSE 0 BY <1>2, <1>4 DEF Missing
  <2>2. CASE a < b
    <3>1. Missing(c, p) = b - a /\ Meeting(c) = b BY <1>1, <2>1, <2>2 DEF Difference, Counter, Meeting
    <3>2. b - a \in Counter /\ a + (b - a) = b BY <1>1, <2>2 DEF Counter
    <3> QED BY <1>1, <1>3, <1>4, <3>1, <3>2 DEF Advance
  <2>3. CASE ~(a < b)
    <3>1. Missing(c, p) = 0 /\ Meeting(c) = a BY <1>1, <2>1, <2>3 DEF Counter, Meeting
    <3>2. 0 \in Counter /\ a + 0 = a BY <1>1 DEF Counter
    <3> QED BY <1>1, <1>3, <1>4, <3>1, <3>2 DEF Advance
  <2> QED BY <2>2, <2>3
<1>5. CASE p = "bob"
  <2>1. Missing(c, p) = IF b < a THEN Difference(a, b) ELSE 0 BY <1>2, <1>5 DEF Missing
  <2>2. CASE b < a
    <3>1. Missing(c, p) = a - b /\ Meeting(c) = a BY <1>1, <2>1, <2>2 DEF Difference, Counter, Meeting
    <3>2. a - b \in Counter /\ b + (a - b) = a BY <1>1, <2>2 DEF Counter
    <3> QED BY <1>1, <1>3, <1>5, <3>1, <3>2 DEF Advance
  <2>3. CASE ~(b < a)
    <3>1. Missing(c, p) = 0 /\ Meeting(c) = b BY <1>1, <2>1, <2>3 DEF Counter, Meeting
    <3>2. 0 \in Counter /\ b + 0 = b BY <1>1 DEF Counter
    <3> QED BY <1>1, <1>3, <1>5, <3>1, <3>2 DEF Advance
  <2> QED BY <2>2, <2>3
<1> QED BY <1>4, <1>5, TwoPlayers

LEMMA SendKeeps ==
  ASSUME PairInv, NEW c \in Clients, NEW p \in Players, Send(c, p)
  PROVE  PairInv' /\ SameAligned
<1>1. PairTypeOK /\ HwInv /\ Queueing /\ Exclusive /\ Positions /\ InStep /\ Comparable
  BY DEF PairInv, HwInv, PairTypeOK, LineInv
<1>2. CASE main[p] = "exited"
  <2>1. /\ ask' = [ask EXCEPT ![c][p] = "error"] /\ UNCHANGED <<phase, progress, line, main, hwVars>>
        /\ phase[c] \notin {"done", "failed"} /\ ask[c][p] = "unsent"
    BY <1>2 DEF Send
  <2> QED BY <1>2, <2>1, AnsweredByItself
<1>3. CASE main[p] # "exited"
  <2> DEFINE n == IF phase[c] = "synchronize" THEN Missing(c, p) ELSE 0
             x == [client |-> c, command |-> phase[c], batches |-> n]
  <2>1. /\ phase[c] \notin {"done", "failed"} /\ ask[c][p] = "unsent"
        /\ ask' = [ask EXCEPT ![c][p] = "sent"] /\ line' = [line EXCEPT ![p] = Append(line[p], x)]
        /\ UNCHANGED <<phase, progress, main, hwVars>>
    BY <1>3 DEF Send
  <2>2. n \in Counter /\ phase[c] \in Commands
    <3>1. 0 \in Counter BY DEF Counter
    <3> QED BY <1>1, <2>1, <3>1, CatchingUp, RequestsTyped DEF PhaseStates
  <2>3. x \in Lines /\ x.client = c /\ x.command = phase[c] /\ x.batches = n BY <2>2 DEF Lines
  <2> HIDE DEF x
  <2>4. \A q \in Players : \A r \in Elems(line[q]) : r.client \in Clients BY <1>1, RequestsTyped
  <2>5. \A r \in Elems(line[p]) : r.client # c BY <1>1, <2>1 DEF Queueing
  <2>6. /\ line[p] \in Seq(Lines) /\ Append(line[p], x) \in Seq(Lines) /\ Append(line[p], x) # <<>>
        /\ Elems(Append(line[p], x)) = Elems(line[p]) \cup {x}
        /\ line[p] # <<>> => Head(Append(line[p], x)) = Head(line[p])
        /\ OnePerClient(Append(line[p], x))
    <3>1. line[p] \in Seq(Lines) /\ OnePerClient(line[p]) BY <1>1, RequestsTyped DEF Queueing
    <3> QED BY <2>3, <2>5, <3>1, Appended
  <2>7. /\ line' \in [Players -> Seq(Lines)] /\ line'[p] = Append(line[p], x)
        /\ \A q \in Players : q # p => line'[q] = line[q]
    BY <1>1, <2>1, <2>6 DEF PairTypeOK
  <2>8. /\ Elems(line'[p]) = Elems(line[p]) \cup {x}
        /\ \A q \in Players : q # p => Elems(line'[q]) = Elems(line[q])
        /\ \A q \in Players, cmd \in Commands : Asked(q, cmd) => Asked(q, cmd)'
    BY <2>6, <2>7 DEF Asked
  <2>9. /\ \A d \in Clients, q \in Players : d # c \/ q # p => ask'[d][q] = ask[d][q]
        /\ ask'[c][p] = "sent"
        /\ ask' \in [Clients -> [Players -> {"unsent", "sent"} \cup Answers]]
    BY <1>1, <2>1 DEF PairTypeOK
  <2>10. phase' = phase /\ progress' = progress /\ main' = main /\ HwInv' /\ sim' = sim
    BY <1>1, <2>1, HwUnchanged
  <2>11. PairTypeOK' BY <1>1, <2>7, <2>9, <2>10 DEF PairTypeOK, HwInv
  <2>12. Queueing'
    <3>1. \A q \in Players : OnePerClient(line'[q])
      <4>1. \A q \in Players : OnePerClient(line[q]) BY <1>1 DEF Queueing
      <4> QED BY <2>6, <2>7, <4>1
    <3>2. \A q \in Players : \A r \in Elems(line'[q]) :
            \/ phase[r.client] = r.command /\ ask'[r.client][q] \in {"sent", "timeout"}
            \/ phase[r.client] = "failed"
      <4> SUFFICES ASSUME NEW q \in Players, NEW r \in Elems(line'[q])
                   PROVE  \/ phase[r.client] = r.command /\ ask'[r.client][q] \in {"sent", "timeout"}
                          \/ phase[r.client] = "failed"
        OBVIOUS
      <4>1. CASE r \in Elems(line[q])
        <5>1. r.client # c \/ q # p BY <2>5, <4>1
        <5>2. ask'[r.client][q] = ask[r.client][q] BY <2>4, <2>9, <4>1, <5>1
        <5> QED BY <1>1, <4>1, <5>2 DEF Queueing
      <4>2. CASE q = p /\ r = x BY <2>3, <2>9, <4>2
      <4> QED BY <2>8, <4>1, <4>2
    <3>3. \A q \in Players : \A r \in Elems(line[q]) : r.client = c => r.command = phase[c]
      BY <1>1, <2>1 DEF Queueing
    <3>4. \A q1, q2 \in Players : \A r \in Elems(line'[q1]), s \in Elems(line'[q2]) :
            r.client = s.client => r.command = s.command
      <4> SUFFICES ASSUME NEW q1 \in Players, NEW q2 \in Players, NEW r \in Elems(line'[q1]),
                          NEW s \in Elems(line'[q2]), r.client = s.client
                   PROVE  r.command = s.command
        OBVIOUS
      <4>1. (r \in Elems(line[q1]) \/ r = x) /\ (s \in Elems(line[q2]) \/ s = x) BY <2>8
      <4>2. CASE r.client = c BY <2>3, <3>3, <4>1, <4>2
      <4>3. CASE r.client # c BY <1>1, <2>3, <4>1, <4>3 DEF Queueing
      <4> QED BY <4>2, <4>3
    <3>5. \A q \in Players : \A d \in Clients :
            /\ ask'[d][q] = "sent" => \E r \in Elems(line'[q]) : r.client = d
            /\ phase[d] \in {"done", "failed"} => ask'[d][q] = "unsent"
      <4> SUFFICES ASSUME NEW q \in Players, NEW d \in Clients
                   PROVE  /\ ask'[d][q] = "sent" => \E r \in Elems(line'[q]) : r.client = d
                          /\ phase[d] \in {"done", "failed"} => ask'[d][q] = "unsent"
        OBVIOUS
      <4>1. CASE d = c /\ q = p BY <2>1, <2>3, <2>8, <4>1
      <4>2. CASE d # c \/ q # p
        <5>1. ask'[d][q] = ask[d][q] BY <2>9, <4>2
        <5>2. Elems(line[q]) \subseteq Elems(line'[q]) BY <2>8
        <5> QED BY <1>1, <5>1, <5>2 DEF Queueing
      <4> QED BY <4>1, <4>2
    <3>6. \A q \in Players : main'[q] = "finishing" => Asked(q, "resume")'
      BY <1>1, <2>8, <2>10 DEF Queueing, Commands
    <3> QED BY <2>10, <3>1, <3>2, <3>4, <3>5, <3>6 DEF Queueing
  <2>13. \A d \in Clients : \A q \in Players : Owns(d, q)' => Owns(d, q)
    <3> SUFFICES ASSUME NEW d \in Clients, NEW q \in Players, Owns(d, q)' PROVE Owns(d, q)
      OBVIOUS
    <3>1. CASE d = c /\ q = p BY <2>1, <2>2, <2>3, <2>5, <2>8, <2>9, <2>10, <3>1 DEF Owns, Commands
    <3>2. CASE d # c \/ q # p BY <2>3, <2>8, <2>9, <2>10, <3>2 DEF Owns
    <3> QED BY <3>1, <3>2
  <2>14. Exclusive'
    <3>1. \A d \in Clients : Active(d)' => Active(d) BY <2>10, <2>13 DEF Active
    <3> QED BY <1>1, <2>13, <3>1, ExclusiveShrinks
  <2>15. Positions'
    <3>1. \A q \in Players, d \in Clients :
            /\ phase[d] = "pause" /\ ask'[d][q] = "ok" => main[q] \in {"await_sync", "exited"}
            /\ phase[d] = "synchronize" =>
                 /\ main[q] \in Synchronizing \cup {"exited"}
                 /\ ask'[d][q] = "unsent" => main[q] \in {"await_sync", "exited"}
                 /\ ask'[d][q] = "ok" => main[q] \in {"await_resume", "exited"}
            /\ phase[d] = "resume" /\ ask'[d][q] = "unsent" => main[q] \in {"await_resume", "exited"}
      BY <1>1, <2>9 DEF Positions, AtLast
    <3>2. /\ x.command = "synchronize" =>
               main[p] \in {"await_sync", "exited"} /\ \A q \in Players : main[q] \in Synchronizing \cup {"exited"}
          /\ x.command = "resume" => main[p] \in {"await_resume", "finishing", "exited"}
      BY <1>1, <2>1, <2>3 DEF Positions, AtLast
    <3>3. \A q \in Players : \A r \in Elems(line'[q]) :
            /\ r.command = "synchronize" =>
                 main[q] \in {"await_sync", "exited"} /\ \A o \in Players : main[o] \in Synchronizing \cup {"exited"}
            /\ r.command = "resume" => main[q] \in {"await_resume", "finishing", "exited"}
      <4>1. \A q \in Players : \A r \in Elems(line'[q]) : r \in Elems(line[q]) \/ (q = p /\ r = x) BY <2>8
      <4> QED BY <1>1, <3>2, <4>1 DEF Positions, AtLast
    <3> QED BY <2>10, <3>1, <3>3 DEF Positions, AtLast
  <2>16. InStep' /\ SameAligned
    <3>1. \A q \in Players : Realigned(q)' <=> Realigned(q) BY <2>10 DEF Realigned
    <3>2. \A q \in Players : ResumeUnderWay(q)' <=> ResumeUnderWay(q)
      <4> SUFFICES ASSUME NEW q \in Players PROVE ResumeUnderWay(q)' <=> ResumeUnderWay(q)
        OBVIOUS
      <4>1. line[q] \in Seq(Lines) /\ line'[q] \in Seq(Lines) BY <1>1, <2>7, RequestsTyped
      <4>2. CASE q = p
        <5>1. (\E i \in DOMAIN line'[q] : line'[q][i].command = "resume")
                <=> (\E i \in DOMAIN line[q] : line[q][i].command = "resume") \/ phase[c] = "resume"
          BY <2>3, <2>8, <4>1, <4>2, ResumesInLine
        <5>2. (\E d \in Clients : phase[d] = "resume" /\ ask[d][q] = "unsent")
                <=> (\E d \in Clients : phase[d] = "resume" /\ ask'[d][q] = "unsent") \/ phase[c] = "resume"
          BY <2>1, <2>9, <4>2
        <5> QED BY <2>10, <5>1, <5>2 DEF ResumeUnderWay
      <4>3. CASE q # p BY <2>7, <2>9, <2>10, <4>3 DEF ResumeUnderWay
      <4> QED BY <4>2, <4>3
    <3> QED BY <1>1, <3>1, <3>2, InStepKept
  <2>17. Comparable'
    <3>1. \A d \in Clients, q \in Players :
            /\ phase[d] = "pause" /\ ask'[d][q] = "ok" => sim[q].events = progress[d][q]
            /\ phase[d] = "synchronize" =>
                 /\ main[q] = "await_sync" => sim[q].events = progress[d][q]
                 /\ main[q] = "await_resume" => sim[q].events = Meeting(d)
      BY <1>1, <2>9 DEF Comparable
    <3>2. ASSUME x.command = "synchronize"
          PROVE  /\ Advance(sim[p].events, x.batches) = Meeting(c)
                 /\ \A q \in Players : main[q] = "await_resume" => sim[q].events = Meeting(c)
      <4>1. phase[c] = "synchronize" /\ x.batches = Missing(c, p) BY <2>3, <3>2
      <4>2. main[p] = "await_sync" BY <1>1, <1>3, <2>1, <4>1 DEF Positions, AtLast
      <4>3. sim[p].events = progress[c][p] BY <3>1, <4>1, <4>2
      <4> QED BY <1>1, <3>1, <4>1, <4>3, CatchingUp
    <3>3. \A q \in Players : \A r \in Elems(line'[q]) : r.command = "synchronize" =>
            /\ Advance(sim[q].events, r.batches) = Meeting(r.client)
            /\ \A o \in Players : main[o] = "await_resume" => sim[o].events = Meeting(r.client)
      <4>1. \A q \in Players : \A r \in Elems(line'[q]) : r \in Elems(line[q]) \/ (q = p /\ r = x) BY <2>8
      <4>2. \A q \in Players : \A r \in Elems(line[q]) : r.command = "synchronize" =>
            /\ Advance(sim[q].events, r.batches) = Meeting(r.client)
            /\ \A o \in Players : main[o] = "await_resume" => sim[o].events = Meeting(r.client)
        BY <1>1 DEF Comparable
      <4> QED BY <2>3, <3>2, <4>1, <4>2
    <3>4. \A d \in Clients : Meeting(d)' = Meeting(d) BY <2>10 DEF Meeting
    <3>5. (\A q \in Players : main[q] = "await_resume") => sim["alice"].events = sim["bob"].events
      BY <1>1 DEF Comparable
    <3>6. \A q \in Players : \A r \in Elems(line'[q]) : r.client \in Clients BY <2>11, <2>4, <2>3, <2>8
    <3>7. /\ \A d \in Clients, q \in Players :
            /\ phase'[d] = "pause" /\ ask'[d][q] = "ok" => sim'[q].events = progress'[d][q]
            /\ phase'[d] = "synchronize" =>
                 /\ main'[q] = "await_sync" => sim'[q].events = progress'[d][q]
                 /\ main'[q] = "await_resume" => sim'[q].events = Meeting(d)'
      BY <2>10, <3>1, <3>4
    <3>8. \A q \in Players : \A r \in Elems(line'[q]) : r.command = "synchronize" =>
            /\ Advance(sim'[q].events, r.batches) = Meeting(r.client)'
            /\ \A o \in Players : main'[o] = "await_resume" => sim'[o].events = Meeting(r.client)'
      BY <2>10, <3>3, <3>4, <3>6
    <3>9. (\A q \in Players : main'[q] = "await_resume") => sim'["alice"].events = sim'["bob"].events
      BY <2>10, <3>5
    <3> QED BY <3>7, <3>8, <3>9 DEF Comparable
  <2> QED BY <2>10, <2>11, <2>12, <2>14, <2>15, <2>16, <2>17 DEF PairInv, HwInv, LineInv
<1> QED BY <1>2, <1>3

LEMMA GiveUpKeeps ==
  ASSUME PairInv, NEW c \in Clients, NEW p \in Players, GiveUp(c, p)
  PROVE  PairInv' /\ SameAligned
<1>1. /\ ask' = [ask EXCEPT ![c][p] = "timeout"] /\ UNCHANGED <<phase, progress, line, main, hwVars>>
      /\ ask[c][p] = "sent"
  BY DEF GiveUp
<1>2. phase[c] \notin {"done", "failed"} BY <1>1 DEF PairInv, LineInv, Queueing
<1> QED BY <1>1, <1>2, AnsweredByItself

\* Both requests of a phase are answered: the client goes on, or gives up.
LEMMA ProceedKeeps ==
  ASSUME PairInv, NEW c \in Clients, Proceed(c)
  PROVE  /\ PairInv'
         /\ SameAligned \/ NowAligned
<1>1. PairTypeOK /\ HwInv /\ Queueing /\ Exclusive /\ Positions /\ InStep /\ Comparable
  BY DEF PairInv, HwInv, PairTypeOK, LineInv
<1> DEFINE next == IF \A p \in Players : ask[c][p] = "ok" THEN After(phase[c]) ELSE "failed"
<1>2. /\ phase[c] \in Commands /\ \A p \in Players : ask[c][p] \in Answers
      /\ phase' = [phase EXCEPT ![c] = next]
      /\ ask' = [ask EXCEPT ![c] = NothingAsked] /\ UNCHANGED <<progress, line, main, hwVars>>
  BY <1>1, RequestsTyped DEF Proceed, PhaseStates
<1>3. next \in PhaseStates BY <1>2 DEF After, PhaseStates, Commands
<1>4. /\ next = "synchronize" <=> phase[c] = "pause" /\ \A p \in Players : ask[c][p] = "ok"
      /\ next = "resume" <=> phase[c] = "synchronize" /\ \A p \in Players : ask[c][p] = "ok"
      /\ next # "pause"
      /\ next \in {"synchronize", "resume", "done"} => \A p \in Players : ask[c][p] = "ok"
      /\ next \notin {"done", "failed"} => next \in {"synchronize", "resume"}
  BY <1>2 DEF After, Commands
<1> HIDE DEF next
<1>5. /\ phase'[c] = next /\ \A d \in Clients : d # c => phase'[d] = phase[d]
      /\ phase' \in [Clients -> PhaseStates]
  BY <1>1, <1>2, <1>3 DEF PairTypeOK
<1>6. /\ \A p \in Players : ask'[c][p] = "unsent"
      /\ \A d \in Clients : d # c => ask'[d] = ask[d]
      /\ ask' \in [Clients -> [Players -> {"unsent", "sent"} \cup Answers]]
  <2>1. NothingAsked \in [Players -> {"unsent", "sent"} \cup Answers] /\ \A p \in Players : NothingAsked[p] = "unsent"
    BY DEF NothingAsked
  <2> QED BY <1>1, <1>2, <2>1 DEF PairTypeOK
<1>7. progress' = progress /\ line' = line /\ main' = main /\ HwInv' /\ sim' = sim
  BY <1>1, <1>2, HwUnchanged
<1>8. PairTypeOK' BY <1>1, <1>5, <1>6, <1>7 DEF PairTypeOK, HwInv
<1>9. \A p \in Players : \A r \in Elems(line[p]) : r.client \in Clients BY <1>1, RequestsTyped
\* A client that goes on has no request left; one that fails may.
<1>10. next # "failed" => \A p \in Players : \A r \in Elems(line[p]) : r.client # c
  <2> SUFFICES ASSUME next # "failed", NEW p \in Players, NEW r \in Elems(line[p]), r.client = c
               PROVE  FALSE
    OBVIOUS
  <2>1. ask[c][p] = "ok" BY <1>3, <1>4 DEF PhaseStates, Commands
  <2> QED BY <1>1, <1>2, <2>1 DEF Queueing, Commands
<1>11. Queueing'
  <2>1. \A p \in Players : \A r \in Elems(line[p]) :
          \/ phase'[r.client] = r.command /\ ask'[r.client][p] \in {"sent", "timeout"}
          \/ phase'[r.client] = "failed"
    <3> SUFFICES ASSUME NEW p \in Players, NEW r \in Elems(line[p])
                 PROVE  \/ phase'[r.client] = r.command /\ ask'[r.client][p] \in {"sent", "timeout"}
                        \/ phase'[r.client] = "failed"
      OBVIOUS
    <3>1. CASE r.client = c BY <1>5, <1>10, <3>1
    <3>2. CASE r.client # c BY <1>1, <1>5, <1>6, <1>9, <3>2 DEF Queueing
    <3> QED BY <3>1, <3>2
  <2>2. \A p \in Players : \A d \in Clients :
          /\ ask'[d][p] = "sent" => \E r \in Elems(line[p]) : r.client = d
          /\ phase'[d] \in {"done", "failed"} => ask'[d][p] = "unsent"
    <3> SUFFICES ASSUME NEW p \in Players, NEW d \in Clients
                 PROVE  /\ ask'[d][p] = "sent" => \E r \in Elems(line[p]) : r.client = d
                        /\ phase'[d] \in {"done", "failed"} => ask'[d][p] = "unsent"
      OBVIOUS
    <3>1. CASE d = c BY <1>6, <3>1
    <3>2. CASE d # c BY <1>1, <1>5, <1>6, <3>2 DEF Queueing
    <3> QED BY <3>1, <3>2
  <2> QED BY <1>1, <1>7, <2>1, <2>2 DEF Queueing, Asked
<1>12. \A d \in Clients : \A p \in Players : Owns(d, p)' => Owns(d, p)
  <2> SUFFICES ASSUME NEW d \in Clients, NEW p \in Players, Owns(d, p)' PROVE Owns(d, p)
    OBVIOUS
  <2>1. CASE d = c BY <1>2, <1>4, <1>5, <1>6, <1>7, <2>1 DEF Owns
  <2>2. CASE d # c BY <1>5, <1>6, <1>7, <2>2 DEF Owns
  <2> QED BY <2>1, <2>2
<1>13. Exclusive'
  <2>1. ASSUME NEW d \in Clients, Active(d)' PROVE Active(d) \/ \A p \in Players : Owns(d, p)
    <3>1. PICK p \in Players : Owns(d, p)' BY <2>1 DEF Active
    <3>2. Owns(d, p) BY <1>12, <3>1
    <3>3. CASE d # c BY <1>5, <2>1, <3>2, <3>3 DEF Active
    <3>4. CASE d = c /\ phase[c] # "pause" BY <3>2, <3>4 DEF Active
    <3>5. CASE d = c /\ phase[c] = "pause" /\ next = "synchronize" BY <1>4, <3>5 DEF Owns
    <3>6. CASE d = c /\ phase[c] = "pause" /\ next # "synchronize"
      <4>1. next \notin {"synchronize", "resume"} BY <1>4, <3>6
      <4>2. \E r \in Elems(line[p]) : r.client = c /\ r.command # "pause"
        BY <1>4, <1>5, <1>7, <3>1, <3>6, <4>1 DEF Owns
      <4> QED BY <1>1, <1>2, <3>6, <4>2 DEF Queueing, Commands
    <3> QED BY <3>3, <3>4, <3>5, <3>6
  <2> QED BY <1>1, <1>12, <2>1, ExclusiveShrinks
<1>14. \A p \in Players :
         /\ next = "synchronize" => main[p] \in {"await_sync", "exited"} /\ sim[p].events = progress[c][p]
         /\ next = "resume" => main[p] \in {"await_resume", "exited"}
  BY <1>1, <1>4 DEF Positions, AtLast, Comparable
<1>15. Positions'
  <2>1. \A p \in Players, d \in Clients :
          /\ phase'[d] = "pause" /\ ask'[d][p] = "ok" => main[p] \in {"await_sync", "exited"}
          /\ phase'[d] = "synchronize" =>
               /\ main[p] \in Synchronizing \cup {"exited"}
               /\ ask'[d][p] = "unsent" => main[p] \in {"await_sync", "exited"}
               /\ ask'[d][p] = "ok" => main[p] \in {"await_resume", "exited"}
          /\ phase'[d] = "resume" /\ ask'[d][p] = "unsent" => main[p] \in {"await_resume", "exited"}
    <3> SUFFICES ASSUME NEW p \in Players, NEW d \in Clients
                 PROVE  /\ phase'[d] = "pause" /\ ask'[d][p] = "ok" => main[p] \in {"await_sync", "exited"}
                        /\ phase'[d] = "synchronize" =>
                             /\ main[p] \in Synchronizing \cup {"exited"}
                             /\ ask'[d][p] = "unsent" => main[p] \in {"await_sync", "exited"}
                             /\ ask'[d][p] = "ok" => main[p] \in {"await_resume", "exited"}
                        /\ phase'[d] = "resume" /\ ask'[d][p] = "unsent" => main[p] \in {"await_resume", "exited"}
      OBVIOUS
    <3>1. CASE d = c BY <1>4, <1>5, <1>6, <1>14, <3>1 DEF Synchronizing
    <3>2. CASE d # c BY <1>1, <1>5, <1>6, <3>2 DEF Positions, AtLast
    <3> QED BY <3>1, <3>2
  <2> QED BY <1>1, <1>7, <2>1 DEF Positions, AtLast
<1>16. /\ InStep'
       /\ SameAligned \/ NowAligned
  <2>1. \A p \in Players : Realigned(p)' <=> Realigned(p) BY <1>7 DEF Realigned
  <2>2. CASE next = "resume"
    <3>1. \A p \in Players : ResumeUnderWay(p)' BY <1>5, <1>6, <2>2 DEF ResumeUnderWay
    <3>2. phase[c] = "synchronize" /\ Active(c) BY <1>4, <2>2, TwoPlayers DEF Active, Owns
    <3>3. \A p \in Players : main[p] \in {"await_resume", "exited"} /\ (Realigned(p) \/ main[p] = "exited")
      BY <1>14, <2>2 DEF Realigned, Mode
    <3>4. ASSUME NEW p \in Players, ResumeUnderWay(p) PROVE FALSE
      <4>1. line[p] \in Seq(Lines) BY <1>1, RequestsTyped
      <4>2. CASE \E r \in Elems(line[p]) : r.command = "resume"
        <5>1. PICK r \in Elems(line[p]) : r.command = "resume" BY <4>2
        <5>2. r.client \in Clients /\ Active(r.client) BY <1>1, <5>1, Requests
        <5>3. r.client = c BY <1>1, <3>2, <5>2 DEF Exclusive
        <5> QED BY <1>10, <2>2, <5>1, <5>3
      <4>3. CASE \E d \in Clients : phase[d] = "resume" /\ ask[d][p] = "unsent"
        <5>1. PICK d \in Clients : phase[d] = "resume" /\ ask[d][p] = "unsent" BY <4>3
        <5>2. Active(d) BY <5>1 DEF Active, Owns
        <5>3. d = c BY <1>1, <3>2, <5>2 DEF Exclusive
        <5> QED BY <3>2, <5>1, <5>3
      <4> QED BY <3>3, <3>4, <4>1, <4>2, <4>3, ResumesInLine DEF ResumeUnderWay
    <3> QED BY <2>1, <3>1, <3>3, <3>4 DEF InStep, Aligned, SameAligned, NowAligned
  <2>3. CASE next # "resume"
    <3>1. \A p \in Players, d \in Clients :
            (phase'[d] = "resume" /\ ask'[d][p] = "unsent") <=> (phase[d] = "resume" /\ ask[d][p] = "unsent")
      <4> SUFFICES ASSUME NEW p \in Players, NEW d \in Clients
                   PROVE  (phase'[d] = "resume" /\ ask'[d][p] = "unsent")
                            <=> (phase[d] = "resume" /\ ask[d][p] = "unsent")
        OBVIOUS
      <4>1. CASE d = c BY <1>2, <1>5, <2>3, <4>1 DEF Answers
      <4>2. CASE d # c BY <1>5, <1>6, <4>2
      <4> QED BY <4>1, <4>2
    <3>2. \A p \in Players : ResumeUnderWay(p)' <=> ResumeUnderWay(p) BY <1>7, <3>1 DEF ResumeUnderWay
    <3> QED BY <1>1, <2>1, <3>2, InStepKept
  <2> QED BY <2>2, <2>3
<1>17. Comparable'
  <2>1. \A d \in Clients, p \in Players :
          /\ phase'[d] = "pause" /\ ask'[d][p] = "ok" => sim[p].events = progress[d][p]
          /\ phase'[d] = "synchronize" =>
               /\ main[p] = "await_sync" => sim[p].events = progress[d][p]
               /\ main[p] = "await_resume" => sim[p].events = Meeting(d)
    <3> SUFFICES ASSUME NEW d \in Clients, NEW p \in Players
                 PROVE  /\ phase'[d] = "pause" /\ ask'[d][p] = "ok" => sim[p].events = progress[d][p]
                        /\ phase'[d] = "synchronize" =>
                             /\ main[p] = "await_sync" => sim[p].events = progress[d][p]
                             /\ main[p] = "await_resume" => sim[p].events = Meeting(d)
      OBVIOUS
    <3>1. CASE d = c BY <1>4, <1>5, <1>14, <3>1
    <3>2. CASE d # c BY <1>1, <1>5, <1>6, <3>2 DEF Comparable
    <3> QED BY <3>1, <3>2
  <2>2. \A d \in Clients : Meeting(d)' = Meeting(d) BY <1>7 DEF Meeting
  <2>3. /\ \A d \in Clients, q \in Players :
          /\ phase'[d] = "pause" /\ ask'[d][q] = "ok" => sim'[q].events = progress'[d][q]
          /\ phase'[d] = "synchronize" =>
               /\ main'[q] = "await_sync" => sim'[q].events = progress'[d][q]
               /\ main'[q] = "await_resume" => sim'[q].events = Meeting(d)'
    BY <1>7, <2>1, <2>2
  <2>4. \A q \in Players : \A r \in Elems(line'[q]) : r.command = "synchronize" =>
          /\ Advance(sim'[q].events, r.batches) = Meeting(r.client)'
          /\ \A o \in Players : main'[o] = "await_resume" => sim'[o].events = Meeting(r.client)'
    BY <1>1, <1>7, <1>9, <2>2 DEF Comparable
  <2>5. (\A q \in Players : main'[q] = "await_resume") => sim'["alice"].events = sim'["bob"].events
    BY <1>1, <1>7 DEF Comparable
  <2> QED BY <2>3, <2>4, <2>5 DEF Comparable
<1> QED BY <1>7, <1>8, <1>11, <1>13, <1>15, <1>16, <1>17 DEF PairInv, HwInv, LineInv

----------------------------------------------------------------------------
(* The simulators.                                                         *)

\* Whoever has a Synchronize or a Resume in a line is the only one: nobody else
\* owns that simulator, nobody else is active, and there is no other request but
\* Pauses and its own of the same command.
LEMMA Sole ==
  ASSUME PairTypeOK, Queueing, Exclusive, NEW p \in Players, NEW r \in Elems(line[p]),
         r.command # "pause"
  PROVE  /\ r.client \in Clients /\ phase[r.client] \in {r.command, "failed"}
         /\ \A d \in Clients : Owns(d, p) => d = r.client
         /\ \A d \in Clients : Active(d) => d = r.client
         /\ \A q \in Players : \A s \in Elems(line[q]) : s.command # "pause" =>
              s.client = r.client /\ s.command = r.command
<1>1. /\ r.client \in Clients /\ phase[r.client] \in {r.command, "failed"}
      /\ Owns(r.client, p) /\ Active(r.client)
  BY Requests
<1>2. ASSUME NEW q \in Players, NEW s \in Elems(line[q]), s.command # "pause"
      PROVE  s.client = r.client /\ s.command = r.command
  <2>1. s.client \in Clients /\ Active(s.client) BY <1>2, Requests
  <2>2. s.client = r.client BY <1>1, <2>1 DEF Exclusive
  <2> QED BY <1>2, <2>2 DEF Queueing
<1> QED BY <1>1, <1>2 DEF Exclusive

\* While a simulator is asked to catch up no simulator is on its way back.
LEMMA NotAligned ==
  ASSUME PairInv, NEW p \in Players, Asked(p, "synchronize")
  PROVE  /\ ~Aligned /\ \A q \in Players : ~ResumeUnderWay(q)
         /\ \A q \in Players : main[q] \in Synchronizing \cup {"exited"}
<1>1. PairTypeOK /\ Queueing /\ Exclusive /\ Positions BY DEF PairInv, LineInv
<1> DEFINE h == Head(line[p])
<1>2. h \in Elems(line[p]) /\ h.command = "synchronize"
  BY <1>1, Removed, RequestsTyped DEF Asked, Queueing
<1>3. \A q \in Players : main[q] \in Synchronizing \cup {"exited"} BY <1>1, <1>2 DEF Positions, AtLast
<1>4. ASSUME NEW q \in Players, ResumeUnderWay(q) PROVE FALSE
  <2>1. main[q] \notin {"finishing", "completing"} BY <1>3 DEF Synchronizing
  <2>2. line[q] \in Seq(Lines) BY <1>1, RequestsTyped
  <2>3. CASE \E r \in Elems(line[q]) : r.command = "resume" BY <1>1, <1>2, <2>3, Sole
  <2>4. CASE \E c \in Clients : phase[c] = "resume" /\ ask[c][q] = "unsent"
    <3>1. PICK c \in Clients : phase[c] = "resume" /\ ask[c][q] = "unsent" BY <2>4
    <3>2. Active(c) BY <3>1 DEF Active, Owns
    <3> QED BY <1>1, <1>2, <3>1, <3>2, Sole
  <2> QED BY <1>4, <2>1, <2>2, <2>3, <2>4, ResumesInLine DEF ResumeUnderWay
<1> QED BY <1>3, <1>4 DEF Aligned

\* A Pause that is refused changes nothing but what its client knows; no other
\* request is ever refused.
LEMMA RefusalsKeep ==
  ASSUME PairInv, NEW p \in Players, Refuse(p)
  PROVE  PairInv' /\ SameAligned /\ Asked(p, "pause")
<1>1. PairTypeOK /\ HwInv /\ Queueing /\ Exclusive /\ Positions /\ InStep /\ Comparable
  BY DEF PairInv, HwInv, PairTypeOK, LineInv
<1> DEFINE h == Head(line[p])
<1>2. line[p] # <<>> /\ Reply(p, "error") /\ UNCHANGED <<phase, progress, main, hwVars>>
  BY DEF Refuse, Asked
<1>3. line[p] \in Seq(Lines) /\ OnePerClient(line[p]) /\ "error" \in Answers
  BY <1>1, RequestsTyped DEF Queueing, Answers
<1>4. h \in Elems(line[p]) /\ h.command \in Commands BY <1>1, <1>2, <1>3, Removed, RequestsTyped
<1>5. h.command = "pause" /\ main[p] # "finishing"
  <2>1. h.command = "synchronize" => main[p] \in {"await_sync", "exited"} BY <1>1, <1>4 DEF Positions, AtLast
  <2>2. h.command = "resume" => main[p] \in {"await_resume", "finishing", "exited"} BY <1>1, <1>4 DEF Positions, AtLast
  <2>3. main[p] = "finishing" => h.command = "resume" BY <1>1 DEF Queueing, Asked
  <2> QED BY <1>4, <2>1, <2>2, <2>3 DEF Refuse, Asked, Commands
<1>6. phase' = phase /\ progress' = progress /\ main' = main /\ HwInv' /\ sim' = sim
  BY <1>1, <1>2, HwUnchanged
<1>7. Answered(p, h, "error") /\ Queueing'
  <2>1. h = Head(line[p]) OBVIOUS
  <2>2. \A q \in Players : main'[q] = "finishing" => main[q] = "finishing" /\ q # p BY <1>5, <1>6
  <2> HIDE DEF h
  <2> QED BY <1>1, <1>2, <1>3, <1>6, <2>1, <2>2, Replied
<1> HIDE DEF h
<1>8. PairTypeOK' BY <1>1, <1>6, <1>7 DEF Answered, PairTypeOK, HwInv
<1>9. \A d \in Clients, q \in Players : ask'[d][q] \in {"ok", "unsent"} => ask'[d][q] = ask[d][q]
  BY <1>7 DEF Answered
<1>10. \A d \in Clients : \A q \in Players : Owns(d, q)' => Owns(d, q) BY <1>6, <1>7, <1>9 DEF Answered, Owns
<1>11. Exclusive'
  <2>1. \A d \in Clients : Active(d)' => Active(d) BY <1>6, <1>10 DEF Active
  <2> QED BY <1>1, <1>10, <2>1, ExclusiveShrinks
<1>12. Positions'
  <2>1. \A q \in Players, d \in Clients :
          /\ phase'[d] = "pause" /\ ask'[d][q] = "ok" => main'[q] \in {"await_sync", "exited"}
          /\ phase'[d] = "synchronize" =>
               /\ main'[q] \in Synchronizing \cup {"exited"}
               /\ ask'[d][q] = "unsent" => main'[q] \in {"await_sync", "exited"}
               /\ ask'[d][q] = "ok" => main'[q] \in {"await_resume", "exited"}
          /\ phase'[d] = "resume" /\ ask'[d][q] = "unsent" => main'[q] \in {"await_resume", "exited"}
    BY <1>1, <1>6, <1>9 DEF Positions, AtLast
  <2>2. \A q \in Players : \A r \in Elems(line'[q]) :
          /\ r.command = "synchronize" =>
               main'[q] \in {"await_sync", "exited"} /\ \A o \in Players : main'[o] \in Synchronizing \cup {"exited"}
          /\ r.command = "resume" => main'[q] \in {"await_resume", "finishing", "exited"}
    BY <1>1, <1>6, <1>7 DEF Answered, Positions, AtLast
  <2> QED BY <2>1, <2>2 DEF Positions, AtLast
<1>13. InStep' /\ SameAligned
  <2>1. \A q \in Players : Realigned(q)' <=> Realigned(q) BY <1>6 DEF Realigned
  <2>2. \A q \in Players : (\E r \in Elems(line'[q]) : r.command = "resume")
                             <=> (\E r \in Elems(line[q]) : r.command = "resume")
    <3>1. \A r \in Elems(line[p]) : r.command = "resume" => r \in Elems(line'[p])
      <4>1. \A r \in Elems(line[p]) : r.client = h.client => r = h BY <1>2, <1>3, Removed DEF h
      <4> QED BY <1>5, <1>7, <4>1 DEF Answered
    <3> QED BY <1>7, <3>1 DEF Answered
  <2>3. \A q \in Players, d \in Clients : ask'[d][q] = "unsent" <=> ask[d][q] = "unsent" BY <1>7 DEF Answered
  <2>4. ASSUME NEW q \in Players PROVE ResumeUnderWay(q)' <=> ResumeUnderWay(q)
    <3>1. line[q] \in Seq(Lines) /\ line'[q] \in Seq(Lines) BY <1>1, <1>7, RequestsTyped DEF Answered
    <3> QED BY <1>6, <2>2, <2>3, <3>1, ResumesInLine DEF ResumeUnderWay
  <2> QED BY <1>1, <2>1, <2>4, InStepKept
<1>14. Comparable'
  <2>1. \A d \in Clients : Meeting(d)' = Meeting(d) BY <1>6 DEF Meeting
  <2>2. \A q \in Players : \A r \in Elems(line[q]) : r.client \in Clients BY <1>1, RequestsTyped
  <2>3. \A d \in Clients, q \in Players :
          /\ phase'[d] = "pause" /\ ask'[d][q] = "ok" => sim'[q].events = progress'[d][q]
          /\ phase'[d] = "synchronize" =>
               /\ main'[q] = "await_sync" => sim'[q].events = progress'[d][q]
               /\ main'[q] = "await_resume" => sim'[q].events = Meeting(d)'
    BY <1>1, <1>6, <1>9, <2>1 DEF Comparable
  <2>4. \A q \in Players : \A r \in Elems(line'[q]) : r.command = "synchronize" =>
          /\ Advance(sim'[q].events, r.batches) = Meeting(r.client)'
          /\ \A o \in Players : main'[o] = "await_resume" => sim'[o].events = Meeting(r.client)'
    BY <1>1, <1>6, <1>7, <2>1, <2>2 DEF Answered, Comparable
  <2>5. (\A q \in Players : main'[q] = "await_resume") => sim'["alice"].events = sim'["bob"].events
    BY <1>1, <1>6 DEF Comparable
  <2> QED BY <2>3, <2>4, <2>5 DEF Comparable
<1>15. Asked(p, "pause") BY <1>2, <1>5 DEF Asked, h
<1> QED BY <1>6, <1>7, <1>8, <1>11, <1>12, <1>13, <1>14, <1>15 DEF PairInv, HwInv, LineInv

\* A process ends, with the command in hand or without one: its client learns of
\* it, its counter is compared no more, the other simulator stays where it is.
LEMMA ExitKeeps ==
  ASSUME PairInv, NEW p \in Players, HwInv', sim' = sim, main' = [main EXCEPT ![p] = "exited"],
         phase' = phase, progress' = progress,
         (line' = line /\ ask' = ask) \/ (line[p] # <<>> /\ Reply(p, "error"))
  PROVE  PairInv' /\ AlignedWithout(p)
<1>1. PairTypeOK /\ HwInv /\ Queueing /\ Exclusive /\ Positions /\ InStep /\ Comparable
  BY DEF PairInv, HwInv, PairTypeOK, LineInv
<1>2. /\ main'[p] = "exited" /\ \A q \in Players : q # p => main'[q] = main[q]
      /\ main' \in [Players -> {"serving", "exited"} \cup Recalibrating]
  BY <1>1 DEF PairTypeOK
<1>3. /\ Queueing'
      /\ line' \in [Players -> Seq(Lines)]
      /\ ask' \in [Clients -> [Players -> {"unsent", "sent"} \cup Answers]]
      /\ \A q \in Players : Elems(line'[q]) \subseteq Elems(line[q])
      /\ \A q \in Players : q # p => line'[q] = line[q] /\ \A d \in Clients : ask'[d][q] = ask[d][q]
      /\ \A d \in Clients, q \in Players : ask'[d][q] \in {"ok", "unsent"} => ask'[d][q] = ask[d][q]
  <2>1. CASE line' = line /\ ask' = ask BY <1>1, <1>2, <2>1 DEF Queueing, PairTypeOK, Asked
  <2>2. CASE line[p] # <<>> /\ Reply(p, "error")
    <3>1. PICK h : h = Head(line[p]) OBVIOUS
    <3>2. "error" \in Answers BY DEF Answers
    <3>3. \A q \in Players : main'[q] = "finishing" => main[q] = "finishing" /\ q # p BY <1>2
    <3>4. Answered(p, h, "error") /\ Queueing'
      BY ONLY <1>1, <2>2, <3>1, <3>2, <3>3, Replied, p \in Players, phase' = phase
    <3> QED BY <3>4 DEF Answered
  <2> QED BY <2>1, <2>2
<1>4. PairTypeOK' BY <1>1, <1>2, <1>3 DEF PairTypeOK, HwInv
<1>5. \A d \in Clients : \A q \in Players : Owns(d, q)' => Owns(d, q) BY <1>3 DEF Owns
<1>6. Exclusive'
  <2>1. \A d \in Clients : Active(d)' => Active(d) BY <1>5 DEF Active
  <2> QED BY <1>1, <1>5, <2>1, ExclusiveShrinks
<1>7. \A q \in Players : main'[q] = main[q] \/ main'[q] = "exited" BY <1>2
<1>8. Positions'
  <2>1. \A q \in Players, d \in Clients :
          /\ phase'[d] = "pause" /\ ask'[d][q] = "ok" => main'[q] \in {"await_sync", "exited"}
          /\ phase'[d] = "synchronize" =>
               /\ main'[q] \in Synchronizing \cup {"exited"}
               /\ ask'[d][q] = "unsent" => main'[q] \in {"await_sync", "exited"}
               /\ ask'[d][q] = "ok" => main'[q] \in {"await_resume", "exited"}
          /\ phase'[d] = "resume" /\ ask'[d][q] = "unsent" => main'[q] \in {"await_resume", "exited"}
    <3> SUFFICES ASSUME NEW q \in Players, NEW d \in Clients, main'[q] = main[q]
                 PROVE  /\ phase[d] = "pause" /\ ask'[d][q] = "ok" => main[q] \in {"await_sync", "exited"}
                        /\ phase[d] = "synchronize" =>
                             /\ main[q] \in Synchronizing \cup {"exited"}
                             /\ ask'[d][q] = "unsent" => main[q] \in {"await_sync", "exited"}
                             /\ ask'[d][q] = "ok" => main[q] \in {"await_resume", "exited"}
                        /\ phase[d] = "resume" /\ ask'[d][q] = "unsent" => main[q] \in {"await_resume", "exited"}
      BY <1>7
    <3> QED BY <1>1, <1>3 DEF Positions, AtLast
  <2>2. \A q \in Players : \A r \in Elems(line'[q]) :
          /\ r.command = "synchronize" =>
               main'[q] \in {"await_sync", "exited"} /\ \A o \in Players : main'[o] \in Synchronizing \cup {"exited"}
          /\ r.command = "resume" => main'[q] \in {"await_resume", "finishing", "exited"}
    BY <1>1, <1>3, <1>7 DEF Positions, AtLast
  <2> QED BY <2>1, <2>2 DEF Positions, AtLast
<1>9. InStep' /\ AlignedWithout(p)
  <2>1. ~Realigned(p)' BY <1>2 DEF Realigned, Mode
  <2>2. \A q \in Players : q # p => (Realigned(q)' <=> Realigned(q)) BY <1>2 DEF Realigned
  <2>3. \A q \in Players : q # p => (ResumeUnderWay(q)' <=> ResumeUnderWay(q))
    BY <1>2, <1>3 DEF ResumeUnderWay
  <2>4. InStep' BY <1>1, <2>1, <2>2, <2>3, InStepWithout
  <2>5. AlignedWithout(p) BY <1>1, <2>1, <2>2, <2>3 DEF InStep, Aligned, AlignedWithout
  <2> QED BY <2>4, <2>5
<1>10. Comparable'
  <2>1. \A d \in Clients : Meeting(d)' = Meeting(d) BY DEF Meeting
  <2>2. \A q \in Players : \A r \in Elems(line[q]) : r.client \in Clients BY <1>1, RequestsTyped
  <2>3. \A d \in Clients, q \in Players :
          /\ phase'[d] = "pause" /\ ask'[d][q] = "ok" => sim'[q].events = progress'[d][q]
          /\ phase'[d] = "synchronize" =>
               /\ main'[q] = "await_sync" => sim'[q].events = progress'[d][q]
               /\ main'[q] = "await_resume" => sim'[q].events = Meeting(d)'
    <3> SUFFICES ASSUME NEW d \in Clients, NEW q \in Players
                 PROVE  /\ phase[d] = "pause" /\ ask'[d][q] = "ok" => sim[q].events = progress[d][q]
                        /\ phase[d] = "synchronize" =>
                             /\ main'[q] = "await_sync" => sim[q].events = progress[d][q]
                             /\ main'[q] = "await_resume" => sim[q].events = Meeting(d)
      BY <2>1
    <3>1. ask'[d][q] = "ok" => ask[d][q] = "ok" BY <1>3
    <3>2. main'[q] \in {"await_sync", "await_resume"} => main'[q] = main[q] BY <1>7
    <3> QED BY <1>1, <3>1, <3>2 DEF Comparable
  <2>4. \A q \in Players : \A r \in Elems(line'[q]) : r.command = "synchronize" =>
          /\ Advance(sim'[q].events, r.batches) = Meeting(r.client)'
          /\ \A o \in Players : main'[o] = "await_resume" => sim'[o].events = Meeting(r.client)'
    BY <1>1, <1>3, <1>7, <2>1, <2>2 DEF Comparable
  <2>5. \E q \in Players : main'[q] # "await_resume" BY <1>2
  <2> QED BY <2>3, <2>4, <2>5 DEF Comparable
<1> QED BY <1>3, <1>4, <1>6, <1>8, <1>9, <1>10 DEF PairInv, HwInv, LineInv

\* Every way in which a process ends is one of these.
Ends(p) ==
  /\ Crash(p) \/ TakePause(p) \/ Synchronize(p) \/ TakeResume(p) \/ Resumed(p) \/ ExitedAnswers(p)
  /\ main'[p] = "exited"

LEMMA EndsKeep ==
  ASSUME PairInv, NEW p \in Players, Ends(p)
  PROVE  PairInv' /\ AlignedWithout(p) /\ main' = [main EXCEPT ![p] = "exited"]
<1>1. PairTypeOK /\ HwInv /\ Queueing BY DEF PairInv, HwInv, PairTypeOK, LineInv
<1>2. main \in [Players -> {"serving", "exited"} \cup Recalibrating] BY <1>1 DEF PairTypeOK
<1>3. /\ main' = [main EXCEPT ![p] = "exited"] /\ phase' = phase /\ progress' = progress
      /\ (line' = line /\ ask' = ask) \/ (line[p] # <<>> /\ Reply(p, "error"))
      /\ sim' = sim
      /\ \/ TakePause(p) \/ Synchronize(p) \/ TakeResume(p) \/ Crash(p)
         \/ UNCHANGED hwVars
  <2>1. CASE Crash(p) BY <2>1 DEF Crash, clientVars
  <2>2. CASE TakePause(p) BY <1>2, <2>2 DEF Ends, TakePause, Exit, Asked
  <2>3. CASE Synchronize(p) BY <1>2, <2>3 DEF Ends, Synchronize, Exit, Asked
  <2>4. CASE TakeResume(p) BY <1>2, <2>4 DEF Ends, TakeResume, Exit, Asked
  <2>5. CASE Resumed(p)
    <3>1. line[p] # <<>> BY <1>1, <2>5 DEF Queueing, Asked, Resumed
    <3> QED BY <1>2, <2>5, <3>1 DEF Ends, Resumed, Exit, hwVars
  <2>6. CASE ExitedAnswers(p) BY <1>2, <2>6 DEF ExitedAnswers, hwVars
  <2> QED BY <2>1, <2>2, <2>3, <2>4, <2>5, <2>6 DEF Ends
<1>4. HwInv' BY <1>1, <1>3, ControlKeepsHw, HwUnchanged
<1> QED BY <1>3, <1>4, ExitKeeps

LEMMA TakePauseKeeps ==
  ASSUME PairInv, NEW p \in Players, TakePause(p), main'[p] # "exited"
  PROVE  PairInv' /\ SameAligned
<1>1. PairTypeOK /\ HwInv /\ Queueing /\ Exclusive /\ Positions /\ InStep /\ Comparable
  BY DEF PairInv, HwInv, PairTypeOK, LineInv
<1>2. PICK h : h = Head(line[p]) OBVIOUS
<1>3. /\ line[p] # <<>> /\ h.command = "pause" /\ main[p] = "serving" /\ Reply(p, "ok")
      /\ main' = [main EXCEPT ![p] = "await_sync"]
      /\ progress' = [progress EXCEPT ![h.client][p] = sim[p].events]
      /\ phase' = phase /\ sim' = sim
  <2>1. main \in [Players -> {"serving", "exited"} \cup Recalibrating] BY <1>1 DEF PairTypeOK
  <2> QED BY <1>2, <2>1 DEF TakePause, Exit, Asked
<1>4. HwInv' BY <1>1, ControlKeepsHw
<1>5. /\ main'[p] = "await_sync" /\ \A q \in Players : q # p => main'[q] = main[q]
      /\ main' \in [Players -> {"serving", "exited"} \cup Recalibrating]
  BY <1>1, <1>3 DEF PairTypeOK, Recalibrating
<1>6. Answered(p, h, "ok") /\ Queueing'
  <2>1. "ok" \in Answers BY DEF Answers
  <2>2. \A q \in Players : main'[q] = "finishing" => main[q] = "finishing" /\ q # p BY <1>5
  <2> QED BY ONLY <1>1, <1>2, <1>3, <2>1, <2>2, Replied, p \in Players
<1>7. h.client \in Clients /\ phase[h.client] \in {"pause", "failed"} /\ h \in Elems(line[p])
  BY <1>1, <1>3, <1>6, Requests DEF Answered
<1>8. /\ \A d \in Clients, q \in Players : d # h.client \/ q # p => progress'[d][q] = progress[d][q]
      /\ progress'[h.client][p] = sim[p].events
      /\ progress' \in [Clients -> [Players -> Counter]]
  <2>1. sim[p].events \in Counter BY <1>1, SimulatorSteps DEF HwInv, TypeOK
  <2> QED BY <1>1, <1>3, <1>7, <2>1 DEF PairTypeOK
<1>9. PairTypeOK' BY <1>1, <1>3, <1>4, <1>5, <1>6, <1>8 DEF PairTypeOK, HwInv, Answered
\* The simulator was in its sessions: nobody owned it.
<1>10. \A d \in Clients : ~Owns(d, p) BY <1>1, <1>3, OwnedHeld
<1>11. \A d \in Clients : phase[d] # "synchronize" BY <1>10 DEF Owns
<1>12. \A r \in Elems(line[p]) : r.command = "pause" BY <1>1, <1>10, Requests
<1>13. \A q \in Players : \A r \in Elems(line[q]) : r.command # "synchronize"
  BY <1>1, <1>3 DEF Positions, AtLast, Synchronizing
<1>14. \A d \in Clients, q \in Players : d # h.client \/ q # p => (Owns(d, q)' => Owns(d, q))
  BY <1>3, <1>6 DEF Owns, Answered
<1>15. Exclusive'
  <2>1. \A q \in Players : \A c, d \in Clients : Owns(c, q)' /\ Owns(d, q)' => c = d
    <3> SUFFICES ASSUME NEW q \in Players, NEW c \in Clients, NEW d \in Clients, Owns(c, q)', Owns(d, q)'
                 PROVE  c = d
      OBVIOUS
    <3>1. CASE q = p
      <4>1. c = h.client /\ d = h.client BY <1>10, <1>14, <3>1
      <4> QED BY <4>1
    <3>2. CASE q # p
      <4>1. Owns(c, q) /\ Owns(d, q) BY <1>14, <3>2
      <4> QED BY <1>1, <4>1 DEF Exclusive
    <3> QED BY <3>1, <3>2
  <2>2. ASSUME NEW d \in Clients, Active(d)' PROVE Active(d)
    <3>1. PICK q \in Players : Owns(d, q)' BY <2>2 DEF Active
    <3>2. phase[d] # "pause" BY <1>3, <2>2 DEF Active
    <3>3. ~(d = h.client /\ q = p)
      <4> SUFFICES ASSUME d = h.client, q = p PROVE FALSE
        OBVIOUS
      <4>1. phase'[d] = "failed" BY <1>3, <1>7, <3>2
      <4>2. \A r \in Elems(line'[p]) : r.client # d BY <1>6 DEF Answered
      <4> QED BY <3>1, <4>1, <4>2 DEF Owns
    <3>4. Owns(d, q) BY <1>14, <3>1, <3>3
    <3> QED BY <3>2, <3>4 DEF Active
  <2> QED BY <1>1, <2>1, <2>2 DEF Exclusive
<1>16. Positions'
  <2>1. \A q \in Players, d \in Clients :
          /\ phase'[d] = "pause" /\ ask'[d][q] = "ok" => main'[q] \in {"await_sync", "exited"}
          /\ phase'[d] = "synchronize" =>
               /\ main'[q] \in Synchronizing \cup {"exited"}
               /\ ask'[d][q] = "unsent" => main'[q] \in {"await_sync", "exited"}
               /\ ask'[d][q] = "ok" => main'[q] \in {"await_resume", "exited"}
          /\ phase'[d] = "resume" /\ ask'[d][q] = "unsent" => main'[q] \in {"await_resume", "exited"}
    <3> SUFFICES ASSUME NEW q \in Players, NEW d \in Clients
                 PROVE  /\ phase'[d] = "pause" /\ ask'[d][q] = "ok" => main'[q] \in {"await_sync", "exited"}
                        /\ phase'[d] = "resume" /\ ask'[d][q] = "unsent" => main'[q] \in {"await_resume", "exited"}
      BY <1>3, <1>11
    <3>1. CASE q # p
      <4>1. ask'[d][q] = ask[d][q] /\ main'[q] = main[q] BY <1>5, <1>6, <3>1 DEF Answered
      <4> QED BY <1>1, <1>3, <4>1 DEF Positions, AtLast
    <3>2. CASE q = p
      <4>1. phase[d] = "resume" => ask[d][p] # "unsent" BY <1>10 DEF Owns
      <4>2. phase[d] = "resume" => ask'[d][p] # "unsent" BY <1>6, <1>7, <4>1 DEF Answered
      <4> QED BY <1>3, <1>5, <3>2, <4>2
    <3> QED BY <3>1, <3>2
  <2>2. \A q \in Players : \A r \in Elems(line'[q]) :
          /\ r.command = "synchronize" =>
               main'[q] \in {"await_sync", "exited"} /\ \A o \in Players : main'[o] \in Synchronizing \cup {"exited"}
          /\ r.command = "resume" => main'[q] \in {"await_resume", "finishing", "exited"}
    <3> SUFFICES ASSUME NEW q \in Players, NEW r \in Elems(line'[q])
                 PROVE  /\ r.command # "synchronize"
                        /\ r.command = "resume" => main'[q] \in {"await_resume", "finishing", "exited"}
      OBVIOUS
    <3>1. r \in Elems(line[q]) BY <1>6 DEF Answered
    <3>2. r.command # "synchronize" BY <1>13, <3>1
    <3>3. r.command = "resume" => main'[q] = main[q] BY <1>5, <1>12, <3>1
    <3>4. r.command = "resume" => main[q] \in {"await_resume", "finishing", "exited"} BY <1>1, <3>1 DEF Positions, AtLast
    <3> QED BY <3>2, <3>3, <3>4
  <2> QED BY <2>1, <2>2 DEF Positions, AtLast
<1>17. InStep' /\ SameAligned
  <2>1. ~Realigned(p)' /\ ~Realigned(p) BY <1>3, <1>5 DEF Realigned, Mode
  <2>2. \A q \in Players : q # p => (Realigned(q)' <=> Realigned(q)) BY <1>5 DEF Realigned
  <2>3. \A q \in Players : q # p => (ResumeUnderWay(q)' <=> ResumeUnderWay(q))
    BY <1>3, <1>5, <1>6 DEF ResumeUnderWay, Answered
  <2> QED BY <1>1, <2>1, <2>2, <2>3, InStepWithout
<1>18. Comparable'
  <2>1. \A d \in Clients, q \in Players :
          phase'[d] = "pause" /\ ask'[d][q] = "ok" => sim'[q].events = progress'[d][q]
    <3> SUFFICES ASSUME NEW d \in Clients, NEW q \in Players, phase'[d] = "pause", ask'[d][q] = "ok"
                 PROVE  sim'[q].events = progress'[d][q]
      OBVIOUS
    <3>1. CASE d = h.client /\ q = p BY <1>3, <1>8, <3>1
    <3>2. CASE d # h.client \/ q # p
      <4>1. ask[d][q] = "ok" /\ progress'[d][q] = progress[d][q] BY <1>6, <1>8, <3>2 DEF Answered
      <4> QED BY <1>1, <1>3, <4>1 DEF Comparable
    <3> QED BY <3>1, <3>2
  <2>2. \A q \in Players : \A r \in Elems(line'[q]) : r.command # "synchronize"
    BY <1>6, <1>13 DEF Answered
  <2>3. \E q \in Players : main'[q] # "await_resume" BY <1>5
  <2> QED BY <1>3, <1>11, <2>1, <2>2, <2>3 DEF Comparable
<1> QED BY <1>4, <1>6, <1>9, <1>15, <1>16, <1>17, <1>18 DEF PairInv, HwInv, LineInv

\* Discarding brings a simulator to where the pair is to meet.
LEMMA SynchronizeKeeps ==
  ASSUME PairInv, NEW p \in Players, Synchronize(p), main'[p] # "exited"
  PROVE  PairInv' /\ SameAligned
<1>1. PairTypeOK /\ HwInv /\ Queueing /\ Exclusive /\ Positions /\ InStep /\ Comparable
  BY DEF PairInv, HwInv, PairTypeOK, LineInv
<1>2. PICK h : h = Head(line[p]) OBVIOUS
<1>3. /\ Reply(p, "ok") /\ main' = [main EXCEPT ![p] = "await_resume"]
      /\ sim' = [sim EXCEPT ![p] = Discard(sim[p], h.batches)]
  <2>1. main \in [Players -> {"serving", "exited"} \cup Recalibrating] BY <1>1 DEF PairTypeOK
  <2> QED BY <1>2, <2>1 DEF Synchronize, Exit
<1>4. /\ Asked(p, "synchronize") /\ line[p] # <<>> /\ h.command = "synchronize" /\ main[p] = "await_sync"
      /\ phase' = phase /\ progress' = progress
  BY <1>2 DEF Synchronize, Asked
<1>5. HwInv' BY <1>1, ControlKeepsHw
<1>6. /\ main'[p] = "await_resume"
      /\ \A q \in Players : q # p => main'[q] = main[q]
      /\ main' \in [Players -> {"serving", "exited"} \cup Recalibrating]
  BY <1>1, <1>3 DEF PairTypeOK, Recalibrating
<1>7. Answered(p, h, "ok") /\ Queueing'
  <2>1. "ok" \in Answers BY DEF Answers
  <2>2. \A q \in Players : main'[q] = "finishing" => main[q] = "finishing" /\ q # p BY <1>6
  <2> QED BY ONLY <1>1, <1>2, <1>3, <1>4, <2>1, <2>2, Replied, p \in Players
<1>8. PairTypeOK' BY <1>1, <1>4, <1>5, <1>6, <1>7 DEF PairTypeOK, HwInv, Answered
<1>9. h.client \in Clients /\ h \in Elems(line[p]) BY <1>7 DEF Answered
<1>10. /\ phase[h.client] \in {"synchronize", "failed"}
       /\ \A d \in Clients : Owns(d, p) => d = h.client
       /\ \A q \in Players : \A s \in Elems(line[q]) : s.command # "pause" =>
            s.client = h.client /\ s.command = "synchronize"
       /\ phase[h.client] = "synchronize" => ask[h.client][p] \in {"sent", "timeout"}
  BY <1>1, <1>4, <1>9, Sole, Requests
<1>11. /\ \A q \in Players : ~ResumeUnderWay(q) /\ main[q] \in Synchronizing \cup {"exited"}
  BY <1>4, NotAligned
<1>12. /\ \A d \in Clients, q \in Players : ask'[d][q] = "unsent" => ask[d][q] = "unsent"
       /\ \A d \in Clients, q \in Players : phase[d] = "pause" /\ ask'[d][q] = "ok" => ask[d][q] = "ok"
  <2> SUFFICES ASSUME NEW d \in Clients, NEW q \in Players
               PROVE  /\ ask'[d][q] = "unsent" => ask[d][q] = "unsent"
                      /\ phase[d] = "pause" /\ ask'[d][q] = "ok" => ask[d][q] = "ok"
    OBVIOUS
  <2>1. CASE d = h.client /\ q = p BY <1>3, <1>7, <1>10, <2>1 DEF Answered
  <2>2. CASE d # h.client \/ q # p BY <1>7, <2>2 DEF Answered
  <2> QED BY <2>1, <2>2
<1>13. \A d \in Clients : \A q \in Players : Owns(d, q)' => Owns(d, q)
  BY <1>4, <1>7, <1>12 DEF Owns, Answered
<1>14. Exclusive'
  <2>1. \A d \in Clients : Active(d)' => Active(d) BY <1>4, <1>13 DEF Active
  <2> QED BY <1>1, <1>13, <2>1, ExclusiveShrinks
\* Only the client that asked has anything to do with this simulator.
<1>15. ASSUME NEW d \in Clients
       PROVE  /\ ~(phase'[d] = "pause" /\ ask'[d][p] = "ok")
              /\ phase'[d] = "synchronize" => d = h.client /\ ask'[d][p] \in {"ok", "timeout"}
              /\ ~(phase'[d] = "resume" /\ ask'[d][p] = "unsent")
  <2>1. phase'[d] = "pause" /\ ask'[d][p] = "ok" => Owns(d, p) BY <1>4, <1>12 DEF Owns
  <2>2. phase'[d] = "resume" /\ ask'[d][p] = "unsent" => Owns(d, p) BY <1>4, <1>12 DEF Owns
  <2>3. phase'[d] = "synchronize" => Owns(d, p) BY <1>4 DEF Owns
  <2>4. phase[h.client] = "synchronize" => ask'[h.client][p] \in {"ok", "timeout"}
    BY <1>7, <1>10 DEF Answered
  <2> QED BY <1>4, <1>10, <2>1, <2>2, <2>3, <2>4
<1>16. \A q \in Players : \A r \in Elems(line'[q]) : r.command # "pause" =>
         q # p /\ r \in Elems(line[q]) /\ r.client = h.client /\ r.command = "synchronize"
  BY <1>7, <1>10 DEF Answered
<1>17. \A q \in Players : main'[q] \in Synchronizing \cup {"exited"} BY <1>6, <1>11 DEF Synchronizing
<1>18. Positions'
  <2>1. \A q \in Players, d \in Clients :
          /\ phase'[d] = "pause" /\ ask'[d][q] = "ok" => main'[q] \in {"await_sync", "exited"}
          /\ phase'[d] = "synchronize" =>
               /\ main'[q] \in Synchronizing \cup {"exited"}
               /\ ask'[d][q] = "unsent" => main'[q] \in {"await_sync", "exited"}
               /\ ask'[d][q] = "ok" => main'[q] \in {"await_resume", "exited"}
          /\ phase'[d] = "resume" /\ ask'[d][q] = "unsent" => main'[q] \in {"await_resume", "exited"}
    <3> SUFFICES ASSUME NEW q \in Players, NEW d \in Clients
                 PROVE  /\ phase'[d] = "pause" /\ ask'[d][q] = "ok" => main'[q] \in {"await_sync", "exited"}
                        /\ phase'[d] = "synchronize" =>
                             /\ ask'[d][q] = "unsent" => main'[q] \in {"await_sync", "exited"}
                             /\ ask'[d][q] = "ok" => main'[q] \in {"await_resume", "exited"}
                        /\ phase'[d] = "resume" /\ ask'[d][q] = "unsent" => main'[q] \in {"await_resume", "exited"}
      BY <1>17
    <3>1. CASE q = p BY <1>3, <1>6, <1>15, <3>1
    <3>2. CASE q # p
      <4>1. ask'[d][q] = ask[d][q] /\ main'[q] = main[q] BY <1>6, <1>7, <3>2 DEF Answered
      <4> QED BY <1>1, <1>4, <4>1 DEF Positions, AtLast
    <3> QED BY <3>1, <3>2
  <2>2. \A q \in Players : \A r \in Elems(line'[q]) :
          /\ r.command = "synchronize" =>
               main'[q] \in {"await_sync", "exited"} /\ \A o \in Players : main'[o] \in Synchronizing \cup {"exited"}
          /\ r.command = "resume" => main'[q] \in {"await_resume", "finishing", "exited"}
    <3> SUFFICES ASSUME NEW q \in Players, NEW r \in Elems(line'[q])
                 PROVE  /\ r.command = "synchronize" => main'[q] \in {"await_sync", "exited"}
                        /\ r.command # "resume"
      BY <1>17
    <3>1. r.command = "synchronize" => main[q] \in {"await_sync", "exited"} /\ main'[q] = main[q]
      BY <1>1, <1>6, <1>16 DEF Positions, AtLast
    <3> QED BY <1>16, <3>1
  <2> QED BY <2>1, <2>2 DEF Positions, AtLast
<1>19. InStep' /\ SameAligned
  <2>1. ASSUME NEW q \in Players, ResumeUnderWay(q)' PROVE FALSE
    <3>1. line[q] \in Seq(Lines) /\ line'[q] \in Seq(Lines) BY <1>1, <1>7, RequestsTyped DEF Answered
    <3>2. main'[q] \notin {"finishing", "completing"} BY <1>17 DEF Synchronizing
    <3>3. (\E r \in Elems(line'[q]) : r.command = "resume") => FALSE BY <1>16
    <3>4. (\E d \in Clients : phase'[d] = "resume" /\ ask'[d][q] = "unsent") => ResumeUnderWay(q)
      BY <1>4, <1>12 DEF ResumeUnderWay
    <3> QED BY <1>11, <2>1, <3>1, <3>2, <3>3, <3>4, ResumesInLine DEF ResumeUnderWay
  <2>2. ~Aligned BY <1>4, NotAligned
  <2> QED BY <2>1, <2>2 DEF InStep, Aligned, SameAligned
<1>20. Comparable'
  <2>1. \A d \in Clients : Meeting(d)' = Meeting(d) BY <1>4 DEF Meeting
  <2>2. /\ Advance(sim[p].events, h.batches) = Meeting(h.client)
        /\ \A q \in Players : main[q] = "await_resume" => sim[q].events = Meeting(h.client)
    BY <1>1, <1>4, <1>9 DEF Comparable
  <2>3. \A q \in Players : q # p => sim'[q] = sim[q] BY <1>1, <1>3 DEF HwInv, TypeOK
  <2>4. sim'[p].events = Meeting(h.client)
    <3>1. sim[p] \in Simulators /\ h.batches \in Nat BY <1>1, <1>9, RequestsTyped DEF HwInv, TypeOK, Counter
    <3>2. Discard(sim[p], h.batches).events = Advance(sim[p].events, h.batches) BY <3>1, SimulatorSteps
    <3> QED BY <1>1, <1>3, <1>6, <2>2, <3>2 DEF HwInv, TypeOK
  <2>5. \A q \in Players : main'[q] = "await_resume" => sim'[q].events = Meeting(h.client)
    BY <1>6, <2>2, <2>3, <2>4
  <2>6. \A d \in Clients, q \in Players :
          /\ phase'[d] = "pause" /\ ask'[d][q] = "ok" => sim'[q].events = progress'[d][q]
          /\ phase'[d] = "synchronize" =>
               /\ main'[q] = "await_sync" => sim'[q].events = progress'[d][q]
               /\ main'[q] = "await_resume" => sim'[q].events = Meeting(d)'
    <3> SUFFICES ASSUME NEW d \in Clients, NEW q \in Players
                 PROVE  /\ phase'[d] = "pause" /\ ask'[d][q] = "ok" => sim'[q].events = progress'[d][q]
                        /\ phase'[d] = "synchronize" =>
                             /\ main'[q] = "await_sync" => sim'[q].events = progress'[d][q]
                             /\ main'[q] = "await_resume" => sim'[q].events = Meeting(d)
      BY <2>1
    <3>1. CASE q = p BY <1>6, <1>15, <2>4, <3>1
    <3>2. CASE q # p
      <4>1. ask'[d][q] = ask[d][q] /\ main'[q] = main[q] BY <1>6, <1>7, <3>2 DEF Answered
      <4> QED BY <1>1, <1>4, <2>3, <3>2, <4>1 DEF Comparable
    <3> QED BY <3>1, <3>2
  <2>7. ASSUME NEW q \in Players, NEW r \in Elems(line'[q]), r.command = "synchronize"
        PROVE  /\ Advance(sim'[q].events, r.batches) = Meeting(r.client)'
               /\ \A o \in Players : main'[o] = "await_resume" => sim'[o].events = Meeting(r.client)'
    <3>1. q # p /\ r \in Elems(line[q]) /\ r.client = h.client BY <1>16, <2>7
    <3>2. Advance(sim[q].events, r.batches) = Meeting(r.client) BY <1>1, <2>7, <3>1 DEF Comparable
    <3>3. Meeting(r.client)' = Meeting(h.client) /\ Meeting(r.client) = Meeting(h.client) BY <1>9, <2>1, <3>1
    <3> QED BY <2>3, <2>5, <3>1, <3>2, <3>3
  <2>8. (\A q \in Players : main'[q] = "await_resume") => sim'["alice"].events = sim'["bob"].events
    BY <2>5, TwoPlayers
  <2> QED BY <2>6, <2>7, <2>8 DEF Comparable
<1> QED BY <1>5, <1>7, <1>8, <1>14, <1>18, <1>19, <1>20 DEF PairInv, HwInv, LineInv

LEMMA TakeResumeKeeps ==
  ASSUME PairInv, NEW p \in Players, TakeResume(p), main'[p] # "exited"
  PROVE  PairInv' /\ SameAligned
<1>1. PairTypeOK /\ HwInv /\ Queueing /\ Exclusive /\ Positions /\ InStep /\ Comparable
  BY DEF PairInv, HwInv, PairTypeOK, LineInv
<1>2. PICK h : h = Head(line[p]) OBVIOUS
<1>3. /\ Asked(p, "resume") /\ line[p] # <<>> /\ h.command = "resume" /\ main[p] = "await_resume"
      /\ main' = [main EXCEPT ![p] = "finishing"] /\ sim' = [sim EXCEPT ![p] = End(sim[p])]
      /\ phase' = phase /\ ask' = ask /\ progress' = progress /\ line' = line
  <2>1. main \in [Players -> {"serving", "exited"} \cup Recalibrating] BY <1>1 DEF PairTypeOK
  <2> QED BY <1>2, <2>1 DEF TakeResume, Exit, Asked
<1>4. HwInv' BY <1>1, ControlKeepsHw
<1>5. /\ main'[p] = "finishing" /\ \A q \in Players : q # p => main'[q] = main[q]
      /\ main' \in [Players -> {"serving", "exited"} \cup Recalibrating]
  BY <1>1, <1>3 DEF PairTypeOK, Recalibrating
<1>6. PairTypeOK' BY <1>1, <1>3, <1>4, <1>5 DEF PairTypeOK, HwInv
<1>7. Queueing' BY <1>1, <1>3, <1>5 DEF Queueing, Asked
<1>8. h \in Elems(line[p])
  <2>1. line[p] \in Seq(Lines) /\ OnePerClient(line[p]) BY <1>1, RequestsTyped DEF Queueing
  <2> QED BY <1>2, <1>3, <2>1, Removed
<1>9. /\ phase[h.client] \in {"resume", "failed"}
      /\ \A d \in Clients : Owns(d, p) => d = h.client
      /\ \A q \in Players : \A s \in Elems(line[q]) : s.command # "pause" =>
           s.client = h.client /\ s.command = "resume"
      /\ phase[h.client] = "resume" => ask[h.client][p] \in {"sent", "timeout"}
  BY <1>1, <1>3, <1>8, Sole, Requests
<1>10. Exclusive' BY <1>1, <1>3 DEF Exclusive, Active, Owns
<1>11. ASSUME NEW d \in Clients
       PROVE  /\ ~(phase[d] = "pause" /\ ask[d][p] = "ok")
              /\ phase[d] # "synchronize"
              /\ ~(phase[d] = "resume" /\ ask[d][p] = "unsent")
  <2>1. phase[d] = "pause" /\ ask[d][p] = "ok" => Owns(d, p) BY DEF Owns
  <2>2. phase[d] = "resume" /\ ask[d][p] = "unsent" => Owns(d, p) BY DEF Owns
  <2>3. phase[d] = "synchronize" => Owns(d, p) BY DEF Owns
  <2> QED BY <1>9, <2>1, <2>2, <2>3
<1>12. \A q \in Players : \A r \in Elems(line[q]) : r.command # "synchronize" BY <1>9
<1>13. Positions'
  <2>1. \A q \in Players, d \in Clients :
          /\ phase[d] = "pause" /\ ask[d][q] = "ok" => main'[q] \in {"await_sync", "exited"}
          /\ phase[d] # "synchronize"
          /\ phase[d] = "resume" /\ ask[d][q] = "unsent" => main'[q] \in {"await_resume", "exited"}
    <3> SUFFICES ASSUME NEW q \in Players, NEW d \in Clients
                 PROVE  /\ phase[d] = "pause" /\ ask[d][q] = "ok" => main'[q] \in {"await_sync", "exited"}
                        /\ phase[d] = "resume" /\ ask[d][q] = "unsent" => main'[q] \in {"await_resume", "exited"}
      BY <1>11
    <3>1. CASE q = p BY <1>11, <3>1
    <3>2. CASE q # p
      <4>1. main'[q] = main[q] BY <1>5, <3>2
      <4> QED BY <1>1, <4>1 DEF Positions, AtLast
    <3> QED BY <3>1, <3>2
  <2>2. \A q \in Players : \A r \in Elems(line[q]) :
          r.command = "resume" => main'[q] \in {"await_resume", "finishing", "exited"}
    <3>1. \A q \in Players : \A r \in Elems(line[q]) :
            r.command = "resume" => main[q] \in {"await_resume", "finishing", "exited"}
      BY <1>1 DEF Positions, AtLast
    <3> QED BY <1>5, <3>1
  <2> QED BY <1>3, <1>12, <2>1, <2>2 DEF Positions, AtLast
<1>14. InStep' /\ SameAligned
  <2>1. Realigned(p)' /\ Realigned(p) BY <1>3, <1>5 DEF Realigned, Mode
  <2>2. \A q \in Players : q # p => (Realigned(q)' <=> Realigned(q)) BY <1>5 DEF Realigned
  <2>3. ResumeUnderWay(p)' BY <1>5 DEF ResumeUnderWay
  <2>4. ResumeUnderWay(p)
    <3>1. line[p] \in Seq(Lines) BY <1>1, RequestsTyped
    <3> QED BY <1>3, <1>8, <3>1, ResumesInLine DEF ResumeUnderWay
  <2>5. \A q \in Players : q # p => (ResumeUnderWay(q)' <=> ResumeUnderWay(q))
    BY <1>3, <1>5 DEF ResumeUnderWay
  <2> QED BY <1>1, <2>1, <2>2, <2>3, <2>4, <2>5, InStepKept
<1>15. Comparable'
  <2>1. \A q \in Players : sim'[q].events = sim[q].events
    <3>1. sim[p] \in Simulators BY <1>1 DEF HwInv, TypeOK
    <3>2. sim'[p] = End(sim[p]) /\ \A q \in Players : q # p => sim'[q] = sim[q]
      BY <1>1, <1>3 DEF HwInv, TypeOK
    <3>3. sim'[p].events = sim[p].events BY <3>1, <3>2, SimulatorSteps
    <3> QED BY <3>2, <3>3
  <2>2. \A d \in Clients, q \in Players : phase[d] = "pause" /\ ask[d][q] = "ok" => sim[q].events = progress[d][q]
    BY <1>1 DEF Comparable
  <2>3. \E q \in Players : main'[q] # "await_resume" BY <1>5
  <2> QED BY <1>3, <1>11, <1>12, <2>1, <2>2, <2>3 DEF Comparable
<1> QED BY <1>4, <1>6, <1>7, <1>10, <1>13, <1>14, <1>15 DEF PairInv, HwInv, LineInv

LEMMA ResumedKeeps ==
  ASSUME PairInv, NEW p \in Players, Resumed(p), main'[p] # "exited"
  PROVE  PairInv' /\ SameAligned
<1>1. PairTypeOK /\ HwInv /\ Queueing /\ Exclusive /\ Positions /\ InStep /\ Comparable
  BY DEF PairInv, HwInv, PairTypeOK, LineInv
<1>2. PICK h : h = Head(line[p]) OBVIOUS
<1>3. /\ main[p] = "finishing" /\ main' = [main EXCEPT ![p] = "completing"] /\ Reply(p, "ok")
      /\ phase' = phase /\ progress' = progress /\ UNCHANGED hwVars
  <2>1. main \in [Players -> {"serving", "exited"} \cup Recalibrating] BY <1>1 DEF PairTypeOK
  <2> QED BY <2>1 DEF Resumed, Exit
<1>4. line[p] # <<>> /\ h.command = "resume" BY <1>1, <1>2, <1>3 DEF Queueing, Asked
<1>5. HwInv' /\ sim' = sim BY <1>1, <1>3, HwUnchanged
<1>6. /\ main'[p] = "completing" /\ \A q \in Players : q # p => main'[q] = main[q]
      /\ main' \in [Players -> {"serving", "exited"} \cup Recalibrating]
  BY <1>1, <1>3 DEF PairTypeOK, Recalibrating
<1>7. Answered(p, h, "ok") /\ Queueing'
  <2>1. "ok" \in Answers BY DEF Answers
  <2>2. \A q \in Players : main'[q] = "finishing" => main[q] = "finishing" /\ q # p BY <1>6
  <2> QED BY ONLY <1>1, <1>2, <1>3, <1>4, <2>1, <2>2, Replied, p \in Players
<1>8. PairTypeOK' BY <1>1, <1>3, <1>5, <1>6, <1>7 DEF PairTypeOK, HwInv, Answered
<1>9. h.client \in Clients /\ h \in Elems(line[p]) BY <1>7 DEF Answered
<1>10. /\ phase[h.client] \in {"resume", "failed"}
       /\ \A d \in Clients : Owns(d, p) => d = h.client
       /\ \A q \in Players : \A s \in Elems(line[q]) : s.command # "pause" =>
            s.client = h.client /\ s.command = "resume"
       /\ phase[h.client] = "resume" => ask[h.client][p] \in {"sent", "timeout"}
  BY <1>1, <1>4, <1>9, Sole, Requests
<1>11. \A d \in Clients, q \in Players :
         /\ ask'[d][q] = "unsent" <=> ask[d][q] = "unsent"
         /\ phase[d] = "pause" /\ ask'[d][q] = "ok" => ask[d][q] = "ok"
  <2> SUFFICES ASSUME NEW d \in Clients, NEW q \in Players
               PROVE  /\ ask'[d][q] = "unsent" <=> ask[d][q] = "unsent"
                      /\ phase[d] = "pause" /\ ask'[d][q] = "ok" => ask[d][q] = "ok"
    OBVIOUS
  <2>1. CASE d = h.client /\ q = p BY <1>7, <1>10, <2>1 DEF Answered
  <2>2. CASE d # h.client \/ q # p BY <1>7, <2>2 DEF Answered
  <2> QED BY <2>1, <2>2
<1>12. \A d \in Clients : \A q \in Players : Owns(d, q)' => Owns(d, q)
  BY <1>3, <1>7, <1>11 DEF Owns, Answered
<1>13. Exclusive'
  <2>1. \A d \in Clients : Active(d)' => Active(d) BY <1>3, <1>12 DEF Active
  <2> QED BY <1>1, <1>12, <2>1, ExclusiveShrinks
<1>14. ASSUME NEW d \in Clients
       PROVE  /\ ~(phase[d] = "pause" /\ ask'[d][p] = "ok")
              /\ phase[d] # "synchronize"
              /\ ~(phase[d] = "resume" /\ ask'[d][p] = "unsent")
  <2>1. phase[d] = "pause" /\ ask'[d][p] = "ok" => Owns(d, p) BY <1>11 DEF Owns
  <2>2. phase[d] = "resume" /\ ask'[d][p] = "unsent" => Owns(d, p) /\ ask[d][p] = "unsent" BY <1>11 DEF Owns
  <2>3. phase[d] = "synchronize" => Owns(d, p) BY DEF Owns
  <2> QED BY <1>10, <2>1, <2>2, <2>3
<1>15. \A q \in Players : \A r \in Elems(line'[q]) : r.command # "pause" =>
         q # p /\ r \in Elems(line[q]) /\ r.command = "resume"
  BY <1>7, <1>10 DEF Answered
<1>16. Positions'
  <2>1. \A q \in Players, d \in Clients :
          /\ phase[d] = "pause" /\ ask'[d][q] = "ok" => main'[q] \in {"await_sync", "exited"}
          /\ phase[d] # "synchronize"
          /\ phase[d] = "resume" /\ ask'[d][q] = "unsent" => main'[q] \in {"await_resume", "exited"}
    <3> SUFFICES ASSUME NEW q \in Players, NEW d \in Clients
                 PROVE  /\ phase[d] = "pause" /\ ask'[d][q] = "ok" => main'[q] \in {"await_sync", "exited"}
                        /\ phase[d] = "resume" /\ ask'[d][q] = "unsent" => main'[q] \in {"await_resume", "exited"}
      BY <1>14
    <3>1. CASE q = p BY <1>14, <3>1
    <3>2. CASE q # p
      <4>1. ask'[d][q] = ask[d][q] /\ main'[q] = main[q] BY <1>6, <1>7, <3>2 DEF Answered
      <4> QED BY <1>1, <4>1 DEF Positions, AtLast
    <3> QED BY <3>1, <3>2
  <2>2. ASSUME NEW q \in Players, NEW r \in Elems(line'[q])
        PROVE  r.command # "synchronize"
               /\ (r.command = "resume" => main'[q] \in {"await_resume", "finishing", "exited"})
    <3>1. r.command = "resume" => main[q] \in {"await_resume", "finishing", "exited"} /\ main'[q] = main[q]
      BY <1>1, <1>6, <1>15 DEF Positions, AtLast
    <3> QED BY <1>15, <3>1
  <2> QED BY <1>3, <2>1, <2>2 DEF Positions, AtLast
<1>17. InStep' /\ SameAligned
  <2>1. Realigned(p)' /\ Realigned(p) BY <1>3, <1>6 DEF Realigned, Mode
  <2>2. \A q \in Players : q # p => (Realigned(q)' <=> Realigned(q)) BY <1>6 DEF Realigned
  <2>3. ResumeUnderWay(p)' /\ ResumeUnderWay(p) BY <1>3, <1>6 DEF ResumeUnderWay
  <2>4. \A q \in Players : q # p => (ResumeUnderWay(q)' <=> ResumeUnderWay(q))
    BY <1>3, <1>6, <1>7, <1>11 DEF ResumeUnderWay, Answered
  <2> QED BY <1>1, <2>1, <2>2, <2>3, <2>4, InStepKept
<1>18. Comparable'
  <2>1. \A d \in Clients, q \in Players :
          phase[d] = "pause" /\ ask'[d][q] = "ok" => sim[q].events = progress[d][q]
    BY <1>1, <1>11 DEF Comparable
  <2>2. \A q \in Players : \A r \in Elems(line'[q]) : r.command # "synchronize" BY <1>15
  <2>3. \E q \in Players : main'[q] # "await_resume" BY <1>6
  <2> QED BY <1>3, <1>5, <1>14, <2>1, <2>2, <2>3 DEF Comparable
<1> QED BY <1>5, <1>7, <1>8, <1>13, <1>16, <1>17, <1>18 DEF PairInv, HwInv, LineInv

LEMMA CompleteKeeps ==
  ASSUME PairInv, NEW p \in Players, Complete(p)
  PROVE  /\ PairInv' /\ Aligned
         /\ AlignedWithout(p)
<1>1. PairTypeOK /\ HwInv /\ Queueing /\ Exclusive /\ Positions /\ InStep /\ Comparable
  BY DEF PairInv, HwInv, PairTypeOK, LineInv
<1>2. /\ main[p] = "completing" /\ main' = [main EXCEPT ![p] = "serving"]
      /\ phase' = phase /\ ask' = ask /\ progress' = progress /\ line' = line /\ UNCHANGED hwVars
  BY DEF Complete, clientVars
<1>3. HwInv' /\ sim' = sim BY <1>1, <1>2, HwUnchanged
<1>4. /\ main'[p] = "serving" /\ \A q \in Players : q # p => main'[q] = main[q]
      /\ main' \in [Players -> {"serving", "exited"} \cup Recalibrating]
  BY <1>1, <1>2 DEF PairTypeOK, Recalibrating
<1>5. PairTypeOK' BY <1>1, <1>2, <1>3, <1>4 DEF PairTypeOK, HwInv
<1>6. Queueing' BY <1>1, <1>2, <1>4 DEF Queueing, Asked
<1>7. Exclusive' BY <1>1, <1>2 DEF Exclusive, Active, Owns
<1>8. \A d \in Clients : ~Owns(d, p) BY <1>1, <1>2, OwnedHeld
<1>9. \A r \in Elems(line[p]) : r.command = "pause" BY <1>1, <1>8, Requests
<1>10. \A q \in Players : \A r \in Elems(line[q]) : r.command # "synchronize"
  BY <1>1, <1>2 DEF Positions, AtLast, Synchronizing
<1>11. \A d \in Clients : phase[d] # "synchronize" BY <1>8 DEF Owns
<1>12. Positions'
  <2>1. \A q \in Players, d \in Clients :
          /\ phase[d] = "pause" /\ ask[d][q] = "ok" => main'[q] \in {"await_sync", "exited"}
          /\ phase[d] = "resume" /\ ask[d][q] = "unsent" => main'[q] \in {"await_resume", "exited"}
    <3> SUFFICES ASSUME NEW q \in Players, NEW d \in Clients
                 PROVE  /\ phase[d] = "pause" /\ ask[d][q] = "ok" => main'[q] \in {"await_sync", "exited"}
                        /\ phase[d] = "resume" /\ ask[d][q] = "unsent" => main'[q] \in {"await_resume", "exited"}
      OBVIOUS
    <3>1. CASE q = p BY <1>8, <3>1 DEF Owns
    <3>2. CASE q # p
      <4>1. main'[q] = main[q] BY <1>4, <3>2
      <4> QED BY <1>1, <4>1 DEF Positions, AtLast
    <3> QED BY <3>1, <3>2
  <2>2. ASSUME NEW q \in Players, NEW r \in Elems(line[q]), r.command = "resume"
        PROVE  main'[q] \in {"await_resume", "finishing", "exited"}
    <3>1. main[q] \in {"await_resume", "finishing", "exited"} BY <1>1, <2>2 DEF Positions, AtLast
    <3>2. q # p BY <1>9, <2>2
    <3> QED BY <1>4, <3>1, <3>2
  <2> QED BY <1>2, <1>10, <1>11, <2>1, <2>2 DEF Positions, AtLast
<1>13. InStep' /\ Aligned /\ AlignedWithout(p)
  <2>1. ~Realigned(p)' BY <1>4 DEF Realigned, Mode
  <2>2. \A q \in Players : q # p => (Realigned(q)' <=> Realigned(q)) BY <1>4 DEF Realigned
  <2>3. \A q \in Players : q # p => (ResumeUnderWay(q)' <=> ResumeUnderWay(q))
    BY <1>2, <1>4 DEF ResumeUnderWay
  <2>4. Realigned(p) /\ ResumeUnderWay(p) BY <1>2 DEF Realigned, Mode, ResumeUnderWay
  <2>5. Aligned /\ \A q \in Players : Realigned(q) => ResumeUnderWay(q) BY <1>1, <2>4 DEF Aligned, InStep
  <2>6. AlignedWithout(p) BY <2>1, <2>2, <2>3, <2>5 DEF Aligned, AlignedWithout
  <2> QED BY <1>1, <2>1, <2>2, <2>3, <2>5, <2>6, InStepWithout
<1>14. Comparable'
  <2>1. \A d \in Clients, q \in Players :
          phase[d] = "pause" /\ ask[d][q] = "ok" => sim[q].events = progress[d][q]
    BY <1>1 DEF Comparable
  <2>2. \E q \in Players : main'[q] # "await_resume" BY <1>4
  <2> QED BY <1>2, <1>3, <1>10, <1>11, <2>1, <2>2 DEF Comparable
<1> QED BY <1>3, <1>5, <1>6, <1>7, <1>12, <1>13, <1>14 DEF PairInv, HwInv, LineInv

----------------------------------------------------------------------------
(* The pair that module PairPause describes.                               *)

PairMode == [p \in Players |-> Mode(main[p])]

LEMMA Moves ==
  ASSUME NEW p \in Players, NEW m, main \in [Players -> {"serving", "exited"} \cup Recalibrating],
         main' = [main EXCEPT ![p] = m]
  PROVE  PairMode' = [PairMode EXCEPT ![p] = Mode(m)] /\ PairMode[p] = Mode(main[p])
<1>1. \A q \in Players : main'[q] = IF q = p THEN m ELSE main[q] OBVIOUS
<1> QED BY <1>1 DEF PairMode

\* The steps of module PairPause, as this module has them.
Agreed == PairMode' = PairMode /\ NowAligned

Held(p) ==
  PairMode[p] = "serving" /\ PairMode' = [PairMode EXCEPT ![p] = "paused"] /\ SameAligned

CaughtUp(p) ==
  /\ PairMode[p] = "paused" /\ PairMode' = [PairMode EXCEPT ![p] = "realigned"]
  /\ \A q \in Players : PairMode[q] # "serving"
  /\ ~Aligned /\ SameAligned

Released(p) ==
  /\ PairMode[p] = "realigned" /\ PairMode' = [PairMode EXCEPT ![p] = "serving"]
  /\ Aligned /\ AlignedWithout(p)

Ended(p) == PairMode' = [PairMode EXCEPT ![p] = "exited"] /\ AlignedWithout(p)

\* Every step of the pair keeps the invariant, and is a step of PairPause or none.
LEMMA PairSteps ==
  ASSUME PairInv, PairNext \/ UNCHANGED pairVars
  PROVE  /\ PairInv'
         /\ \/ PairMode' = PairMode /\ SameAligned
            \/ Agreed
            \/ \E p \in Players : Held(p) \/ CaughtUp(p) \/ Released(p) \/ Ended(p)
<1>1. main \in [Players -> {"serving", "exited"} \cup Recalibrating] BY DEF PairInv, PairTypeOK
<1>2. ASSUME main' = main PROVE PairMode' = PairMode BY <1>2 DEF PairMode
<1>3. \A p \in Players : PairMode[p] = Mode(main[p]) BY DEF PairMode
<1>4. CASE UNCHANGED pairVars
  <2>1. /\ phase' = phase /\ ask' = ask /\ progress' = progress /\ line' = line /\ main' = main
        /\ UNCHANGED hwVars
    BY <1>4 DEF pairVars, clientVars
  <2>2. HwInv' /\ sim' = sim BY <2>1, HwUnchanged DEF PairInv, PairTypeOK, HwInv
  <2>3. PairTypeOK' BY <2>1, <2>2 DEF PairInv, PairTypeOK, HwInv
  <2>4. Queueing' /\ Exclusive' /\ Positions' /\ InStep' /\ SameAligned
    BY <2>1 DEF PairInv, LineInv, Queueing, Asked, Exclusive, Active, Owns, Positions, AtLast, InStep,
                Aligned, Realigned, ResumeUnderWay, SameAligned
  <2>5. Comparable' BY <2>1, <2>2 DEF PairInv, Comparable, Meeting
  <2> QED BY <1>2, <2>1, <2>2, <2>3, <2>4, <2>5 DEF PairInv, LineInv, HwInv
<1>5. ASSUME NEW c \in Clients, ClientStep(c)
      PROVE  PairInv' /\ PairMode' = PairMode /\ (SameAligned \/ NowAligned)
  <2>1. CASE Proceed(c)
    <3>1. main' = main BY <2>1 DEF Proceed
    <3> QED BY <1>2, <2>1, <3>1, ProceedKeeps
  <2>2. ASSUME NEW p \in Players, Send(c, p) \/ GiveUp(c, p)
        PROVE  PairInv' /\ PairMode' = PairMode /\ SameAligned
    <3>1. main' = main BY <2>2 DEF Send, GiveUp
    <3> QED BY <1>2, <2>2, <3>1, SendKeeps, GiveUpKeeps
  <2> QED BY <1>5, <2>1, <2>2 DEF ClientStep
<1>6. ASSUME (\E p \in Players : SessionStep(p)) \/ OutsideStep
      PROVE  PairInv' /\ PairMode' = PairMode /\ SameAligned
  <2>1. main' = main BY <1>6 DEF SessionStep, OutsideStep
  <2> QED BY <1>2, <1>6, <2>1, SessionsKeep
<1>7. ASSUME NEW p \in Players, Refuse(p)
      PROVE  PairInv' /\ PairMode' = PairMode /\ SameAligned
  <2>1. main' = main BY <1>7 DEF Refuse
  <2> QED BY <1>2, <1>7, <2>1, RefusalsKeep
<1>8. ASSUME NEW p \in Players, Ends(p) PROVE PairInv' /\ Ended(p)
  <2>1. PairInv' /\ AlignedWithout(p) /\ main' = [main EXCEPT ![p] = "exited"] BY <1>8, EndsKeep
  <2>2. Mode("exited") = "exited" BY DEF Mode
  <2>3. PairMode' = [PairMode EXCEPT ![p] = "exited"] BY <1>1, <2>1, <2>2, Moves
  <2> QED BY <2>1, <2>3 DEF Ended
<1>9. ASSUME NEW p \in Players, TakePause(p), main'[p] # "exited" PROVE PairInv' /\ Held(p)
  <2>1. main[p] = "serving" /\ main' = [main EXCEPT ![p] = "await_sync"]
    BY <1>1, <1>9 DEF TakePause, Exit
  <2>2. Mode("serving") = "serving" /\ Mode("await_sync") = "paused" BY DEF Mode
  <2>3. PairMode[p] = "serving" /\ PairMode' = [PairMode EXCEPT ![p] = "paused"]
    BY <1>1, <2>1, <2>2, Moves
  <2> QED BY <1>9, <2>3, TakePauseKeeps DEF Held
<1>10. ASSUME NEW p \in Players, Synchronize(p), main'[p] # "exited" PROVE PairInv' /\ CaughtUp(p)
  <2>1. Asked(p, "synchronize") /\ main[p] = "await_sync" /\ main' = [main EXCEPT ![p] = "await_resume"]
    BY <1>1, <1>10 DEF Synchronize, Exit
  <2>2. Mode("await_sync") = "paused" /\ Mode("await_resume") = "realigned" /\ Mode("exited") = "exited"
    BY DEF Mode
  <2>3. ~Aligned /\ \A q \in Players : PairMode[q] # "serving"
    BY <1>3, <2>1, <2>2, NotAligned DEF Synchronizing
  <2>4. PairMode[p] = "paused" /\ PairMode' = [PairMode EXCEPT ![p] = "realigned"]
    BY <1>1, <2>1, <2>2, Moves
  <2> QED BY <1>10, <2>3, <2>4, SynchronizeKeeps DEF CaughtUp
<1>11. ASSUME NEW p \in Players, TakeResume(p) \/ Resumed(p), main'[p] # "exited"
       PROVE  PairInv' /\ PairMode' = PairMode /\ SameAligned
  <2>1. /\ main[p] \in {"await_resume", "finishing"}
        /\ main' = [main EXCEPT ![p] = "finishing"] \/ main' = [main EXCEPT ![p] = "completing"]
    BY <1>1, <1>11 DEF TakeResume, Resumed, Exit
  <2>2. \A m \in {"await_resume", "finishing", "completing"} : Mode(m) = "realigned" BY DEF Mode
  <2>3. PairMode' = PairMode BY <1>1, <2>1, <2>2 DEF PairMode
  <2> QED BY <1>11, <2>3, TakeResumeKeeps, ResumedKeeps
<1>12. ASSUME NEW p \in Players, Complete(p) PROVE PairInv' /\ Released(p)
  <2>1. main[p] = "completing" /\ main' = [main EXCEPT ![p] = "serving"] BY <1>12 DEF Complete
  <2>2. Mode("completing") = "realigned" /\ Mode("serving") = "serving" BY DEF Mode
  <2>3. PairMode[p] = "realigned" /\ PairMode' = [PairMode EXCEPT ![p] = "serving"]
    BY <1>1, <2>1, <2>2, Moves
  <2> QED BY <1>12, <2>3, CompleteKeeps DEF Released
<1>13. CASE \E c \in Clients : ClientStep(c) BY <1>5, <1>13 DEF Agreed
<1>14. CASE \E p \in Players : ControlStep(p)
  <2>1. PICK p \in Players : ControlStep(p) BY <1>14
  <2>2. CASE Refuse(p) BY <1>7, <2>2
  <2>3. CASE Complete(p) BY <1>12, <2>3
  <2>4. CASE Ends(p) BY <1>8, <2>4
  <2>5. CASE ~Ends(p) /\ ~Refuse(p) /\ ~Complete(p)
    <3>1. main'[p] # "exited"
      <4>1. Crash(p) => main'[p] = "exited" BY <1>1 DEF Crash
      <4>2. ExitedAnswers(p) => main'[p] = "exited" BY DEF ExitedAnswers
      <4> QED BY <2>1, <2>5, <4>1, <4>2 DEF ControlStep, Ends
    <3>2. TakePause(p) \/ Synchronize(p) \/ TakeResume(p) \/ Resumed(p)
      <4>1. Crash(p) => main'[p] = "exited" BY <1>1 DEF Crash
      <4>2. ExitedAnswers(p) => main'[p] = "exited" BY DEF ExitedAnswers
      <4> QED BY <2>1, <2>5, <3>1, <4>1, <4>2 DEF ControlStep
    <3> QED BY <1>9, <1>10, <1>11, <3>1, <3>2
  <2> QED BY <2>2, <2>3, <2>4, <2>5
<1>15. CASE (\E p \in Players : SessionStep(p)) \/ OutsideStep BY <1>6, <1>15
<1> QED BY <1>4, <1>13, <1>14, <1>15 DEF PairNext

----------------------------------------------------------------------------
(* The theorems.                                                           *)

\* No step of a client, of a simulator or of the sessions leaves the invariant,
\* with the registers free to be written at any time.
THEOREM PairInvariance == PairSpec => []PairInv
<1>1. PairInit => PairInv BY PairInitInv
<1>2. PairInv /\ [PairNext]_pairVars => PairInv' BY PairSteps
<1> QED BY <1>1, <1>2, PTL DEF PairSpec

\* The state of a pair under recalibration has its types: above all the counters
\* stay in their range and every pipe within its bound.
THEOREM PairTypeCorrect == PairSpec => []PairTypeOK
<1>1. PairInv => PairTypeOK BY DEF PairInv
<1> QED BY <1>1, PairInvariance, PTL

\* Each simulator admits a Pause of its own, yet only one run of hw_sim_control
\* ever has a Synchronize or a Resume under way.
THEOREM OneDriverAlways == PairSpec => []OneDriver
<1>1. PairInv => OneDriver
  <2> SUFFICES ASSUME PairInv, NEW c \in Clients, NEW d \in Clients, Driving(c), Driving(d) PROVE c = d
    BY DEF OneDriver
  <2>1. Queueing /\ Exclusive /\ PairTypeOK BY DEF PairInv, LineInv
  <2>2. ASSUME NEW e \in Clients, Driving(e) PROVE Active(e)
    <3>1. PICK p \in Players : ask[e][p] \notin Answers BY <2>2 DEF Driving
    <3>2. phase[e] \in {"synchronize", "resume"} BY <2>2 DEF Driving
    <3>3. ask[e][p] \in {"unsent", "sent"} BY <2>1, <3>1, RequestsTyped
    <3>4. CASE ask[e][p] = "unsent" BY <3>2, <3>4 DEF Active, Owns
    <3>5. CASE ask[e][p] = "sent"
      <4>1. PICK r \in Elems(line[p]) : r.client = e BY <2>1, <3>5 DEF Queueing
      <4>2. r.command = phase[e] BY <2>1, <3>2, <4>1, Requests
      <4> QED BY <2>1, <3>2, <4>1, <4>2, Requests
    <3> QED BY <3>3, <3>4, <3>5
  <2> QED BY <2>1, <2>2 DEF Exclusive
<1> QED BY <1>1, PairInvariance, PTL

\* A simulator that waits for Synchronize is never sent a Resume first, nor the
\* other way round, which would end its process.
THEOREM RightCommandAlways == PairSpec => []RightCommand
<1>1. PairInv => RightCommand
  <2> SUFFICES ASSUME PairInv, NEW p \in Players
               PROVE  /\ main[p] = "await_sync" => ~Asked(p, "resume")
                      /\ main[p] = "await_resume" => ~Asked(p, "synchronize")
    BY DEF RightCommand
  <2>1. PairTypeOK /\ Queueing /\ Positions BY DEF PairInv, LineInv
  <2>2. line[p] # <<>> => Head(line[p]) \in Elems(line[p])
    <3>1. line[p] \in Seq(Lines) /\ OnePerClient(line[p]) BY <2>1, RequestsTyped DEF Queueing
    <3> QED BY <3>1, Removed
  <2>3. Asked(p, "resume") => main[p] \in {"await_resume", "finishing", "exited"} BY <2>1, <2>2 DEF Asked, Positions, AtLast
  <2>4. Asked(p, "synchronize") => main[p] \in {"await_sync", "exited"} BY <2>1, <2>2 DEF Asked, Positions, AtLast
  <2> QED BY <2>3, <2>4
<1> QED BY <1>1, PairInvariance, PTL

\* What hw_sim_control compared still holds when its Synchronize is acted on, and
\* when both simulators have answered it their counters are equal.
THEOREM CountersRealignedAlways == PairSpec => []CountersRealigned
<1>1. PairInv => CountersRealigned BY DEF PairInv, Comparable, CountersRealigned
<1> QED BY <1>1, PairInvariance, PTL

\* However many clients there are, whichever of their requests time out and
\* wherever a simulator fails or is lost, the pair is recalibrated in step, as
\* module PairPause promises.
THEOREM ImplementsPairPauseHolds == PairSpec => ImplementsPairPause
<1> DEFINE al == \E p \in Players : Mode(main[p]) = "realigned" /\ ResumeUnderWay(p)
<1>1. PairInit => Promise!Init
  <2> SUFFICES ASSUME PairInit PROVE Promise!Init
    OBVIOUS
  <2>1. \A p \in Players : Mode(main[p]) = "serving" BY DEF PairInit, Mode
  <2>2. PairMode = [p \in Players |-> "serving"] BY <2>1 DEF PairMode
  <2>3. al = FALSE BY <2>1
  <2> QED BY <2>2, <2>3 DEF Promise!Init, PairMode
<1>2. PairInv /\ [PairNext]_pairVars => [Promise!Next]_(Promise!vars)
  <2> SUFFICES ASSUME PairInv, PairNext \/ UNCHANGED pairVars
               PROVE  Promise!Next \/ UNCHANGED Promise!vars
    OBVIOUS
  <2>1. /\ [p \in Players |-> Mode(main[p])] = PairMode /\ [p \in Players |-> Mode(main[p])]' = PairMode'
        /\ al = Aligned /\ al' = Aligned'
    BY DEF PairMode, Aligned, Realigned
  <2>2. \A p \in Players :
          /\ PairMode[p] \in {"serving", "exited", "paused", "realigned"}
          /\ PairMode[p] = Mode(main[p]) /\ (Realigned(p) <=> PairMode[p] = "realigned")
          /\ main[p] = "exited" => PairMode[p] = "exited"
    BY DEF PairMode, Mode, Realigned
  <2>3. CASE PairMode' = PairMode /\ SameAligned BY <2>1, <2>3 DEF SameAligned, Promise!vars
  <2>4. CASE Agreed BY <2>1, <2>2, <2>4 DEF Agreed, NowAligned, Promise!Next, Promise!Agree
  <2>5. ASSUME NEW p \in Players, Held(p) PROVE Promise!Next
    BY <2>1, <2>5 DEF Held, SameAligned, Promise!Next, Promise!Hold, Promise!Move
  <2>6. ASSUME NEW p \in Players, CaughtUp(p) PROVE Promise!Next
    BY <2>1, <2>2, <2>6
    DEF CaughtUp, SameAligned, Promise!Next, Promise!Realign, Promise!Held, Promise!Move
  <2>7. ASSUME NEW p \in Players, Released(p) PROVE Promise!Next
    BY <2>1, <2>2, <2>7
    DEF Released, AlignedWithout, Promise!Next, Promise!Release, Promise!Move, Promise!StillAligned
  <2>8. ASSUME NEW p \in Players, Ended(p) PROVE Promise!Next \/ UNCHANGED Promise!vars
    <3>1. CASE PairMode[p] # "exited"
      BY <2>1, <2>2, <2>8, <3>1
      DEF Ended, AlignedWithout, Promise!Next, Promise!Exit, Promise!StillAligned
    \* The answer of a process that has ended.
    <3>2. CASE PairMode[p] = "exited"
      <4>1. PairMode' = PairMode BY <2>8, <3>2 DEF Ended, PairMode
      <4>2. Aligned => \E q \in Players \ {p} : Realigned(q) BY <2>2, <3>2 DEF Aligned
      <4>3. Aligned' <=> Aligned BY <2>8, <4>2 DEF Ended, AlignedWithout
      <4> QED BY <2>1, <4>1, <4>3 DEF Promise!vars
    <3> QED BY <3>1, <3>2
  <2> QED BY <2>3, <2>4, <2>5, <2>6, <2>7, <2>8, PairSteps
<1> QED BY <1>1, <1>2, PairInvariance, PTL DEF PairSpec, ImplementsPairPause, Promise!Spec
=============================================================================
