-------------------------- MODULE Restarts_proofs --------------------------
(***************************************************************************)
(* Proofs about Restarts, for any period of the counters, any length of    *)
(* the pipe to Alice and any number of crashes.                            *)
(***************************************************************************)
EXTENDS Restarts, TLAPS

----------------------------------------------------------------------------
(* The parts of the inductive invariant.                                   *)

Lifecycle ==
  \A p \in Players :
    /\ run[p] \in Loop <=> sim[p].modulator = "Random"
    /\ run[p] = "command" => last[p] = 0
    /\ ~up[p] => run[p] = "closed"
    /\ up[p] /\ run[p] = "closed" => ~linked[p]
    /\ orphan[p] => ~linked[p] /\ run[p] = "closed"

\* Between Bob and his node: nothing, or his last batch, in one of two places,
\* while one of them still has the pipes open.
OneInFlight ==
  /\ gcr = <<>> \/ (gcr = <<drawn["bob"]>> /\ echo = <<>>)
  /\ echo = <<>> \/ echo = <<drawn["bob"]>>
  /\ gcr # <<>> \/ echo # <<>> =>
       run["bob"] \in {"check", "read"} \/ (~up["bob"] /\ linked["bob"])
  /\ run["alice"] = "closed" /\ ~linked["alice"] => wire = <<>>

Succ(n) == Advance(n, 1)

\* The number of the next batch Bob will generate, and of the one Alice's next
\* GC must belong to.
BobNext == IF run["bob"] \in Loop THEN sim["bob"].events ELSE 0

AliceExpects ==
  CASE run["alice"] = "gen" -> Succ(sim["alice"].events)
    [] run["alice"] \in {"check", "read", "angles"} -> sim["alice"].events
    [] OTHER -> 0

WireEnd == IF wire = <<>> THEN AliceExpects ELSE Succ(wire[Len(wire)][1])

WireInOrder ==
  /\ wire # <<>> => wire[1][1] = AliceExpects
  /\ \A i \in 1..(Len(wire) - 1) : wire[i + 1][1] = Succ(wire[i][1])

\* What Bob still sends on this connection of his starts with number n.
BobSends(n) ==
  /\ gcr # <<>> => drawn["bob"][1] = n
  /\ gcr = <<>> /\ up["bob"] => BobNext = n

\* A node that has the FIFOs open, and one that may still get something passed
\* on: it is in a session with the other, or waits for one.
Serves(p) == linked[p] /\ ~ended[p]
InSession(p) == (linked[p] \/ orphan[p]) /\ ~ended[p]

\* The numbers run on from Alice through the pipe to Bob while their nodes are in
\* session; a node whose session has not begun has passed nothing on.
Numbered ==
  /\ run["bob"] \in {"check", "read"} => sim["bob"].events = Succ(drawn["bob"][1])
  /\ ~stale /\ up["alice"] =>
       /\ run["alice"] = "gen" => heard[1] = sim["alice"].events
       /\ run["alice"] = "angles" => heard[1] = drawn["alice"][1]
       /\ WireInOrder
       /\ Serves("alice") /\ Serves("bob") => BobSends(WireEnd)
       /\ Serves("alice") /\ ~InSession("bob") => wire = <<>> /\ AliceExpects = 0
  /\ Serves("bob") /\ ~InSession("alice") => BobSends(0)

IInv == RestartTypeOK /\ Lifecycle /\ OneInFlight /\ Numbered

USE ModulusAssumption, MaxWireAssumption, MaxCrashesAssumption

----------------------------------------------------------------------------
(* The operators of Simulator and of the sequences.                        *)

LEMMA CounterTypes ==
  /\ 0 \in Counter
  /\ \A n \in Counter : Succ(n) \in Counter
<1>1. \A n \in Nat : n % Modulus \in 0..(Modulus - 1) OBVIOUS
<1> QED BY <1>1 DEF Counter, Succ, Advance

LEMMA SimulatorSteps ==
  ASSUME NEW s \in Simulators
  PROVE  /\ Initialize(s) \in Simulators /\ End(s) \in Simulators /\ Generate(s) \in Simulators
         /\ Initialize(s).modulator = "Random" /\ Initialize(s).events = 0
         /\ End(s).modulator = "Idle"
         /\ Generate(s).modulator = s.modulator /\ Generate(s).events = Succ(s.events)
         /\ ThisBatch(s) \in Batches /\ ThisBatch(s)[1] = s.events
         /\ s.events \in Counter /\ s.modulator \in {"Idle", "Random"}
<1>1. s.events \in Counter /\ s.stream \in Counter BY DEF Simulators
<1>2. Succ(s.events) \in Counter /\ Succ(s.stream) \in Counter BY <1>1, CounterTypes
<1>3. Generate(s) \in Simulators /\ Generate(s).modulator = s.modulator /\ Generate(s).events = Succ(s.events)
  BY <1>1, <1>2 DEF Simulators, Generate, Succ
<1>4. Initialize(s) \in Simulators /\ Initialize(s).modulator = "Random" /\ Initialize(s).events = 0
  BY CounterTypes DEF Simulators, Initialize
<1>5. End(s) \in Simulators /\ End(s).modulator = "Idle"
  BY DEF Simulators, End
<1>6. ThisBatch(s) \in Batches /\ ThisBatch(s)[1] = s.events BY <1>1 DEF ThisBatch, Batches
<1> QED BY <1>1, <1>3, <1>4, <1>5, <1>6 DEF Simulators

LEMMA FreshSimulator == Fresh \in Simulators /\ Fresh.modulator = "Idle" /\ Fresh.events = 0
BY CounterTypes DEF Fresh, Simulators

LEMMA SeqFacts ==
  ASSUME NEW S, NEW s \in Seq(S)
  PROVE  /\ Len(s) \in Nat
         /\ s = <<>> <=> Len(s) = 0
         /\ \A i \in 1..Len(s) : s[i] \in S
         /\ s # <<>> => /\ Head(s) = s[1] /\ s[1] \in S /\ Tail(s) \in Seq(S)
                        /\ Len(Tail(s)) = Len(s) - 1
                        /\ \A i \in 1..(Len(s) - 1) : Tail(s)[i] = s[i + 1]
         /\ \A x \in S : /\ Append(s, x) \in Seq(S)
                         /\ Append(s, x) # <<>>
                         /\ Len(Append(s, x)) = Len(s) + 1
                         /\ Append(s, x)[Len(s) + 1] = x
                         /\ \A i \in 1..Len(s) : Append(s, x)[i] = s[i]
OBVIOUS

LEMMA Singleton ==
  ASSUME NEW x
  PROVE  /\ Head(<<x>>) = x /\ Tail(<<x>>) = <<>> /\ <<x>> # <<>> /\ Len(<<x>>) = 1
         /\ Append(<<>>, x) = <<x>>
OBVIOUS

LEMMA EmptySeq == ASSUME NEW S PROVE <<>> \in Seq(S) /\ Len(<<>>) = 0
OBVIOUS

LEMMA TwoPlayers == Players = {"alice", "bob"} /\ "alice" \in Players /\ "bob" \in Players
BY DEF Players

LEMMA OtherPlayer == Other("alice") = "bob" /\ Other("bob") = "alice"
<1>1. \E q \in Players : q # "alice" BY TwoPlayers
<1>2. \E q \in Players : q # "bob" BY TwoPlayers
<1>3. Other("alice") \in Players /\ Other("alice") # "alice" BY <1>1 DEF Other
<1>4. Other("bob") \in Players /\ Other("bob") # "bob" BY <1>2 DEF Other
<1> QED BY <1>3, <1>4, TwoPlayers

\* What is left of a pipe from its front.
LEMMA Prefixes ==
  ASSUME NEW S, NEW s \in Seq(S), NEW n \in 0..Len(s)
  PROVE  /\ SubSeq(s, 1, n) \in Seq(S) /\ Len(SubSeq(s, 1, n)) = n
         /\ \A i \in 1..n : SubSeq(s, 1, n)[i] = s[i]
OBVIOUS

----------------------------------------------------------------------------
LEMMA InitInv == RestartInit => IInv
<1> SUFFICES ASSUME RestartInit PROVE IInv
  OBVIOUS
<1> USE DEF RestartInit, Init
<1>1. RestartTypeOK
  <2>1. <<0, 0>> \in Batches BY CounterTypes DEF Batches
  <2>2. sim \in [Players -> Simulators] BY FreshSimulator
  <2>3. gcr \in Seq(Batches) /\ echo \in Seq(Batches) /\ wire \in Seq(Batches)
        /\ Len(gcr) <= 1 /\ Len(echo) <= 1 /\ Len(wire) <= MaxWire
    BY EmptySeq
  <2>4. TypeOK BY <2>1, <2>2, <2>3 DEF TypeOK, RunStates
  <2> QED BY <2>4 DEF RestartTypeOK
<1>2. Lifecycle BY FreshSimulator DEF Lifecycle, Loop
<1>3. OneInFlight BY DEF OneInFlight
<1>4. Numbered
  <2>1. WireInOrder /\ ~Serves("alice") /\ ~Serves("bob")
    BY TwoPlayers, EmptySeq DEF WireInOrder, Serves
  <2> QED BY <2>1, TwoPlayers DEF Numbered
<1> QED BY <1>1, <1>2, <1>3, <1>4 DEF IInv

----------------------------------------------------------------------------
(* Crashes, starts and the nodes.                                          *)

\* Closing both ends of a pipe, or one.
LEMMA EmptiedPipes ==
  ASSUME IInv, NEW p \in Players, Emptied(p) \/ CloseEnds(p)
  PROVE  /\ gcr' \in Seq(Batches) /\ echo' \in Seq(Batches) /\ wire' \in Seq(Batches)
         /\ Len(gcr') <= 1 /\ Len(echo') <= 1 /\ Len(wire') <= MaxWire
         /\ p = "alice" => gcr' = gcr /\ echo' = echo /\ (wire' = <<>> \/ (linked[p] /\ wire' = wire))
         /\ p = "bob" => /\ wire' = wire
                         /\ \/ gcr' = <<>> /\ echo' = <<>>
                            \/ linked[p] /\ gcr' = gcr /\ echo' = echo
<1>1. <<>> \in Seq(Batches) /\ Len(<<>>) <= 1 /\ Len(<<>>) <= MaxWire BY EmptySeq
<1>2. /\ p = "alice" => gcr' = gcr /\ echo' = echo /\ (wire' = <<>> \/ (linked[p] /\ wire' = wire))
      /\ p = "bob" => /\ wire' = wire
                      /\ \/ gcr' = <<>> /\ echo' = <<>>
                         \/ linked[p] /\ gcr' = gcr /\ echo' = echo
  BY TwoPlayers DEF Emptied, CloseEnds, wires
<1>3. p = "alice" \/ p = "bob" BY TwoPlayers
<1> QED BY <1>1, <1>2, <1>3 DEF IInv, RestartTypeOK, TypeOK

LEMMA CrashKeeps ==
  ASSUME IInv, NEW p \in Players, Crash(p)
  PROVE  IInv'
<1> USE TwoPlayers DEF Crash, wires, nodes
<1>a. CloseEnds(p) OBVIOUS
<1>1. RestartTypeOK'
  <2>1. /\ gcr' \in Seq(Batches) /\ echo' \in Seq(Batches) /\ wire' \in Seq(Batches)
        /\ Len(gcr') <= 1 /\ Len(echo') <= 1 /\ Len(wire') <= MaxWire
    BY <1>a, EmptiedPipes
  <2> QED BY <2>1, FreshSimulator DEF IInv, RestartTypeOK, TypeOK, RunStates
<1>2. Lifecycle' BY FreshSimulator DEF IInv, RestartTypeOK, TypeOK, Lifecycle, Loop
<1>3. OneInFlight'
  <2>1. CASE p = "alice" BY <1>a, <2>1, EmptiedPipes DEF IInv, RestartTypeOK, TypeOK, OneInFlight
  <2>2. CASE p = "bob" BY <1>a, <2>2, EmptiedPipes DEF IInv, RestartTypeOK, TypeOK, OneInFlight
  <2> QED BY <2>1, <2>2
<1>4. Numbered'
  <2>1. CASE p = "alice"
    <3>1. gcr' = gcr /\ ~up'["alice"] /\ up'["bob"] = up["bob"] /\ run'["bob"] = run["bob"]
          /\ sim'["bob"] = sim["bob"]
      BY <1>a, <2>1, EmptiedPipes DEF IInv, RestartTypeOK, TypeOK
    <3> QED BY <3>1 DEF IInv, Numbered, BobSends, BobNext, Serves, InSession
  <2>2. CASE p = "bob"
    <3>1. /\ wire' = wire /\ ~up'["bob"] /\ run'["bob"] = "closed" /\ up'["alice"] = up["alice"]
          /\ run'["alice"] = run["alice"] /\ sim'["alice"] = sim["alice"]
          /\ linked["bob"] => gcr' = gcr \/ gcr' = <<>>
      BY <1>a, <2>2, EmptiedPipes DEF IInv, RestartTypeOK, TypeOK
    <3>2. AliceExpects' = AliceExpects /\ WireEnd' = WireEnd /\ (WireInOrder => WireInOrder')
      BY <3>1 DEF AliceExpects, WireEnd, WireInOrder
    <3>3. ASSUME NEW n, linked["bob"], BobSends(n) PROVE BobSends(n)'
      BY <3>1, <3>3 DEF BobSends
    <3> QED BY <3>1, <3>2, <3>3 DEF IInv, Numbered, Serves, InSession
  <2> QED BY <2>1, <2>2
<1> QED BY <1>1, <1>2, <1>3, <1>4 DEF IInv

LEMMA BootKeeps ==
  ASSUME IInv, NEW p \in Players, Boot(p)
  PROVE  IInv'
<1> USE TwoPlayers DEF Boot, runner
<1>a. Emptied(p) OBVIOUS
<1>1. RestartTypeOK'
  <2>1. /\ gcr' \in Seq(Batches) /\ echo' \in Seq(Batches) /\ wire' \in Seq(Batches)
        /\ Len(gcr') <= 1 /\ Len(echo') <= 1 /\ Len(wire') <= MaxWire
    BY <1>a, EmptiedPipes
  <2>2. up' \in [Players -> BOOLEAN] /\ linked' \in [Players -> BOOLEAN]
    BY DEF IInv, RestartTypeOK, TypeOK
  <2>3. orphan' \in [Players -> BOOLEAN] BY DEF IInv, RestartTypeOK, TypeOK
  <2> QED BY <2>1, <2>2, <2>3 DEF IInv, RestartTypeOK, TypeOK
<1>2. Lifecycle' BY DEF IInv, RestartTypeOK, TypeOK, Lifecycle
<1>3. OneInFlight' BY DEF IInv, RestartTypeOK, TypeOK, OneInFlight, Emptied
<1>b. \A q \in Players : /\ InSession(q)' <=> InSession(q)
                         /\ Serves(q)' <=> Serves(q) /\ q # p
  BY DEF IInv, RestartTypeOK, TypeOK, InSession, Serves
<1>4. Numbered'
  <2>1. CASE p = "alice"
    <3>1. gcr' = gcr /\ up'["bob"] = up["bob"] /\ wire' = <<>> BY <2>1 DEF Emptied, IInv, RestartTypeOK, TypeOK
    <3>2. run["alice"] = "closed" /\ ~Serves("alice")'
      BY <1>b, <2>1 DEF IInv, Lifecycle
    <3>3. \A n : BobSends(n)' <=> BobSends(n) BY <3>1 DEF BobSends, BobNext
    <3>4. WireInOrder' BY <3>1, EmptySeq DEF WireInOrder
    <3> QED BY <1>b, <3>1, <3>2, <3>3, <3>4 DEF IInv, Numbered
  <2>2. CASE p = "bob"
    <3>1. wire' = wire /\ up'["alice"] = up["alice"] BY <2>2 DEF Emptied, IInv, RestartTypeOK, TypeOK
    <3>2. ~Serves("bob")' BY <1>b, <2>2
    <3>3. AliceExpects' = AliceExpects /\ (WireInOrder => WireInOrder')
      BY <3>1 DEF AliceExpects, WireInOrder
    <3> QED BY <1>b, <3>1, <3>2, <3>3 DEF IInv, Numbered
  <2> QED BY <2>1, <2>2
<1> QED BY <1>1, <1>2, <1>3, <1>4 DEF IInv

\* The node of p leaves: the session with the other one is over for both.
LEMMA LeavingNodes ==
  ASSUME IInv, NEW p \in Players, Abandon(p)
  PROVE  /\ ended' \in [Players -> BOOLEAN]
         /\ ~InSession(p)' /\ ~Serves(p)'
         /\ \A q \in Players : q # p =>
              /\ linked'[q] = linked[q] /\ orphan'[q] = orphan[q]
              /\ Serves(q)' => Serves(q) /\ ~InSession(p)
              /\ InSession(q)' => InSession(q)
              /\ Serves(q) /\ ~InSession(p) => Serves(q)'
              /\ ~InSession(q)' => ~InSession(q) \/ InSession(p)
<1> USE TwoPlayers, OtherPlayer DEF IInv, RestartTypeOK, TypeOK, Abandon, Leaves, Serves, InSession
<1>1. CASE p = "alice" BY <1>1
<1>2. CASE p = "bob" BY <1>2
<1> QED BY <1>1, <1>2

LEMMA LeftPipes ==
  ASSUME IInv, NEW p \in Players, NodeCloses(p)
  PROVE  /\ gcr' \in Seq(Batches) /\ echo' \in Seq(Batches) /\ wire' \in Seq(Batches)
         /\ Len(gcr') <= 1 /\ Len(echo') <= 1 /\ Len(wire') <= MaxWire
         /\ p = "alice" => /\ gcr' = gcr /\ echo' = echo /\ Len(wire') <= Len(wire)
                           /\ \A i \in 1..Len(wire') : wire'[i] = wire[i]
                           /\ run["alice"] = "closed" => wire' = <<>>
         /\ p = "bob" => /\ wire' = wire /\ gcr' \in {gcr, <<>>} /\ echo' \in {echo, <<>>}
                         /\ run["bob"] = "closed" => gcr' = <<>> /\ echo' = <<>>
                         /\ run["bob"] # "closed" => gcr' = gcr
<1>0. <<>> \in Seq(Batches) /\ Len(<<>>) = 0 BY EmptySeq
<1>1. gcr \in Seq(Batches) /\ echo \in Seq(Batches) /\ wire \in Seq(Batches)
      /\ Len(gcr) <= 1 /\ Len(echo) <= 1 /\ Len(wire) <= MaxWire /\ Len(wire) \in Nat
  BY SeqFacts DEF IInv, RestartTypeOK, TypeOK
<1>2. CASE p = "alice"
  <2>1. CASE run["alice"] = "closed" BY <1>0, <1>1, <1>2, <2>1 DEF NodeCloses, Emptied
  <2>2. CASE run["alice"] # "closed"
    <3>1. PICK n \in 0..Len(wire) : wire' = SubSeq(wire, 1, n)
      BY <1>2, <2>2 DEF NodeCloses, LeftBehind
    <3>2. wire' \in Seq(Batches) /\ Len(wire') = n /\ \A i \in 1..n : wire'[i] = wire[i]
      BY <1>1, <3>1, Prefixes
    <3> QED BY <1>1, <1>2, <2>2, <3>2 DEF NodeCloses, LeftBehind
  <2> QED BY <2>1, <2>2
<1>3. CASE p = "bob"
  <2>1. CASE run["bob"] = "closed" BY <1>0, <1>1, <1>3, <2>1 DEF NodeCloses, Emptied
  <2>2. CASE run["bob"] # "closed"
    <3>1. wire' = wire /\ gcr' = gcr /\ (echo' = echo \/ echo' = <<>>)
      BY <1>3, <2>2 DEF NodeCloses, LeftBehind
    <3>2. echo' \in Seq(Batches) /\ Len(echo') <= 1
      <4>1. CASE echo' = echo BY <1>1, <4>1
      <4>2. CASE echo' = <<>> BY <1>0, <4>2
      <4> QED BY <3>1, <4>1, <4>2
    <3>3. gcr' \in Seq(Batches) /\ Len(gcr') <= 1 /\ wire' \in Seq(Batches) /\ Len(wire') <= MaxWire
      BY <1>1, <3>1
    <3> QED BY <1>3, <2>2, <3>1, <3>2, <3>3
  <2> QED BY <2>1, <2>2
<1> QED BY <1>2, <1>3, TwoPlayers

LEMMA AbandonKeeps ==
  ASSUME IInv, NEW p \in Players, Abandon(p)
  PROVE  IInv'
<1> USE TwoPlayers DEF runner
<1>a. /\ NodeCloses(p) /\ UNCHANGED <<sim, run, last, drawn, heard, mmio, stale, up, crashes>>
      /\ linked' = [linked EXCEPT ![p] = FALSE] /\ orphan' = [orphan EXCEPT ![p] = FALSE]
  BY DEF Abandon
<1>1. RestartTypeOK'
  <2>1. /\ gcr' \in Seq(Batches) /\ echo' \in Seq(Batches) /\ wire' \in Seq(Batches)
        /\ Len(gcr') <= 1 /\ Len(echo') <= 1 /\ Len(wire') <= MaxWire
    BY <1>a, LeftPipes
  <2>2. ended' \in [Players -> BOOLEAN] BY LeavingNodes
  <2> QED BY <1>a, <2>1, <2>2 DEF IInv, RestartTypeOK, TypeOK
<1>2. Lifecycle' BY <1>a DEF IInv, RestartTypeOK, TypeOK, Lifecycle
<1>3. OneInFlight'
  <2>1. CASE p = "alice"
    BY <1>a, <2>1, LeftPipes DEF IInv, RestartTypeOK, TypeOK, OneInFlight
  <2>2. CASE p = "bob"
    <3>1. \/ gcr' = <<>> /\ echo' = <<>>
          \/ run["bob"] # "closed" /\ gcr' = gcr /\ echo' \in {echo, <<>>}
      BY <1>a, <2>2, LeftPipes
    <3>2. ~up["bob"] => run["bob"] = "closed" BY DEF IInv, Lifecycle
    <3>3. wire' = wire /\ linked'["alice"] = linked["alice"]
      BY <1>a, <2>2, LeftPipes DEF IInv, RestartTypeOK, TypeOK
    <3> QED BY <1>a, <3>1, <3>2, <3>3 DEF IInv, OneInFlight
  <2> QED BY <2>1, <2>2
<1>4. Numbered'
  <2>1. CASE p = "alice"
    <3>1. \A n : BobSends(n)' <=> BobSends(n)
      BY <1>a, <2>1, LeftPipes DEF BobSends, BobNext
    <3>2. WireInOrder => WireInOrder'
      <4> SUFFICES ASSUME WireInOrder PROVE WireInOrder'
        OBVIOUS
      <4>1. Len(wire') \in Nat /\ Len(wire) \in Nat /\ Len(wire') <= Len(wire)
            /\ (wire' # <<>> => Len(wire') # 0) /\ (wire # <<>> <=> Len(wire) # 0)
        <5>1. wire' \in Seq(Batches) /\ wire \in Seq(Batches)
          BY <1>a, LeftPipes DEF IInv, RestartTypeOK, TypeOK
        <5> QED BY <1>a, <2>1, <5>1, LeftPipes, SeqFacts
      <4>2. \A i \in 1..Len(wire') : wire'[i] = wire[i] BY <1>a, <2>1, LeftPipes
      <4>3. AliceExpects' = AliceExpects BY <1>a DEF AliceExpects
      <4>4. wire' # <<>> => wire'[1][1] = AliceExpects
        <5> SUFFICES ASSUME wire' # <<>> PROVE wire'[1][1] = AliceExpects
          OBVIOUS
        <5>1. 1 \in 1..Len(wire') /\ wire # <<>> BY <4>1
        <5> QED BY <4>2, <5>1 DEF WireInOrder
      <4>5. ASSUME NEW i \in 1..(Len(wire') - 1) PROVE wire'[i + 1][1] = Succ(wire'[i][1])
        <5>1. i \in 1..Len(wire') /\ i + 1 \in 1..Len(wire') /\ i \in 1..(Len(wire) - 1) BY <4>1
        <5> QED BY <4>2, <5>1 DEF WireInOrder
      <4> QED BY <4>3, <4>4, <4>5 DEF WireInOrder
    <3> QED BY <1>a, <2>1, <3>1, <3>2, LeavingNodes DEF IInv, Numbered
  <2>2. CASE p = "bob"
    <3>1. wire' = wire /\ AliceExpects' = AliceExpects BY <1>a, <2>2, LeftPipes DEF AliceExpects
    <3>2. WireInOrder => WireInOrder' BY <3>1 DEF WireInOrder
    <3> QED BY <1>a, <2>2, <3>1, <3>2, LeavingNodes DEF IInv, Numbered
  <2> QED BY <2>1, <2>2
<1> QED BY <1>1, <1>2, <1>3, <1>4 DEF IInv

\* Connect and Relink are the same to the numbers, but for GC that an earlier
\* node has left to Alice: the simulator has no session.
LEMMA NodeOpensKeeps ==
  ASSUME IInv, NEW p \in Players, NodeOpens(p)
  PROVE  IInv'
<1> USE TwoPlayers DEF processes, runner, wires
<1>a. /\ up[p] /\ ~linked[p] /\ ~orphan[p] /\ linked' = [linked EXCEPT ![p] = TRUE]
      /\ run[p] \in {"closed", "command"} /\ run' = [run EXCEPT ![p] = "command"]
      /\ last[p] \in {0, 1} /\ last' = [last EXCEPT ![p] = 0]
      /\ UNCHANGED <<sim, drawn, heard, mmio, ended, wires, processes>>
      /\ p = "bob" => stale' = stale
      /\ p = "alice" /\ ~stale' => wire = <<>>
      /\ stale' \in BOOLEAN
  <2>1. CASE Connect(p) /\ ~orphan[p]
    BY <2>1 DEF NodeOpens, Connect, GoTo, IInv, RestartTypeOK, TypeOK, OneInFlight
  <2>2. CASE Relink(p)
    <3>1. run' = [run EXCEPT ![p] = "command"] /\ last' = [last EXCEPT ![p] = 0]
      BY <2>2 DEF Relink, IInv, RestartTypeOK, TypeOK, Lifecycle
    <3> QED BY <2>2, <3>1 DEF NodeOpens, Relink, IInv, RestartTypeOK, TypeOK, Lifecycle
  <2> QED BY <2>1, <2>2 DEF NodeOpens
<1>1. RestartTypeOK' BY <1>a DEF IInv, RestartTypeOK, TypeOK, RunStates
<1>2. Lifecycle' BY <1>a DEF IInv, RestartTypeOK, TypeOK, Lifecycle, Loop
<1>3. OneInFlight' BY <1>a DEF IInv, RestartTypeOK, TypeOK, OneInFlight
<1>b. \A q \in Players : /\ q # p => (Serves(q)' <=> Serves(q)) /\ (InSession(q)' <=> InSession(q))
                         /\ q = p => ~InSession(q)
  BY <1>a DEF IInv, RestartTypeOK, TypeOK, Serves, InSession
<1>4. Numbered'
  <2>1. CASE p = "alice"
    <3>1. ~stale' => wire = <<>> /\ AliceExpects' = 0 /\ WireInOrder' /\ WireEnd' = 0
      BY <1>a, <2>1, EmptySeq DEF IInv, RestartTypeOK, TypeOK, AliceExpects, WireInOrder, WireEnd
    <3>2. /\ run'["bob"] = run["bob"] /\ run'["alice"] = "command"
          /\ \A n : BobSends(n)' <=> BobSends(n)
      BY <1>a, <2>1 DEF IInv, RestartTypeOK, TypeOK, BobSends, BobNext
    <3>3. Serves("bob")' => BobSends(0) BY <1>b, <2>1 DEF IInv, Numbered
    <3> HIDE DEF wires, processes
    <3>4. wire' = wire /\ sim' = sim /\ drawn' = drawn BY <1>a DEF wires
    <3> QED BY <3>1, <3>2, <3>3, <3>4 DEF IInv, Numbered
  <2>2. CASE p = "bob"
    <3>1. gcr = <<>> /\ BobNext' = 0 /\ run'["bob"] = "command"
      BY <1>a, <2>2 DEF IInv, RestartTypeOK, TypeOK, OneInFlight, BobNext, Loop
    <3>2. BobSends(0)' BY <1>a, <3>1 DEF BobSends
    <3>3. /\ AliceExpects' = AliceExpects /\ WireEnd' = WireEnd /\ (WireInOrder => WireInOrder')
          /\ run'["alice"] = run["alice"] /\ stale' = stale
      BY <1>a, <2>2 DEF IInv, RestartTypeOK, TypeOK, AliceExpects, WireInOrder, WireEnd
    <3>4. ~stale /\ up["alice"] /\ Serves("alice")' => wire = <<>> /\ AliceExpects = 0
      BY <1>b, <2>2 DEF IInv, Numbered
    <3>5. ~stale /\ up["alice"] /\ Serves("alice")' => WireEnd = 0
      BY <3>4 DEF WireEnd
    <3> QED BY <1>a, <1>b, <2>2, <3>1, <3>2, <3>3, <3>4, <3>5 DEF IInv, Numbered
  <2> QED BY <2>1, <2>2
<1> QED BY <1>1, <1>2, <1>3, <1>4 DEF IInv

----------------------------------------------------------------------------
(* The runners.                                                            *)

\* The only command the workflow ever sees is START.
LEMMA PollStarts ==
  ASSUME IInv, NEW p \in Players, Poll(p)
  PROVE  /\ run[p] = "command" /\ last' = [last EXCEPT ![p] = mmio[p]]
         /\ UNCHANGED <<drawn, heard, mmio, nodes, wires>>
         /\ \/ /\ run' = [run EXCEPT ![p] = LoopStart(p)]
               /\ sim' = [sim EXCEPT ![p] = Initialize(@)]
            \/ mmio[p] = 0 /\ UNCHANGED <<run, sim>>
<1>1. run[p] = "command" BY DEF Poll, GoTo, Classify
<1>2. last[p] = 0 /\ mmio[p] \in {0, 1} BY <1>1 DEF IInv, Lifecycle, RestartTypeOK, TypeOK
<1>3. CASE mmio[p] = 0 BY <1>1, <1>2, <1>3 DEF Poll, Classify
<1>4. CASE mmio[p] = 1 BY <1>1, <1>2, <1>4 DEF Poll, Classify, GoTo
<1> QED BY <1>2, <1>3, <1>4

LEMMA PollKeeps ==
  ASSUME IInv, NEW p \in Players, up[p], Poll(p), UNCHANGED processes
  PROVE  IInv'
<1> USE TwoPlayers DEF processes, wires, nodes
<1>a. sim[p] \in Simulators BY DEF IInv, RestartTypeOK, TypeOK
<1>1. RestartTypeOK'
  BY <1>a, PollStarts, SimulatorSteps DEF IInv, RestartTypeOK, TypeOK, RunStates, LoopStart, Loop
<1>2. Lifecycle'
  BY <1>a, PollStarts, SimulatorSteps DEF IInv, RestartTypeOK, TypeOK, Lifecycle, LoopStart, Loop
<1>3. OneInFlight'
  BY PollStarts DEF IInv, RestartTypeOK, TypeOK, OneInFlight, LoopStart
<1>4. Numbered'
  <2>1. BobNext' = BobNext /\ AliceExpects' = AliceExpects
    BY <1>a, PollStarts, SimulatorSteps
      DEF IInv, RestartTypeOK, TypeOK, BobNext, AliceExpects, LoopStart, Loop
  <2>2. WireEnd' = WireEnd /\ (WireInOrder => WireInOrder') /\ \A n : BobSends(n)' <=> BobSends(n)
    BY <2>1, PollStarts DEF WireEnd, WireInOrder, BobSends
  <2>3. /\ run'["bob"] \in {"check", "read"} => run["bob"] = run'["bob"] /\ sim'["bob"] = sim["bob"]
        /\ run'["alice"] \in {"gen", "angles"} => run["alice"] = run'["alice"] /\ sim'["alice"] = sim["alice"]
    BY PollStarts DEF IInv, RestartTypeOK, TypeOK, LoopStart
  <2> QED BY <2>1, <2>2, <2>3, PollStarts DEF IInv, Numbered, Serves, InSession
<1> QED BY <1>1, <1>2, <1>3, <1>4 DEF IInv

LEMMA BobGeneratesKeeps ==
  ASSUME IInv, up["bob"], BobGenerates, UNCHANGED processes
  PROVE  IInv'
<1> USE TwoPlayers DEF processes, nodes
<1> DEFINE b == ThisBatch(sim["bob"])
<1>a. sim["bob"] \in Simulators /\ b \in Batches BY SimulatorSteps DEF IInv, RestartTypeOK, TypeOK
<1>b. run["bob"] = "gen" /\ gcr = <<>> /\ echo = <<>>
  BY DEF BobGenerates, GoTo, IInv, OneInFlight
<1>c. /\ run' = [run EXCEPT !["bob"] = "check"] /\ sim' = [sim EXCEPT !["bob"] = Generate(@)]
      /\ drawn' = [drawn EXCEPT !["bob"] = b]
      /\ gcr' = IF linked["bob"] THEN <<b>> ELSE <<>>
      /\ UNCHANGED <<last, heard, mmio, nodes, echo, wire>>
  BY <1>b, Singleton DEF BobGenerates, GoTo
<1>1. RestartTypeOK'
  <2>1. gcr' \in Seq(Batches) /\ Len(gcr') <= 1 BY <1>a, <1>c, EmptySeq, Singleton
  <2>2. sim' \in [Players -> Simulators] /\ drawn' \in [Players -> Batches]
    BY <1>a, <1>c, SimulatorSteps DEF IInv, RestartTypeOK, TypeOK
  <2> QED BY <1>c, <2>1, <2>2 DEF IInv, RestartTypeOK, TypeOK, RunStates, Loop
<1>2. Lifecycle'
  BY <1>a, <1>b, <1>c, SimulatorSteps DEF IInv, RestartTypeOK, TypeOK, Lifecycle, Loop
<1>3. OneInFlight'
  BY <1>b, <1>c DEF IInv, RestartTypeOK, TypeOK, OneInFlight
<1>4. Numbered'
  <2>1. drawn'["bob"][1] = BobNext /\ sim'["bob"].events = Succ(drawn'["bob"][1])
    BY <1>a, <1>b, <1>c, SimulatorSteps DEF IInv, RestartTypeOK, TypeOK, BobNext, Loop
  <2>2. \A n : linked["bob"] /\ BobSends(n) => BobSends(n)'
    BY <1>b, <1>c, <2>1, Singleton DEF BobSends
  <2>3. AliceExpects' = AliceExpects /\ WireEnd' = WireEnd /\ (WireInOrder => WireInOrder')
    BY <1>c DEF IInv, RestartTypeOK, TypeOK, AliceExpects, WireEnd, WireInOrder
  <2>4. run'["alice"] = run["alice"] /\ sim'["alice"] = sim["alice"] /\ drawn'["alice"] = drawn["alice"]
    BY <1>c DEF IInv, RestartTypeOK, TypeOK
  <2> QED BY <1>c, <2>1, <2>2, <2>3, <2>4 DEF IInv, Numbered, Serves, InSession
<1> QED BY <1>1, <1>2, <1>3, <1>4 DEF IInv

LEMMA AliceGeneratesKeeps ==
  ASSUME IInv, up["alice"], AliceGenerates, UNCHANGED processes
  PROVE  IInv'
<1> USE TwoPlayers DEF processes, wires, nodes
<1> DEFINE b == ThisBatch(sim["alice"])
<1>a. sim["alice"] \in Simulators /\ b \in Batches BY SimulatorSteps DEF IInv, RestartTypeOK, TypeOK
<1>c. /\ run["alice"] = "gen" /\ run' = [run EXCEPT !["alice"] = "angles"]
      /\ sim' = [sim EXCEPT !["alice"] = Generate(@)]
      /\ drawn' = [drawn EXCEPT !["alice"] = b]
      /\ UNCHANGED <<last, heard, mmio, nodes, wires>>
  BY DEF AliceGenerates, GoTo
<1>1. RestartTypeOK'
  <2>2. sim' \in [Players -> Simulators] /\ drawn' \in [Players -> Batches]
    BY <1>a, <1>c, SimulatorSteps DEF IInv, RestartTypeOK, TypeOK
  <2> QED BY <1>c, <2>2 DEF IInv, RestartTypeOK, TypeOK, RunStates, Loop
<1>2. Lifecycle'
  BY <1>a, <1>c, SimulatorSteps DEF IInv, RestartTypeOK, TypeOK, Lifecycle, Loop
<1>3. OneInFlight'
  BY <1>c DEF IInv, RestartTypeOK, TypeOK, OneInFlight
<1>4. Numbered'
  <2>1. AliceExpects' = AliceExpects /\ (~stale => heard[1] = drawn'["alice"][1])
    BY <1>a, <1>c, SimulatorSteps DEF IInv, RestartTypeOK, TypeOK, Numbered, AliceExpects
  <2>2. WireEnd' = WireEnd /\ (WireInOrder => WireInOrder')
    BY <1>c, <2>1 DEF WireEnd, WireInOrder
  <2>3. run'["bob"] = run["bob"] /\ sim'["bob"] = sim["bob"] /\ drawn'["bob"] = drawn["bob"]
    BY <1>c DEF IInv, RestartTypeOK, TypeOK
  <2>4. \A n : BobSends(n)' <=> BobSends(n) BY <1>c, <2>3 DEF BobSends, BobNext
  <2>5. run'["alice"] = "angles" BY <1>c DEF IInv, RestartTypeOK, TypeOK
  <2> QED BY <1>c, <2>1, <2>2, <2>3, <2>4, <2>5 DEF IInv, Numbered, Serves, InSession
<1> QED BY <1>1, <1>2, <1>3, <1>4 DEF IInv

LEMMA BobReadsKeeps ==
  ASSUME IInv, up["bob"], BobReads, UNCHANGED processes
  PROVE  IInv'
<1> USE TwoPlayers DEF processes, nodes
<1>a. /\ run["bob"] = "read" /\ run' = [run EXCEPT !["bob"] = "angles"]
      /\ gcr = <<>> /\ echo = <<drawn["bob"]>> /\ echo' = <<>>
      /\ UNCHANGED <<sim, last, drawn, heard, mmio, nodes, gcr, wire>>
  BY Singleton DEF BobReads, GoTo, IInv, OneInFlight
<1>1. RestartTypeOK' BY <1>a, EmptySeq DEF IInv, RestartTypeOK, TypeOK, RunStates, Loop
<1>2. Lifecycle' BY <1>a DEF IInv, RestartTypeOK, TypeOK, Lifecycle, Loop
<1>3. OneInFlight' BY <1>a DEF IInv, OneInFlight
<1>4. Numbered'
  <2>1. BobNext' = BobNext /\ AliceExpects' = AliceExpects
    BY <1>a DEF IInv, RestartTypeOK, TypeOK, BobNext, AliceExpects, Loop
  <2>2. WireEnd' = WireEnd /\ (WireInOrder => WireInOrder') /\ \A n : BobSends(n)' <=> BobSends(n)
    BY <1>a, <2>1 DEF WireEnd, WireInOrder, BobSends
  <2>3. run'["bob"] = "angles" /\ run'["alice"] = run["alice"] BY <1>a DEF IInv, RestartTypeOK, TypeOK
  <2> QED BY <1>a, <2>1, <2>2, <2>3 DEF IInv, Numbered, Serves, InSession
<1> QED BY <1>1, <1>2, <1>3, <1>4 DEF IInv

LEMMA AliceReadsKeeps ==
  ASSUME IInv, up["alice"], AliceReads, UNCHANGED processes
  PROVE  IInv'
<1> USE TwoPlayers DEF processes, nodes
<1>a. /\ run["alice"] = "read" /\ run' = [run EXCEPT !["alice"] = "gen"]
      /\ wire # <<>> /\ wire \in Seq(Batches) /\ wire' = Tail(wire) /\ heard' = wire[1]
      /\ UNCHANGED <<sim, last, drawn, mmio, nodes, gcr, echo>>
  BY SeqFacts DEF AliceReads, GoTo, IInv, RestartTypeOK, TypeOK
<1>b. /\ Len(wire) \in Nat \ {0} /\ wire[1] \in Batches /\ wire' \in Seq(Batches)
      /\ Len(wire') = Len(wire) - 1 /\ (wire' = <<>> <=> Len(wire') = 0)
      /\ \A i \in 1..(Len(wire) - 1) : wire'[i] = wire[i + 1]
  <2>1. wire' \in Seq(Batches) BY <1>a, SeqFacts
  <2>2. wire' = <<>> <=> Len(wire') = 0 BY <2>1, SeqFacts
  <2> QED BY <1>a, <2>1, <2>2, SeqFacts
<1>1. RestartTypeOK' BY <1>a, <1>b DEF IInv, RestartTypeOK, TypeOK, RunStates, Loop
<1>2. Lifecycle' BY <1>a DEF IInv, RestartTypeOK, TypeOK, Lifecycle, Loop
<1>3. OneInFlight' BY <1>a, <1>b DEF IInv, RestartTypeOK, TypeOK, OneInFlight
<1>4. Numbered'
  <2>1. ~stale => WireInOrder
    BY DEF IInv, Numbered
  <2>2. AliceExpects = sim["alice"].events /\ AliceExpects' = Succ(AliceExpects)
        /\ (~stale => wire[1][1] = AliceExpects)
    BY <1>a, <2>1 DEF IInv, RestartTypeOK, TypeOK, AliceExpects, WireInOrder
  <2>3. ASSUME ~stale PROVE WireInOrder' /\ WireEnd' = WireEnd
    <3>1. CASE Len(wire) = 1 BY <1>a, <1>b, <2>2, <2>3, <3>1 DEF WireInOrder, WireEnd
    <3>2. CASE Len(wire) > 1
      <4>1. 1 \in 1..(Len(wire) - 1) BY <1>b, <3>2
      <4>2. wire'[1][1] = Succ(wire[1][1]) BY <1>b, <2>1, <2>3, <4>1 DEF WireInOrder
      <4>3. \A i \in 1..(Len(wire') - 1) : wire'[i + 1][1] = Succ(wire'[i][1])
        <5> TAKE i \in 1..(Len(wire') - 1)
        <5>1. i \in 1..(Len(wire) - 1) /\ i + 1 \in 1..(Len(wire) - 1) BY <1>b
        <5> QED BY <1>b, <2>1, <2>3, <5>1 DEF WireInOrder
      <4>4. wire'[Len(wire')] = wire[Len(wire)]
        <5>1. Len(wire') \in 1..(Len(wire) - 1) /\ Len(wire') + 1 = Len(wire) BY <1>b, <3>2
        <5> QED BY <1>b, <5>1
      <4> QED BY <1>a, <1>b, <2>2, <2>3, <3>2, <4>2, <4>3, <4>4 DEF WireInOrder, WireEnd
    <3> QED BY <1>b, <3>1, <3>2
  <2>4. \A n : BobSends(n)' <=> BobSends(n)
    BY <1>a DEF IInv, RestartTypeOK, TypeOK, BobSends, BobNext
  <2>5. run'["bob"] = run["bob"] /\ run'["alice"] = "gen"
        /\ (~stale => heard'[1] = sim'["alice"].events)
    BY <1>a, <2>2 DEF IInv, RestartTypeOK, TypeOK
  <2>6. ~stale /\ Serves("alice") => InSession("bob") BY <1>a, <2>1 DEF IInv, Numbered, Serves, InSession
  <2> QED BY <1>a, <2>1, <2>3, <2>4, <2>5, <2>6 DEF IInv, Numbered, Serves, InSession
<1> QED BY <1>1, <1>2, <1>3, <1>4 DEF IInv

\* A step of the loop that touches neither the numbers nor the FIFOs.
LEMMA LoopKeeps ==
  ASSUME IInv, NEW p \in Players, up[p], Check(p) \/ WriteAngles(p), UNCHANGED processes
  PROVE  IInv'
<1> USE TwoPlayers DEF processes, wires, nodes
<1>a. UNCHANGED <<sim, last, drawn, heard, mmio, nodes, wires>> BY DEF Check, WriteAngles
<1>b. \E from, to \in Loop :
        /\ run[p] = from /\ run' = [run EXCEPT ![p] = to]
        /\ to \in {"check", "read"} => from \in {"check", "read"} \/ p = "alice"
        /\ from \in {"check", "read"} => to \in {"check", "read"}
        /\ p = "alice" => from # "gen" /\ to \notin {"gen", "angles"}
  BY DEF Check, WriteAngles, GoTo, LoopStart, Loop
<1>1. RestartTypeOK' BY <1>a, <1>b DEF IInv, RestartTypeOK, TypeOK, RunStates, Loop
<1>2. Lifecycle' BY <1>a, <1>b DEF IInv, RestartTypeOK, TypeOK, Lifecycle, Loop
<1>3. OneInFlight' BY <1>a, <1>b DEF IInv, RestartTypeOK, TypeOK, OneInFlight, Loop
<1>4. Numbered'
  <2>1. BobNext' = BobNext /\ AliceExpects' = AliceExpects
    BY <1>a, <1>b DEF IInv, RestartTypeOK, TypeOK, BobNext, AliceExpects, Loop
  <2>2. WireEnd' = WireEnd /\ (WireInOrder => WireInOrder') /\ \A n : BobSends(n)' <=> BobSends(n)
    BY <1>a, <2>1 DEF WireEnd, WireInOrder, BobSends
  <2>3. /\ run'["bob"] \in {"check", "read"} => run["bob"] \in {"check", "read"}
        /\ run'["alice"] \in {"gen", "angles"} => run["alice"] = run'["alice"]
    BY <1>b DEF IInv, RestartTypeOK, TypeOK
  <2> QED BY <1>a, <2>1, <2>2, <2>3 DEF IInv, Numbered, Serves, InSession
<1> QED BY <1>1, <1>2, <1>3, <1>4 DEF IInv

LEMMA EndOfFileKeeps ==
  ASSUME IInv, NEW p \in Players, up[p], EndOfFile(p), UNCHANGED processes
  PROVE  IInv'
<1> USE TwoPlayers DEF processes, wires, nodes
<1>a. /\ run[p] = "read" /\ run' = [run EXCEPT ![p] = "closed"] /\ ~linked[p]
      /\ sim' = [sim EXCEPT ![p] = End(@)] /\ sim[p] \in Simulators
      /\ Emptied(p)
      /\ UNCHANGED <<last, drawn, heard, mmio, nodes>>
  BY DEF EndOfFile, GoTo, IInv, RestartTypeOK, TypeOK
<1>b. /\ gcr' \in Seq(Batches) /\ echo' \in Seq(Batches) /\ wire' \in Seq(Batches)
      /\ Len(gcr') <= 1 /\ Len(echo') <= 1 /\ Len(wire') <= MaxWire
  BY <1>a, EmptiedPipes
<1>1. RestartTypeOK' BY <1>a, <1>b, SimulatorSteps DEF IInv, RestartTypeOK, TypeOK, RunStates
<1>2. Lifecycle' BY <1>a, SimulatorSteps DEF IInv, RestartTypeOK, TypeOK, Lifecycle, Loop
<1>3. OneInFlight' BY <1>a DEF IInv, RestartTypeOK, TypeOK, OneInFlight, Emptied
<1>4. Numbered'
  <2>1. CASE p = "alice"
    <3>1. gcr' = gcr /\ wire' = <<>> /\ run'["alice"] = "closed" BY <1>a, <2>1 DEF Emptied, IInv, RestartTypeOK, TypeOK
    <3>2. \A n : BobSends(n)' <=> BobSends(n)
      BY <1>a, <2>1, <3>1 DEF IInv, RestartTypeOK, TypeOK, BobSends, BobNext
    <3>3. WireInOrder' /\ AliceExpects' = 0 /\ ~Serves("alice")'
      BY <1>a, <2>1, <3>1, EmptySeq DEF WireInOrder, AliceExpects, Serves
    <3>4. run'["bob"] = run["bob"] /\ sim'["bob"] = sim["bob"]
      BY <1>a, <2>1 DEF IInv, RestartTypeOK, TypeOK
    <3> QED BY <1>a, <3>1, <3>2, <3>3, <3>4 DEF IInv, Numbered, Serves, InSession
  <2>2. CASE p = "bob"
    <3>1. wire' = wire /\ run'["bob"] = "closed" /\ ~Serves("bob")'
      BY <1>a, <2>2 DEF Emptied, Serves, IInv, RestartTypeOK, TypeOK
    <3>2. run'["alice"] = run["alice"] /\ sim'["alice"] = sim["alice"]
      BY <1>a, <2>2 DEF IInv, RestartTypeOK, TypeOK
    <3>3. AliceExpects' = AliceExpects /\ (WireInOrder => WireInOrder')
      BY <1>a, <3>1, <3>2 DEF AliceExpects, WireInOrder
    <3> QED BY <1>a, <3>1, <3>2, <3>3 DEF IInv, Numbered, Serves, InSession
  <2> QED BY <2>1, <2>2
<1> QED BY <1>1, <1>2, <1>3, <1>4 DEF IInv

LEMMA RelayKeeps ==
  ASSUME IInv, RelayOn
  PROVE  IInv'
<1> USE TwoPlayers DEF processes, runner, nodes
<1> DEFINE b == drawn["bob"]
<1>a. /\ Serves("alice") /\ Serves("bob") /\ gcr = <<b>> /\ echo = <<>>
      /\ gcr' = <<>> /\ echo' = <<b>> /\ Len(wire) < MaxWire /\ wire' = Append(wire, b)
      /\ UNCHANGED <<sim, runner, mmio, nodes, processes>>
  BY Singleton DEF RelayOn, Relay, IInv, OneInFlight, Serves
<1>b. /\ b \in Batches /\ Len(wire) \in Nat /\ wire' \in Seq(Batches) /\ wire' # <<>>
      /\ Len(wire') = Len(wire) + 1 /\ wire'[Len(wire')] = b
      /\ \A i \in 1..Len(wire) : wire'[i] = wire[i]
      /\ wire = <<>> <=> Len(wire) = 0
  <2>1. b \in Batches /\ wire \in Seq(Batches) BY DEF IInv, RestartTypeOK, TypeOK
  <2> QED BY <1>a, <2>1, SeqFacts
<1>1. RestartTypeOK'
  <2>1. echo' \in Seq(Batches) /\ Len(echo') <= 1 BY <1>a, <1>b, Singleton
  <2>2. gcr' \in Seq(Batches) /\ Len(gcr') <= 1 BY <1>a, EmptySeq
  <2>3. Len(wire') <= MaxWire BY <1>a, <1>b
  <2> QED BY <1>a, <1>b, <2>1, <2>2, <2>3 DEF IInv, RestartTypeOK, TypeOK
<1>2. Lifecycle' BY <1>a DEF IInv, Lifecycle
<1>3. OneInFlight'
  <2>1. <<b>> # <<>> BY Singleton
  <2>2. ~(run["alice"] = "closed" /\ ~linked["alice"]) BY <1>a DEF Serves
  <2> QED BY <1>a, <2>1, <2>2 DEF IInv, OneInFlight
<1>4. Numbered'
  <2>1. AliceExpects' = AliceExpects /\ BobNext' = BobNext BY <1>a DEF AliceExpects, BobNext
  <2>2. ASSUME up["alice"], ~stale PROVE WireInOrder' /\ WireEnd' = Succ(b[1]) /\ b[1] = WireEnd
    <3>1. WireInOrder /\ b[1] = WireEnd
      BY <1>a, <2>2, Singleton DEF IInv, Numbered, BobSends
    <3>2. WireInOrder'
      <4>1. wire'[1][1] = AliceExpects BY <1>b, <3>1 DEF WireInOrder, WireEnd
      <4>2. \A i \in 1..(Len(wire') - 1) : wire'[i + 1][1] = Succ(wire'[i][1])
        <5> TAKE i \in 1..(Len(wire') - 1)
        <5>1. CASE i = Len(wire) BY <1>b, <3>1, <5>1 DEF WireEnd
        <5>2. CASE i \in 1..(Len(wire) - 1)
          <6>1. i + 1 \in 1..Len(wire) /\ i \in 1..Len(wire) BY <1>b, <5>2
          <6> QED BY <1>b, <3>1, <5>2, <6>1 DEF WireInOrder
        <5> QED BY <1>b, <5>1, <5>2
      <4> QED BY <2>1, <4>1, <4>2 DEF WireInOrder
    <3>3. WireEnd' = Succ(b[1]) BY <1>b DEF WireEnd
    <3> QED BY <3>1, <3>2, <3>3
  <2>3. up["bob"] => BobNext = Succ(b[1])
    BY <1>a, Singleton DEF IInv, OneInFlight, Numbered, BobNext, Loop
  <2>4. up["alice"] /\ ~stale => BobSends(WireEnd)' BY <1>a, <2>1, <2>2, <2>3 DEF BobSends
  <2> QED BY <1>a, <2>2, <2>4 DEF IInv, Numbered, Serves, InSession
<1> QED BY <1>1, <1>2, <1>3, <1>4 DEF IInv

----------------------------------------------------------------------------
LEMMA RegisterKeeps ==
  ASSUME IInv, NEW p \in Players, WriteAnyTime(p)
  PROVE  IInv'
<1>1. UNCHANGED <<sim, runner, nodes, wires, processes>> /\ mmio' \in [Players -> {0, 1}]
  BY DEF WriteAnyTime, WriteRegister, IInv, RestartTypeOK, TypeOK
<1> QED
  BY <1>1 DEF IInv, RestartTypeOK, TypeOK, Lifecycle, OneInFlight, Numbered, BobSends, BobNext,
              AliceExpects, WireEnd, WireInOrder, Serves, InSession, runner, nodes, wires, processes

LEMMA StepInv == IInv /\ [RestartNext]_restartVars => IInv'
<1> SUFFICES ASSUME IInv, [RestartNext]_restartVars PROVE IInv'
  OBVIOUS
<1>1. ASSUME NEW p \in Players, RunningStep(p) PROVE IInv'
  BY <1>1, PollKeeps, LoopKeeps, EndOfFileKeeps, BobGeneratesKeeps, BobReadsKeeps,
     AliceGeneratesKeeps, AliceReadsKeeps DEF RunningStep, RunnerStep
<1>2. CASE RestartNext
  BY <1>1, <1>2, CrashKeeps, BootKeeps, NodeOpensKeeps, RegisterKeeps, AbandonKeeps, RelayKeeps
    DEF RestartNext
<1>3. CASE UNCHANGED restartVars
  BY <1>3 DEF IInv, RestartTypeOK, TypeOK, Lifecycle, OneInFlight, Numbered, BobSends, BobNext,
              AliceExpects, WireEnd, WireInOrder, Serves, InSession, restartVars, hwVars, runner, nodes,
              wires, processes
<1> QED BY <1>2, <1>3

\* The inductive invariant: the numbers run on from Alice through the pipe to
\* Bob as long as their nodes are in session.
THEOREM Invariance == RestartSpec => []IInv
BY InitInv, StepInv, PTL DEF RestartSpec

\* The variables keep their types: at most one batch waits for Bob's node and
\* one echo for Bob, and the counters stay below Modulus.
THEOREM TypeCorrect == RestartSpec => []RestartTypeOK
<1>1. IInv => RestartTypeOK BY DEF IInv
<1> QED BY <1>1, Invariance, PTL

\* Sessions neither overlap nor reach into each other, crashes included.
THEOREM GeneratesInLoopAlways == RestartSpec => []GeneratesInLoop
<1>1. IInv => GeneratesInLoop
  BY DEF IInv, Lifecycle, GeneratesInLoop, RegisterForgotten, CanGenerate
<1> QED BY <1>1, Invariance, PTL

\* Bob never runs ahead of his node.
THEOREM EchoesMatchAlways == RestartSpec => []EchoesMatch
<1>1. ASSUME IInv PROVE EchoesMatch
  <2> DEFINE b == drawn["bob"]
  <2>1. Len(<<>>) = 0 /\ Len(<<b>>) = 1 /\ Head(<<b>>) = b BY Singleton, EmptySeq
  <2>2. \/ gcr = <<>> /\ echo = <<>>
        \/ gcr = <<>> /\ echo = <<b>>
        \/ gcr = <<b>> /\ echo = <<>>
    BY <1>1 DEF IInv, OneInFlight
  <2>3. Len(gcr) + Len(echo) <= 1
    <3>1. CASE gcr = <<>> /\ echo = <<>> BY <2>1, <3>1
    <3>2. CASE gcr = <<>> /\ echo = <<b>> BY <2>1, <3>2
    <3>3. CASE gcr = <<b>> /\ echo = <<>> BY <2>1, <3>3
    <3> QED BY <2>2, <3>1, <3>2, <3>3
  <2>4. echo # <<>> => Head(echo) = b BY <2>1, <2>2
  <2> QED BY <2>3, <2>4 DEF EchoesMatch
<1> QED BY <1>1, Invariance, PTL

\* Alice's batch has the number of the batch whose GC she has read, in every
\* session, whatever crashed and in whatever order the nodes left and came back,
\* unless a node opened her FIFO before the START with GC of the last one in it.
THEOREM SameNumberAlways == RestartSpec => []SameNumber
<1>1. IInv => SameNumber
  BY TwoPlayers DEF IInv, Lifecycle, Numbered, SameNumber
<1> QED BY <1>1, Invariance, PTL
=============================================================================
