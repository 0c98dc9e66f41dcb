---------------------- MODULE ControllerSession_proofs ----------------------
(***************************************************************************)
(* Proofs about ControllerSession, for any number of batches and of runs,  *)
(* and runs that may be killed anywhere.                                   *)
(***************************************************************************)
EXTENDS ControllerSession, Integers, TLAPS

----------------------------------------------------------------------------
(* The parts of the inductive invariant: the ends of the FIFOs.            *)

Held(s, f) == End(s, f) # NoEnd
AllOpen(s) == \A f \in Fifos : IsOpen(s, f)

\* The FIFOs the controller opens before f.
Before(f) ==
  CASE f = "gcr" -> {} [] f = "gc" -> Fifos \ {"gc", "angles"} [] OTHER -> Fifos \ {"angles"}

Ends == [inode : Nat, state : {"none", "waiting", "open"}]
Stopping == {"stop_size", "stop_store"}

Typing ==
  /\ player \in {"alice", "bob"}
  /\ path \in [Fifos -> Inodes]
  /\ ends \in [Sides -> [Fifos -> Ends]]
  /\ data \in [Fifos -> [Inodes -> Seq(Items)]]
  /\ register \in {"empty", "stop", "start"}
  /\ main \in {"reset", "opening", "command"} \cup Loop
  /\ heard \in Items /\ got \in Items
  /\ tool \in {"off", "open"} \cup Triggering \cup Exchanging
  /\ runs \in 0..MaxRuns /\ done \in 0..Batches

\* Both processes always hold the inode the path leads to: the simulator replaces
\* the inodes only when no controller is there.
SameInodes ==
  /\ \A s \in Sides, f \in Fifos :
       Held(s, f) => End(s, f).inode = path[f] /\ End(s, f).state \in {"waiting", "open"}
  /\ \A f \in Fifos : Held("sim", f) /\ Held("tool", f) => IsOpen("sim", f) /\ IsOpen("tool", f)
  /\ \A f \in Fifos : IsOpen("tool", f) => IsOpen("sim", f)

\* The controller opens its ends in order, so the simulator's opens return in that
\* order, and the last one only by a controller that has all of its own.
InOrder ==
  /\ \A g \in Fifos : \A f \in Before(g) : IsOpen("sim", g) => IsOpen("sim", f)
  /\ \A g \in Fifos : \A f \in Before(g) : Held("tool", g) => IsOpen("tool", f)
  /\ tool \in {"off", "start_size", "start_store"} => \A f \in Fifos : ~Held("tool", f)
  /\ tool \in Exchanging \cup Stopping => AllOpen("tool")
  /\ tool # "off" /\ IsOpen("sim", "angles") => AllOpen("tool")
  /\ main \in {"command"} \cup Loop => AllOpen("sim")
  /\ main = "reset" => tool = "off" /\ \A f \in Fifos : ~Held("sim", f)

\* A connection uses up at least one run.
Spent ==
  /\ \A f \in Fifos : path[f] <= runs + 1
  /\ tool # "off" \/ IsOpen("sim", "angles") => \A f \in Fifos : path[f] <= runs
  /\ main # "reset" => fresh = 0
  /\ main = "reset" => /\ fresh \in 0 .. Len(ResetOrder) - 1
                       /\ \A i \in fresh + 1 .. Len(ResetOrder) : path[ResetOrder[i]] <= runs

----------------------------------------------------------------------------
(* The parts of the inductive invariant: the exchange.                     *)

\* From the moment the simulator can connect the register says START, until it
\* has left its command loop.
Started ==
  /\ tool = "open" => register = "start"
  /\ IsOpen("sim", "angles") /\ main \in {"opening", "command"} => register = "start"
  /\ tool \in {"start_size", "start_store", "open"} => done = 0
  /\ tool \in Exchanging \ {"batch"} => done < Batches
  /\ tool \in Exchanging /\ done > 0 => main \in Loop
  /\ tool \in Stopping => main \in Loop

In(f) == data[f][path[f]]

\* The GC batch of the run is in the pipe, with the simulator, or answered.
UnderWay ==
  \/ In("gc") = <<<<runs, done>>>> /\ In("angles") = <<>> /\ main # "angles"
  \/ In("gc") = <<>> /\ In("angles") = <<>> /\ main = "angles" /\ heard = <<runs, done>>
  \/ In("gc") = <<>> /\ In("angles") = <<<<runs, done>>>> /\ main \in Loop \ {"angles"}

LockStep ==
  /\ ~IsOpen("sim", "angles") => \A f \in Fifos, i \in Inodes : data[f][i] = <<>>
  /\ tool \in {"open", "batch", "read_gcr", "write_gc"} =>
       In("gc") = <<>> /\ In("angles") = <<>> /\ main # "angles"
  /\ tool = "read_angles" => UnderWay

Parts == Typing /\ SameInodes /\ InOrder /\ Spent /\ Started /\ LockStep /\ OwnAngles

\* An impatient user leaves all of this behind: see SessionsEnd.
Inv == patient => Parts

USE BoundsAssumption

----------------------------------------------------------------------------
(* The FIFOs and their order.                                              *)

LEMMA FifoFacts ==
  ASSUME player \in {"alice", "bob"}
  PROVE  /\ "gc" \in Fifos /\ "angles" \in Fifos /\ Fifos \subseteq {"gcr", "gc", "angles"}
         /\ player = "bob" <=> "gcr" \in Fifos
         /\ Before("angles") = Fifos \ {"angles"}
         /\ \A g \in Fifos : Before(g) \subseteq Fifos /\ g \notin Before(g)
         /\ \A g \in Fifos : "angles" \notin Before(g)
<1>1. CASE player = "alice" BY <1>1 DEF Fifos, Before
<1>2. CASE player = "bob" BY <1>2 DEF Fifos, Before
<1> QED BY <1>1, <1>2

LEMMA OpenOrderFacts ==
  ASSUME player \in {"alice", "bob"}, NEW i \in DOMAIN OpenOrder
  PROVE  /\ OpenOrder[i] \in Fifos
         /\ \A f \in Before(OpenOrder[i]) : \E j \in 1 .. i - 1 : OpenOrder[j] = f
<1>1. CASE player = "alice"
  <2>1. OpenOrder = <<"gc", "angles">> /\ Fifos = {"gc", "angles"} BY <1>1 DEF OpenOrder, Fifos
  <2>2. i \in {1, 2} BY <2>1
  <2>3. CASE i = 1 BY <2>1, <2>3 DEF Before
  <2>4. CASE i = 2
    <3>1. OpenOrder[i] = "angles" /\ Before(OpenOrder[i]) = {"gc"} BY <2>1, <2>4 DEF Before
    <3>2. OpenOrder[1] = "gc" /\ 1 \in 1 .. i - 1 BY <2>1, <2>4
    <3> QED BY <2>1, <3>1, <3>2
  <2> QED BY <2>2, <2>3, <2>4
<1>2. CASE player = "bob"
  <2>1. OpenOrder = <<"gcr", "gc", "angles">> /\ Fifos = {"gcr", "gc", "angles"}
    BY <1>2 DEF OpenOrder, Fifos
  <2>2. i \in {1, 2, 3} BY <2>1
  <2>3. OpenOrder[1] = "gcr" /\ OpenOrder[2] = "gc" /\ OpenOrder[3] = "angles" BY <2>1
  <2>4. CASE i = 1 BY <2>1, <2>3, <2>4 DEF Before
  <2>5. CASE i = 2
    <3>1. Before(OpenOrder[i]) = {"gcr"} /\ 1 \in 1 .. i - 1 BY <2>1, <2>3, <2>5 DEF Before
    <3> QED BY <2>1, <2>3, <2>5, <3>1
  <2>6. CASE i = 3
    <3>1. Before(OpenOrder[i]) = {"gcr", "gc"} /\ 1 \in 1 .. i - 1 /\ 2 \in 1 .. i - 1
      BY <2>1, <2>3, <2>6 DEF Before
    <3> QED BY <2>1, <2>3, <2>6, <3>1
  <2> QED BY <2>2, <2>4, <2>5, <2>6
<1> QED BY <1>1, <1>2

LEMMA ResetOrderFacts ==
  ASSUME player \in {"alice", "bob"}
  PROVE  /\ Len(ResetOrder) \in {2, 3}
         /\ \A i \in 1..Len(ResetOrder) : ResetOrder[i] \in Fifos
         /\ \A i, j \in 1..Len(ResetOrder) : ResetOrder[i] = ResetOrder[j] => i = j
<1>1. CASE player = "alice" BY <1>1 DEF ResetOrder, Fifos
<1>2. CASE player = "bob" BY <1>2 DEF ResetOrder, Fifos
<1> QED BY <1>1, <1>2

LEMMA EndFacts ==
  ASSUME Typing, SameInodes
  PROVE  /\ \A s \in Sides, f \in Fifos : IsOpen(s, f) => Held(s, f)
         /\ \A f \in Fifos : path[f] \in Inodes /\ path[f] # 0
         /\ \A s \in Sides, f \in Fifos : Held(s, f) => End(s, f).inode = path[f]
         /\ \A s \in Sides, f \in Fifos : ~Held(s, f) => End(s, f).inode = 0 /\ End(s, f) = NoEnd
         /\ \A s \in Sides : Peer(s) \in Sides /\ Peer(s) # s
         /\ Peer("sim") = "tool" /\ Peer("tool") = "sim" /\ "sim" \in Sides /\ "tool" \in Sides
<1>1. \A s \in Sides, f \in Fifos : IsOpen(s, f) => Held(s, f) BY DEF IsOpen, Held, NoEnd
<1>2. \A f \in Fifos : path[f] \in Inodes /\ path[f] # 0 BY DEF Typing, Inodes
<1>3. \A s \in Sides, f \in Fifos : Held(s, f) => End(s, f).inode = path[f] BY DEF SameInodes
<1>4. \A s \in Sides, f \in Fifos : ~Held(s, f) => End(s, f).inode = 0 /\ End(s, f) = NoEnd
  BY DEF Held, NoEnd
<1>5. /\ \A s \in Sides : Peer(s) \in Sides /\ Peer(s) # s
      /\ Peer("sim") = "tool" /\ Peer("tool") = "sim" /\ "sim" \in Sides /\ "tool" \in Sides
  BY DEF Sides, Peer
<1> QED BY <1>1, <1>2, <1>3, <1>4, <1>5

\* An end that is held is connected as soon as the other one is open.
LEMMA Connecting ==
  ASSUME Typing, SameInodes, NEW s \in Sides, NEW f \in Fifos
  PROVE  Connected(s, f) <=> IsOpen(Peer(s), f) /\ Held(s, f)
<1>1. \A g \in Inodes : g # 0 BY DEF Inodes
<1> QED BY <1>1, EndFacts DEF Connected, Sides, SameInodes

LEMMA SameFifos ==
  ASSUME UNCHANGED setting
  PROVE  /\ player' = player /\ patient' = patient /\ Fifos' = Fifos /\ ResetOrder' = ResetOrder
         /\ \A g : Before(g)' = Before(g)
<1>1. player' = player /\ patient' = patient BY DEF setting
<1>2. Fifos' = Fifos /\ ResetOrder' = ResetOrder BY <1>1 DEF Fifos, ResetOrder
<1>3. \A g : Before(g)' = Before(g) BY <1>2 DEF Before
<1> QED BY <1>1, <1>2, <1>3

\* A step that opens and closes nothing.
LEMMA EndsUnchanged ==
  ASSUME SameInodes, UNCHANGED <<setting, path, ends>>
  PROVE  /\ \A s \in Sides, f \in Fifos :
              (Held(s, f)' <=> Held(s, f)) /\ (IsOpen(s, f)' <=> IsOpen(s, f)) /\ End(s, f)' = End(s, f)
         /\ AllOpen("sim")' <=> AllOpen("sim")
         /\ AllOpen("tool")' <=> AllOpen("tool")
         /\ SameInodes'
<1>1. Fifos' = Fifos BY SameFifos
<1>2. \A s, f : End(s, f)' = End(s, f) BY DEF End
<1>3. \A s, f : (Held(s, f)' <=> Held(s, f)) /\ (IsOpen(s, f)' <=> IsOpen(s, f))
  BY <1>2 DEF Held, IsOpen
<1>4. path' = path OBVIOUS
<1> HIDE DEF End, Held, IsOpen
<1>5. SameInodes'
  <2>1. /\ \A s \in Sides, f \in Fifos :
             Held(s, f)' => End(s, f)'.inode = path'[f] /\ End(s, f)'.state \in {"waiting", "open"}
        /\ \A f \in Fifos : Held("sim", f)' /\ Held("tool", f)' => IsOpen("sim", f)' /\ IsOpen("tool", f)'
        /\ \A f \in Fifos : IsOpen("tool", f)' => IsOpen("sim", f)'
    BY <1>2, <1>3, <1>4 DEF SameInodes
  <2> QED BY <1>1, <2>1 DEF SameInodes
<1>6. (AllOpen("sim")' <=> AllOpen("sim")) /\ (AllOpen("tool")' <=> AllOpen("tool"))
  BY <1>1, <1>3 DEF AllOpen
<1> QED BY <1>2, <1>3, <1>5, <1>6

\* One end is opened: with the other one, if it waits, or to wait for it.
LEMMA Opened ==
  ASSUME Typing, SameInodes, UNCHANGED setting, NEW s \in Sides, NEW f \in Fifos, Open(s, f)
  PROVE  /\ ~Held(s, f) /\ path' = path /\ data' = data
         /\ ends' \in [Sides -> [Fifos -> Ends]] /\ SameInodes'
         /\ \A t \in Sides, g \in Fifos : g # f =>
              (Held(t, g)' <=> Held(t, g)) /\ (IsOpen(t, g)' <=> IsOpen(t, g))
         /\ Held(s, f)' /\ (Held(Peer(s), f)' <=> Held(Peer(s), f))
         /\ IsOpen(s, f)' <=> Held(Peer(s), f)
         /\ IsOpen(Peer(s), f)' <=> Held(Peer(s), f)
<1> DEFINE o == Peer(s)
<1>1. o \in Sides /\ o # s /\ \A t \in Sides : t = s \/ t = o BY DEF Peer, Sides
<1>2. /\ End(s, f) = NoEnd /\ path' = path /\ data' = data
      /\ path[f] \in Nat /\ path[f] # 0
  BY EndFacts DEF Open, Inodes
<1>3. ~Held(s, f) BY <1>2 DEF Held
<1>4. Fifos' = Fifos BY SameFifos
<1>5. End(o, f).inode = path[f] <=> Held(o, f) BY <1>1, <1>2, EndFacts
<1>6. /\ ends \in [Sides -> [Fifos -> Ends]] /\ End(o, f) \in Ends
      /\ ends' = [ends EXCEPT
           ![s][f] = [inode |-> path[f], state |-> IF Held(o, f) THEN "open" ELSE "waiting"],
           ![o][f].state = IF Held(o, f) THEN "open" ELSE End(o, f).state]
  BY <1>1, <1>5 DEF Open, Typing, End
<1> HIDE DEF o
<1>7. /\ ends'[s][f] = [inode |-> path[f], state |-> IF Held(o, f) THEN "open" ELSE "waiting"]
      /\ ends'[o][f] = [End(o, f) EXCEPT !.state = IF Held(o, f) THEN "open" ELSE End(o, f).state]
      /\ \A t \in Sides, g \in Fifos : g # f => ends'[t][g] = ends[t][g]
  BY <1>1, <1>6 DEF End
<1>8. ends' \in [Sides -> [Fifos -> Ends]]
  <2>1. [inode |-> path[f], state |-> IF Held(o, f) THEN "open" ELSE "waiting"] \in Ends
    BY <1>2 DEF Ends
  <2>2. [End(o, f) EXCEPT !.state = IF Held(o, f) THEN "open" ELSE End(o, f).state] \in Ends
    BY <1>6 DEF Ends
  <2>3. DOMAIN ends' = Sides /\ ends' = [t \in Sides |-> ends'[t]] BY <1>6
  <2>4. \A t \in Sides : ends'[t] = [g \in Fifos |-> ends'[t][g]] BY <1>1, <1>6
  <2>5. \A t \in Sides, g \in Fifos : ends'[t][g] \in Ends BY <1>1, <1>6, <1>7, <2>1, <2>2
  <2> QED BY <2>3, <2>4, <2>5
<1>9. \A t \in Sides, g \in Fifos : g # f =>
        (Held(t, g)' <=> Held(t, g)) /\ (IsOpen(t, g)' <=> IsOpen(t, g)) /\ End(t, g)' = End(t, g)
  BY <1>7 DEF Held, IsOpen, End
<1>10. /\ Held(s, f)' /\ (IsOpen(s, f)' <=> Held(o, f)) /\ End(s, f)'.inode = path[f]
       /\ End(s, f)'.state \in {"waiting", "open"}
  BY <1>2, <1>7 DEF Held, IsOpen, End, NoEnd
<1>11. CASE Held(o, f)
  <2>1. End(o, f)'.inode = path[f] /\ End(o, f)'.state = "open"
    <3>1. \A e \in Ends : [e EXCEPT !.state = "open"].inode = e.inode /\ [e EXCEPT !.state = "open"].state = "open"
      BY DEF Ends
    <3>2. ends'[o][f] = [End(o, f) EXCEPT !.state = "open"] BY <1>7, <1>11
    <3>3. ends'[o][f].inode = End(o, f).inode /\ ends'[o][f].state = "open" BY <1>6, <3>1, <3>2
    <3> QED BY <1>5, <1>11, <3>3 DEF End
  <2>2. Held(o, f)' /\ IsOpen(o, f)' BY <1>2, <2>1 DEF Held, IsOpen, NoEnd
  <2> QED BY <1>1, <1>2, <1>3, <1>4, <1>8, <1>9, <1>10, <1>11, <2>1, <2>2 DEF SameInodes, o, Sides
<1>12. CASE ~Held(o, f)
  <2>1. End(o, f)' = NoEnd
    <3>1. End(o, f) = NoEnd BY <1>12 DEF Held
    <3> QED BY <1>7, <1>12, <3>1 DEF End, NoEnd
  <2>2. ~Held(o, f)' /\ ~IsOpen(o, f)' BY <2>1 DEF Held, IsOpen, NoEnd
  <2> QED BY <1>1, <1>2, <1>3, <1>4, <1>8, <1>9, <1>10, <1>12, <2>2 DEF SameInodes, o, Sides
<1> QED BY <1>11, <1>12

\* One process closes all its ends; what the other one holds keeps its contents.
LEMMA Closed ==
  ASSUME Typing, SameInodes, UNCHANGED setting, NEW s \in Sides, CloseAll(s)
  PROVE  /\ path' = path /\ ends' \in [Sides -> [Fifos -> Ends]]
         /\ data' \in [Fifos -> [Inodes -> Seq(Items)]]
         /\ \A f \in Fifos : ~Held(s, f)' /\ ~IsOpen(s, f)'
         /\ \A f \in Fifos : (Held(Peer(s), f)' <=> Held(Peer(s), f)) /\ (IsOpen(Peer(s), f)' <=> IsOpen(Peer(s), f))
         /\ \A f \in Fifos, i \in Inodes :
              data'[f][i] = data[f][i] \/ data'[f][i] = <<>>
         /\ (\A f \in Fifos : ~Held(Peer(s), f)) => \A f \in Fifos, i \in Inodes : data'[f][i] = <<>>
         /\ s = "tool" => SameInodes'
<1> DEFINE o == Peer(s)
<1>1. o \in Sides /\ o # s /\ \A t \in Sides : t = s \/ t = o BY DEF Peer, Sides
<1>2. Fifos' = Fifos BY SameFifos
<1>3. /\ path' = path /\ ends' = [ends EXCEPT ![s] = [f \in Fifos |-> NoEnd]]
      /\ data' = [f \in Fifos |-> [i \in Inodes |-> IF End(o, f).inode = i THEN data[f][i] ELSE <<>>]]
  BY DEF CloseAll
<1>4. \A f \in Fifos : ~Held(o, f) => End(o, f).inode \notin Inodes BY <1>1, EndFacts DEF Inodes
<1> HIDE DEF o
<1>5. /\ ends' \in [Sides -> [Fifos -> Ends]]
      /\ \A f \in Fifos : ends'[s][f] = NoEnd /\ ends'[o][f] = ends[o][f]
  <2>1. NoEnd \in Ends BY DEF NoEnd, Ends
  <2> QED BY <1>1, <1>3, <2>1 DEF Typing
<1>6. \A f \in Fifos : ~Held(s, f)' /\ ~IsOpen(s, f)' BY <1>5 DEF Held, IsOpen, End, NoEnd
<1>7. \A f \in Fifos : (Held(o, f)' <=> Held(o, f)) /\ (IsOpen(o, f)' <=> IsOpen(o, f)) /\ End(o, f)' = End(o, f)
  BY <1>5 DEF Held, IsOpen, End
<1>8. \A f \in Fifos, i \in Inodes : data'[f][i] = IF End(o, f).inode = i THEN data[f][i] ELSE <<>>
  BY <1>3
<1>9. data' \in [Fifos -> [Inodes -> Seq(Items)]]
  <2>1. <<>> \in Seq(Items) OBVIOUS
  <2>2. \A f \in Fifos, i \in Inodes : data[f][i] \in Seq(Items) BY DEF Typing
  <2> QED BY <1>3, <2>1, <2>2
<1>10. (\A f \in Fifos : ~Held(o, f)) => \A f \in Fifos, i \in Inodes : data'[f][i] = <<>>
  BY <1>4, <1>8
<1>11. s = "tool" => SameInodes'
  <2> SUFFICES ASSUME s = "tool" PROVE SameInodes'
    OBVIOUS
  <2>1. o = "sim" BY <1>1 DEF Sides
  <2>2. \A f \in Fifos : ~Held("tool", f)' /\ ~IsOpen("tool", f)' BY <1>6
  <2>3. \A f \in Fifos : Held("sim", f)' => End("sim", f)'.inode = path'[f] /\ End("sim", f)'.state \in {"waiting", "open"}
    BY <1>3, <1>7, <2>1 DEF SameInodes, Sides
  <2> QED BY <1>2, <2>2, <2>3 DEF SameInodes, Sides
<1> QED BY <1>1, <1>3, <1>5, <1>6, <1>7, <1>8, <1>9, <1>10, <1>11 DEF o

----------------------------------------------------------------------------
(* The steps that open and close nothing.                                  *)

\* What such a step has to show of the order and of the inodes.
LEMMA KeptOrder ==
  ASSUME Typing, SameInodes, InOrder, UNCHANGED <<setting, path, ends>>,
         tool' \in {"off", "start_size", "start_store"} => \A f \in Fifos : ~Held("tool", f),
         tool' \in Exchanging \cup Stopping => AllOpen("tool"),
         tool' # "off" /\ IsOpen("sim", "angles") => AllOpen("tool"),
         main' \in {"command"} \cup Loop => AllOpen("sim"),
         main' # "reset"
  PROVE  SameInodes' /\ InOrder'
<1>1. Fifos' = Fifos /\ \A g : Before(g)' = Before(g) BY SameFifos
<1>2. /\ \A s \in Sides, f \in Fifos : (Held(s, f)' <=> Held(s, f)) /\ (IsOpen(s, f)' <=> IsOpen(s, f))
      /\ AllOpen("sim")' <=> AllOpen("sim")
      /\ AllOpen("tool")' <=> AllOpen("tool")
      /\ SameInodes'
  BY EndsUnchanged
<1>3. "sim" \in Sides /\ "tool" \in Sides BY DEF Sides
<1>4. "angles" \in Fifos /\ \A g \in Fifos : Before(g) \subseteq Fifos BY FifoFacts DEF Typing
<1> HIDE DEF Held, IsOpen, AllOpen, Before
<1>5. /\ \A g \in Fifos' : \A f \in Before(g)' : IsOpen("sim", g)' => IsOpen("sim", f)'
      /\ \A g \in Fifos' : \A f \in Before(g)' : Held("tool", g)' => IsOpen("tool", f)'
  <2>1. /\ \A g \in Fifos : \A f \in Before(g) : IsOpen("sim", g) => IsOpen("sim", f)
        /\ \A g \in Fifos : \A f \in Before(g) : Held("tool", g) => IsOpen("tool", f)
    BY DEF InOrder
  <2>2. /\ \A g \in Fifos : \A f \in Before(g) : IsOpen("sim", g)' => IsOpen("sim", f)'
        /\ \A g \in Fifos : \A f \in Before(g) : Held("tool", g)' => IsOpen("tool", f)'
    BY <1>2, <1>3, <1>4, <2>1
  <2> QED BY <1>1, <2>2
<1>6. /\ tool' \in {"off", "start_size", "start_store"} => \A f \in Fifos' : ~Held("tool", f)'
      /\ tool' \in (Exchanging \cup Stopping)' => AllOpen("tool")'
      /\ tool' # "off" /\ IsOpen("sim", "angles")' => AllOpen("tool")'
      /\ main' \in ({"command"} \cup Loop)' => AllOpen("sim")'
  BY <1>1, <1>2, <1>3, <1>4 DEF Exchanging, Stopping, Loop
<1> QED BY <1>2, <1>5, <1>6 DEF InOrder

LEMMA KeptSpent ==
  ASSUME Typing, SameInodes, Spent, UNCHANGED <<setting, path, ends, fresh>>,
         main # "reset", main' # "reset",
         \/ runs' = runs /\ (tool' # "off" => tool # "off")
         \/ runs' = runs + 1
  PROVE  Spent'
<1>1. Fifos' = Fifos BY SameFifos
<1>2. IsOpen("sim", "angles")' <=> IsOpen("sim", "angles")
  BY EndsUnchanged, FifoFacts DEF Sides, Typing
<1>3. runs \in Nat /\ \A f \in Fifos : path[f] \in Nat /\ path'[f] = path[f]
  BY DEF Typing, Inodes
<1> HIDE DEF IsOpen
<1> QED BY <1>1, <1>2, <1>3 DEF Spent

\* The inodes the paths lead to, and whether the connection is whole, as before.
LEMMA KeptEnds ==
  ASSUME Typing, SameInodes, UNCHANGED <<setting, path, ends>>
  PROVE  /\ Fifos' = Fifos /\ "angles" \in Fifos /\ "gc" \in Fifos /\ player' = player
         /\ IsOpen("sim", "angles")' <=> IsOpen("sim", "angles")
         /\ \A f \in Fifos : path[f] \in Inodes /\ data[f] \in [Inodes -> Seq(Items)]
         /\ \A f \in Fifos : In(f)' = data'[f][path[f]]
         /\ Inodes' = Inodes /\ Items' = Items
         /\ path' \in [Fifos' -> Inodes'] /\ ends' \in [Sides -> [Fifos' -> Ends]]
<1>1. Fifos' = Fifos /\ player' = player BY SameFifos
<1>2. "angles" \in Fifos /\ "gc" \in Fifos BY FifoFacts DEF Typing
<1>3. IsOpen("sim", "angles")' <=> IsOpen("sim", "angles") BY <1>2, EndsUnchanged DEF Sides
<1>4. \A f \in Fifos : path[f] \in Inodes /\ data[f] \in [Inodes -> Seq(Items)] BY DEF Typing
<1>5. \A f \in Fifos : In(f)' = data'[f][path[f]] BY DEF In
<1>6. Inodes' = Inodes /\ Items' = Items BY DEF Inodes, Items
<1>7. path' \in [Fifos' -> Inodes'] /\ ends' \in [Sides -> [Fifos' -> Ends]] BY <1>1, <1>6 DEF Typing
<1> QED BY <1>1, <1>2, <1>3, <1>4, <1>5, <1>6, <1>7

LEMMA BeginStep ==
  ASSUME patient, Parts, Begin PROVE Parts'
<1> USE DEF Parts
<1>1. UNCHANGED <<setting, path, ends, data, fresh, main, heard, got>>
  BY DEF Begin, files, simulator
<1>2. /\ tool = "off" /\ runs < MaxRuns /\ tool' = "start_size" /\ register' = "empty"
      /\ runs' = runs + 1 /\ done' = 0 /\ AwaitsNode
  BY DEF Begin
<1>3. main = "opening" BY <1>2 DEF AwaitsNode
<1>4. ~IsOpen("sim", "angles")
  <2>1. PICK f \in Fifos : End("sim", f).state = "waiting" BY <1>2 DEF AwaitsNode
  <2>2. ~IsOpen("sim", f) BY <2>1 DEF IsOpen
  <2>3. "angles" \in Fifos /\ Before("angles") = Fifos \ {"angles"} BY FifoFacts DEF Typing
  <2> QED BY <2>2, <2>3 DEF InOrder
<1>5. \A f \in Fifos : ~Held("tool", f) BY <1>2 DEF InOrder
<1>6. SameInodes' /\ InOrder' BY <1>1, <1>2, <1>3, <1>4, <1>5, KeptOrder DEF Loop, Exchanging, Stopping
<1>7. Spent' BY <1>1, <1>2, <1>3, KeptSpent
<1> HIDE DEF IsOpen
<1>8. /\ Fifos' = Fifos /\ player' = player
      /\ ~IsOpen("sim", "angles")'
      /\ Inodes' = Inodes /\ Items' = Items
      /\ path' \in [Fifos' -> Inodes'] /\ ends' \in [Sides -> [Fifos' -> Ends]]
  BY <1>1, <1>4, KeptEnds
<1>9. Typing' BY <1>1, <1>2, <1>8 DEF Typing, Triggering, setting
<1>10. Started' BY <1>2, <1>4, <1>8 DEF Started, Exchanging, Stopping
<1>11. LockStep' BY <1>1, <1>2, <1>4, <1>8 DEF LockStep
<1>12. OwnAngles' BY <1>2 DEF OwnAngles
<1> QED BY <1>6, <1>7, <1>9, <1>10, <1>11, <1>12

\* A step that leaves the batches alone as well.
LEMMA KeptFiles ==
  ASSUME Typing, SameInodes, LockStep, UNCHANGED <<setting, files>>
  PROVE  /\ \A f \in Fifos : In(f)' = In(f)
         /\ data' \in [Fifos' -> [Inodes' -> Seq(Items')]]
         /\ ~IsOpen("sim", "angles") => \A f \in Fifos', i \in Inodes' : data'[f][i] = <<>>
<1>1. UNCHANGED <<setting, path, ends, data>> BY DEF files
<1>2. Fifos' = Fifos BY <1>1, SameFifos
<1>3. Inodes' = Inodes /\ Items' = Items BY DEF Inodes, Items
<1>4. \A f \in Fifos : In(f)' = In(f) BY <1>1 DEF In
<1>5. data' \in [Fifos' -> [Inodes' -> Seq(Items')]] BY <1>1, <1>2, <1>3 DEF Typing
<1>6. ~IsOpen("sim", "angles") => \A f \in Fifos', i \in Inodes' : data'[f][i] = <<>>
  BY <1>1, <1>2, <1>3 DEF LockStep
<1> QED BY <1>4, <1>5, <1>6

\* The steps of the controller that only change its own state and the register.
LEMMA ControllerSteps ==
  ASSUME patient, Parts, SetLength \/ StoreStart \/ ToolConnected \/ NextBatch \/ Stop
  PROVE  Parts'
<1> USE DEF Parts
<1>1. UNCHANGED <<setting, files, path, ends, data, fresh, main, heard, got, runs, done>>
  BY DEF SetLength, StoreStart, ToolConnected, NextBatch, Stop, files, simulator
<1>2. /\ Fifos' = Fifos /\ "angles" \in Fifos /\ "gc" \in Fifos /\ player' = player
      /\ IsOpen("sim", "angles")' <=> IsOpen("sim", "angles")
      /\ In("gc")' = In("gc") /\ In("angles")' = In("angles")
      /\ Inodes' = Inodes /\ Items' = Items
      /\ path' \in [Fifos' -> Inodes'] /\ ends' \in [Sides -> [Fifos' -> Ends]]
      /\ data' \in [Fifos' -> [Inodes' -> Seq(Items')]]
      /\ ~IsOpen("sim", "angles") => \A f \in Fifos', i \in Inodes' : data'[f][i] = <<>>
  BY <1>1, KeptEnds, KeptFiles
<1>3. tool # "off" /\ main # "reset"
  BY DEF SetLength, StoreStart, ToolConnected, NextBatch, Stop, InOrder
<1>4. Spent' BY <1>1, <1>3, KeptSpent
<1>5. main \in {"command"} \cup Loop => AllOpen("sim") BY DEF InOrder
<1>6. AllOpen("sim") => IsOpen("sim", "angles") BY <1>2 DEF AllOpen
<1>7. AllOpen("tool") /\ IsOpen("sim", "angles") => \E f \in Fifos : Held("tool", f)
  BY <1>2, EndFacts DEF AllOpen
<1>8. IsOpen("sim", "angles") => AllOpen("tool") BY <1>3 DEF InOrder
<1> HIDE DEF IsOpen, AllOpen, Held
<1>9. CASE SetLength
  <2>1. CASE tool = "start_size" /\ tool' = "start_store" /\ register' = "stop"
    <3>1. \A f \in Fifos : ~Held("tool", f) BY <2>1 DEF InOrder
    <3>2. ~IsOpen("sim", "angles") BY <1>7, <1>8, <3>1
    <3>3. InOrder' /\ SameInodes'
      BY <1>1, <1>3, <1>5, <2>1, <3>1, <3>2, KeptOrder DEF Exchanging, Stopping
    <3>4. Typing' BY <1>1, <1>2, <2>1 DEF Typing, Triggering, setting
    <3>5. Started' BY <1>1, <1>2, <2>1, <3>2 DEF Started, Exchanging, Stopping
    <3>6. LockStep' BY <1>1, <1>2, <2>1, <3>2 DEF LockStep
    <3> QED BY <1>4, <2>1, <3>3, <3>4, <3>5, <3>6 DEF OwnAngles
  <2>2. CASE tool = "stop_size" /\ tool' = "stop_store" /\ register' = "stop"
    <3>1. main \in Loop BY <2>2 DEF Started, Stopping
    <3>2. AllOpen("tool") BY <2>2 DEF InOrder, Stopping
    <3>3. InOrder' /\ SameInodes'
      BY <1>1, <1>3, <1>5, <2>2, <3>2, KeptOrder
    <3>4. Typing' BY <1>1, <1>2, <2>2 DEF Typing, Triggering, setting
    <3>5. Started' BY <1>1, <1>2, <2>2, <3>1 DEF Started, Exchanging, Stopping, Loop
    <3>6. LockStep' BY <1>1, <1>2, <2>2 DEF LockStep
    <3> QED BY <1>4, <2>2, <3>3, <3>4, <3>5, <3>6 DEF OwnAngles
  <2> QED BY <1>9, <2>1, <2>2 DEF SetLength
<1>10. CASE StoreStart
  <2>1. tool = "start_store" /\ tool' = "open" /\ register' = "start" BY <1>10 DEF StoreStart
  <2>2. \A f \in Fifos : ~Held("tool", f) BY <2>1 DEF InOrder
  <2>3. ~IsOpen("sim", "angles") BY <1>7, <1>8, <2>2
  <2>4. InOrder' /\ SameInodes'
    BY <1>1, <1>3, <1>5, <2>1, <2>2, <2>3, KeptOrder DEF Exchanging, Stopping
  <2>5. Typing' BY <1>1, <1>2, <2>1 DEF Typing, setting
  <2>6. Started' BY <1>1, <1>2, <2>1, <2>3 DEF Started, Exchanging, Stopping
  <2>7. In("gc") = <<>> /\ In("angles") = <<>> BY <1>2, <2>3 DEF LockStep, In, Typing
  <2>8. main # "angles" BY <1>5, <1>6, <2>3 DEF Loop
  <2>9. LockStep' BY <1>1, <1>2, <2>1, <2>7, <2>8 DEF LockStep
  <2> QED BY <1>4, <2>1, <2>4, <2>5, <2>6, <2>9 DEF OwnAngles
<1>11. CASE ToolConnected
  <2>1. tool = "open" /\ tool' = "batch" /\ register' = register /\ AllOpen("tool")
    BY <1>11 DEF ToolConnected, AllOpen
  <2>2. done = 0 BY <2>1 DEF Started
  <2>3. InOrder' /\ SameInodes' BY <1>1, <1>3, <1>5, <2>1, KeptOrder
  <2>4. Typing' BY <1>1, <1>2, <2>1 DEF Typing, Exchanging, setting
  <2>5. Started' BY <1>1, <1>2, <2>1, <2>2 DEF Started, Exchanging, Stopping
  <2>6. LockStep' BY <1>1, <1>2, <2>1 DEF LockStep
  <2> QED BY <1>1, <1>4, <2>1, <2>2, <2>3, <2>4, <2>5, <2>6 DEF OwnAngles
<1>12. CASE NextBatch
  <2>1. tool = "batch" /\ tool' \in {"read_gcr", "write_gc"} /\ register' = register /\ done < Batches
    BY <1>12 DEF NextBatch
  <2>2. AllOpen("tool") BY <2>1 DEF InOrder, Exchanging
  <2>3. InOrder' /\ SameInodes' BY <1>1, <1>3, <1>5, <2>1, <2>2, KeptOrder
  <2>4. Typing' BY <1>1, <1>2, <2>1 DEF Typing, Exchanging, setting
  <2>5. Started' BY <1>1, <1>2, <2>1 DEF Started, Exchanging, Stopping
  <2>6. LockStep' BY <1>1, <1>2, <2>1 DEF LockStep
  <2> QED BY <1>1, <1>4, <2>1, <2>3, <2>4, <2>5, <2>6 DEF OwnAngles, setting
<1>13. CASE Stop
  <2>1. tool = "batch" /\ tool' = "stop_size" /\ register' = "empty" /\ done = Batches
    BY <1>13 DEF Stop
  <2>2. AllOpen("tool") BY <2>1 DEF InOrder, Exchanging
  <2>3. main \in Loop BY <2>1 DEF Started, Exchanging
  <2>4. InOrder' /\ SameInodes' BY <1>1, <1>3, <1>5, <2>1, <2>2, KeptOrder
  <2>5. Typing' BY <1>1, <1>2, <2>1 DEF Typing, Triggering, setting
  <2>6. Started' BY <1>1, <1>2, <2>1, <2>3 DEF Started, Exchanging, Stopping, Loop
  <2>7. LockStep' BY <1>1, <1>2, <2>1 DEF LockStep
  <2> QED BY <1>4, <2>1, <2>4, <2>5, <2>6, <2>7 DEF OwnAngles
<1> QED BY <1>9, <1>10, <1>11, <1>12, <1>13

LEMMA SimulatorSteps ==
  ASSUME patient, Parts, Connect \/ Poll
  PROVE  Parts'
<1> USE DEF Parts
<1>1. /\ UNCHANGED <<setting, files, path, ends, data, fresh, heard, got, runs, done, tool, register>>
      /\ AllOpen("sim") /\ main # "reset" /\ main # "angles" /\ main \in {"opening", "command"}
      /\ main' \in {"command"} \cup (Loop \ {"angles"})
  <2>1. CASE Connect BY <2>1 DEF Connect, files, controller, AllOpen
  <2>2. CASE Poll
    <3>1. main = "command" /\ main' \in {"command", "gcr", "read"} BY <2>2 DEF Poll, LoopStart
    <3>2. AllOpen("sim") BY <3>1 DEF InOrder
    <3> QED BY <2>2, <3>1, <3>2 DEF Poll, Loop, files, controller
  <2> QED BY <2>1, <2>2
<1>2. /\ Fifos' = Fifos /\ "angles" \in Fifos /\ "gc" \in Fifos /\ player' = player
      /\ IsOpen("sim", "angles")' <=> IsOpen("sim", "angles")
      /\ In("gc")' = In("gc") /\ In("angles")' = In("angles")
      /\ Inodes' = Inodes /\ Items' = Items
      /\ path' \in [Fifos' -> Inodes'] /\ ends' \in [Sides -> [Fifos' -> Ends]]
      /\ data' \in [Fifos' -> [Inodes' -> Seq(Items')]]
  BY <1>1, KeptEnds, KeptFiles
<1>3. Spent' BY <1>1, <1>2, KeptSpent DEF Loop
<1>4. IsOpen("sim", "angles") BY <1>1, <1>2 DEF AllOpen
<1> HIDE DEF IsOpen, AllOpen, Held
<1>5. InOrder' /\ SameInodes'
  <2>1. /\ tool' \in {"off", "start_size", "start_store"} => \A f \in Fifos : ~Held("tool", f)
        /\ tool' \in Exchanging \cup Stopping => AllOpen("tool")
        /\ tool' # "off" /\ IsOpen("sim", "angles") => AllOpen("tool")
    BY <1>1 DEF InOrder
  <2>2. main' # "reset" BY <1>1 DEF Loop
  <2> QED BY <1>1, <2>1, <2>2, KeptOrder
<1>6. Typing' BY <1>1, <1>2 DEF Typing, setting, Loop
<1>7. register = "start" BY <1>1, <1>4 DEF Started
<1>8. main \notin Loop BY <1>1 DEF Loop
<1>9. Started' BY <1>1, <1>2, <1>7, <1>8 DEF Started
<1>10. LockStep'
  <2>1. tool = "read_angles" => UnderWay' BY <1>1, <1>2, <1>8 DEF LockStep, UnderWay, Loop
  <2> QED BY <1>1, <1>2, <1>4, <2>1 DEF LockStep, Loop
<1>11. OwnAngles' BY <1>1 DEF OwnAngles, setting
<1> QED BY <1>3, <1>5, <1>6, <1>9, <1>10, <1>11

----------------------------------------------------------------------------
(* The exchange.                                                           *)

LEMMA Single == \A x : Head(<<x>>) = x /\ Tail(<<x>>) = <<>> /\ Append(<<>>, x) = <<x>>
OBVIOUS

\* One FIFO's batches are replaced, behind the path it has.
LEMMA Changed ==
  ASSUME Typing, UNCHANGED <<setting, path>>, NEW f \in Fifos, NEW q \in Seq(Items),
         data' = [data EXCEPT ![f][path[f]] = q]
  PROVE  /\ data' \in [Fifos' -> [Inodes' -> Seq(Items')]]
         /\ In(f)' = q
         /\ \A g \in Fifos : g # f => In(g)' = In(g)
<1>1. Fifos' = Fifos /\ Inodes' = Inodes /\ Items' = Items BY SameFifos DEF Inodes, Items
<1>2. path[f] \in Inodes /\ data \in [Fifos -> [Inodes -> Seq(Items)]] BY DEF Typing
<1>3. data' \in [Fifos -> [Inodes -> Seq(Items)]] BY <1>2
<1>4. data'[f][path[f]] = q BY <1>2
<1>5. \A g \in Fifos : g # f => data'[g] = data[g] BY <1>2
<1> QED BY <1>1, <1>3, <1>4, <1>5 DEF In

\* Bob's GCR batches pass beside the two FIFOs the exchange is about.
LEMMA GcrAside ==
  ASSUME Typing, SameInodes, UNCHANGED <<setting, path>>, NEW s \in Sides,
         \/ UNCHANGED files
         \/ AllOpen(s) /\ Put(s, "gcr", <<runs, done>>)
         \/ AllOpen(s) /\ Take(s, "gcr")
  PROVE  /\ data' \in [Fifos' -> [Inodes' -> Seq(Items')]]
         /\ In("gc")' = In("gc") /\ In("angles")' = In("angles")
<1>1. Fifos' = Fifos /\ Inodes' = Inodes /\ Items' = Items BY SameFifos DEF Inodes, Items
<1>2. "gc" \in Fifos /\ "angles" \in Fifos BY FifoFacts DEF Typing
<1>3. CASE data' = data BY <1>1, <1>3 DEF In, Typing
<1>4. CASE data' # data /\ "gcr" \in Fifos
  <2>1. AllOpen(s) /\ (Put(s, "gcr", <<runs, done>>) \/ Take(s, "gcr")) BY <1>4 DEF files
  <2>2. End(s, "gcr").inode = path["gcr"] BY <1>4, <2>1, EndFacts DEF AllOpen
  <2>3. data["gcr"][path["gcr"]] \in Seq(Items) BY <1>4 DEF Typing
  <2>4. <<runs, done>> \in Items BY DEF Typing, Items
  <2>5. \E q \in Seq(Items) : data' = [data EXCEPT !["gcr"][path["gcr"]] = q]
    <3>1. CASE Put(s, "gcr", <<runs, done>>)
      <4>1. data' = [data EXCEPT !["gcr"][path["gcr"]] = Append(data["gcr"][path["gcr"]], <<runs, done>>)]
        BY <3>1, <2>2 DEF Put
      <4>2. Append(data["gcr"][path["gcr"]], <<runs, done>>) \in Seq(Items) BY <2>3, <2>4
      <4> QED BY <4>1, <4>2
    <3>2. CASE Take(s, "gcr")
      <4>1. /\ data' = [data EXCEPT !["gcr"][path["gcr"]] = Tail(data["gcr"][path["gcr"]])]
            /\ data["gcr"][path["gcr"]] # <<>>
        BY <3>2, <2>2 DEF Take, Contents
      <4>2. Tail(data["gcr"][path["gcr"]]) \in Seq(Items) BY <2>3, <4>1
      <4> QED BY <4>1, <4>2
    <3> QED BY <2>1, <3>1, <3>2
  <2>6. PICK q \in Seq(Items) : data' = [data EXCEPT !["gcr"][path["gcr"]] = q] BY <2>5
  <2> QED BY <1>2, <1>4, <2>6, Changed
<1>5. CASE data' # data /\ "gcr" \notin Fifos
  <2>1. data' = [data EXCEPT !["gcr"] = data'["gcr"]] \/ data' = data
    BY <1>5 DEF Put, Take, files, Typing
  <2>2. data' = data BY <1>5, <2>1 DEF Typing
  <2> QED BY <1>5, <2>2
<1> QED BY <1>3, <1>4, <1>5

\* While the simulator generates, a step of its exchange leaves the order alone.
LEMMA GeneratingFrame ==
  ASSUME patient, Parts, UNCHANGED <<setting, path, ends, fresh, controller, register>>,
         main \in Loop, main' \in Loop
  PROVE  /\ SameInodes' /\ InOrder' /\ Spent' /\ Started' /\ OwnAngles'
         /\ IsOpen("sim", "angles")' /\ AllOpen("sim")
<1> USE DEF Parts
<1>1. main # "reset" /\ main' # "reset" /\ main \notin {"opening", "command"} /\ main' \notin {"opening", "command"}
  BY DEF Loop
<1>2. AllOpen("sim") BY DEF InOrder
<1>3. "angles" \in Fifos /\ Fifos' = Fifos
      /\ (IsOpen("sim", "angles")' <=> IsOpen("sim", "angles"))
  BY KeptEnds
<1>4. IsOpen("sim", "angles")' BY <1>2, <1>3 DEF AllOpen
<1>5. UNCHANGED <<tool, runs, done, got>> BY DEF controller
<1> HIDE DEF IsOpen, AllOpen, Held
<1>6. InOrder' /\ SameInodes'
  <2>1. /\ tool' \in {"off", "start_size", "start_store"} => \A f \in Fifos : ~Held("tool", f)
        /\ tool' \in Exchanging \cup Stopping => AllOpen("tool")
        /\ tool' # "off" /\ IsOpen("sim", "angles") => AllOpen("tool")
    BY <1>5 DEF InOrder
  <2> QED BY <1>1, <1>2, <2>1, KeptOrder
<1>7. Spent' BY <1>1, <1>5, KeptSpent
<1>8. Started' BY <1>1, <1>5 DEF Started
<1>9. OwnAngles' BY <1>5 DEF OwnAngles, setting
<1> QED BY <1>2, <1>4, <1>6, <1>7, <1>8, <1>9

\* The controller exchanges: both sides hold everything.
LEMMA ExchangingFrame ==
  ASSUME patient, Parts, UNCHANGED <<setting, path, ends, simulator, register, runs>>,
         tool \in Exchanging, tool' \in Exchanging
  PROVE  /\ SameInodes' /\ InOrder' /\ Spent'
         /\ IsOpen("sim", "angles") /\ IsOpen("sim", "angles")' /\ AllOpen("tool")
<1> USE DEF Parts
<1>1. tool # "off" /\ tool' \notin {"off", "start_size", "start_store"} BY DEF Exchanging
<1>2. AllOpen("tool") BY DEF InOrder
<1>3. "angles" \in Fifos /\ Fifos' = Fifos
      /\ (IsOpen("sim", "angles")' <=> IsOpen("sim", "angles"))
  BY KeptEnds
<1>4. IsOpen("sim", "angles") /\ IsOpen("sim", "angles")' BY <1>2, <1>3 DEF AllOpen, SameInodes
<1>5. UNCHANGED <<main, fresh>> BY DEF simulator
<1>6. main # "reset" /\ (main \in {"command"} \cup Loop => AllOpen("sim")) BY <1>1 DEF InOrder
<1> HIDE DEF IsOpen, AllOpen, Held
<1>7. InOrder' /\ SameInodes' BY <1>1, <1>2, <1>5, <1>6, KeptOrder
<1>8. Spent' BY <1>1, <1>5, <1>6, KeptSpent
<1> QED BY <1>2, <1>4, <1>7, <1>8

LEMMA WriteGcrStep ==
  ASSUME patient, Parts, WriteGcr PROVE Parts'
<1> USE DEF Parts
<1>1. main = "gcr" /\ main' = "read" /\ UNCHANGED <<setting, path, ends, register, heard, fresh, controller>>
  BY DEF WriteGcr, Put, files
<1>2. main \in Loop /\ main' \in Loop BY <1>1 DEF Loop
<1>3. /\ SameInodes' /\ InOrder' /\ Spent' /\ Started' /\ OwnAngles'
      /\ IsOpen("sim", "angles")' /\ AllOpen("sim")
  BY <1>1, <1>2, GeneratingFrame
<1>4. /\ data' \in [Fifos' -> [Inodes' -> Seq(Items')]]
      /\ In("gc")' = In("gc") /\ In("angles")' = In("angles")
  <2>1. "sim" \in Sides BY DEF Sides
  <2> QED BY <1>1, <1>3, <2>1, GcrAside DEF WriteGcr
<1>5. UNCHANGED <<tool, runs, done, got>> BY <1>1 DEF controller
<1>6. /\ path' \in [Fifos' -> Inodes'] /\ ends' \in [Sides -> [Fifos' -> Ends]] /\ player' = player
      /\ Items' = Items
  BY <1>1, KeptEnds
<1>7. Typing' BY <1>1, <1>2, <1>4, <1>5, <1>6 DEF Typing
<1>8. LockStep'
  <2>1. tool = "read_angles" => UnderWay' BY <1>1, <1>2, <1>4, <1>5 DEF LockStep, UnderWay, Loop
  <2> QED BY <1>1, <1>3, <1>4, <1>5, <2>1 DEF LockStep
<1> QED BY <1>3, <1>7, <1>8

LEMMA ReadGcStep ==
  ASSUME patient, Parts, ReadGc PROVE Parts'
<1> USE DEF Parts
<1>1. /\ main = "read" /\ main' = "angles"
      /\ UNCHANGED <<setting, path, ends, register, fresh, controller>>
  BY DEF ReadGc, Take
<1>2. main \in Loop /\ main' \in Loop BY <1>1 DEF Loop
<1>3. /\ SameInodes' /\ InOrder' /\ Spent' /\ Started' /\ OwnAngles'
      /\ IsOpen("sim", "angles")' /\ AllOpen("sim")
  BY <1>1, <1>2, GeneratingFrame
<1>4. UNCHANGED <<tool, runs, done, got>> BY <1>1 DEF controller
<1>5. /\ path' \in [Fifos' -> Inodes'] /\ ends' \in [Sides -> [Fifos' -> Ends]] /\ player' = player
      /\ Items' = Items /\ "gc" \in Fifos /\ "angles" \in Fifos
      /\ In("gc") \in Seq(Items)
  BY <1>1, KeptEnds DEF In
<1>6. Contents("sim", "gc") = In("gc") /\ End("sim", "gc").inode = path["gc"]
  BY <1>3, <1>5, EndFacts DEF Contents, In, AllOpen
<1>7. /\ In("gc") # <<>> /\ heard' = Head(In("gc")) /\ heard' \in Items
      /\ Tail(In("gc")) \in Seq(Items)
      /\ data' = [data EXCEPT !["gc"][path["gc"]] = Tail(In("gc"))]
  <2>1. In("gc") # <<>> /\ heard' = Head(In("gc")) BY <1>6 DEF ReadGc, Take
  <2>2. heard' \in Items /\ Tail(In("gc")) \in Seq(Items) BY <1>5, <2>1
  <2>3. data' = [data EXCEPT !["gc"][path["gc"]] = Tail(data["gc"][path["gc"]])]
    BY <1>6 DEF ReadGc, Take
  <2> QED BY <2>1, <2>2, <2>3 DEF In
<1>8. /\ data' \in [Fifos' -> [Inodes' -> Seq(Items')]]
      /\ In("gc")' = Tail(In("gc")) /\ In("angles")' = In("angles")
  BY <1>1, <1>5, <1>7, Changed
<1>9. Typing' BY <1>1, <1>2, <1>4, <1>5, <1>7, <1>8 DEF Typing
<1>10. LockStep'
  <2>1. tool \notin {"open", "batch", "read_gcr", "write_gc"} BY <1>7 DEF LockStep
  <2>2. tool = "read_angles" => UnderWay'
    <3> SUFFICES ASSUME tool = "read_angles" PROVE UnderWay'
      OBVIOUS
    <3>1. In("gc") = <<<<runs, done>>>> /\ In("angles") = <<>> BY <1>1, <1>7 DEF LockStep, UnderWay
    <3>2. Head(In("gc")) = <<runs, done>> /\ Tail(In("gc")) = <<>> BY <3>1, Single
    <3> QED BY <1>1, <1>4, <1>7, <1>8, <3>1, <3>2 DEF UnderWay
  <2> QED BY <1>3, <1>4, <2>1, <2>2 DEF LockStep
<1> QED BY <1>3, <1>9, <1>10

LEMMA WriteAnglesStep ==
  ASSUME patient, Parts, WriteAngles PROVE Parts'
<1> USE DEF Parts
<1>1. /\ main = "angles" /\ main' \in {"gcr", "read"}
      /\ UNCHANGED <<setting, path, ends, register, heard, fresh, controller>>
  BY DEF WriteAngles, Put, files, LoopStart
<1>2. main \in Loop /\ main' \in Loop BY <1>1 DEF Loop
<1>3. /\ SameInodes' /\ InOrder' /\ Spent' /\ Started' /\ OwnAngles'
      /\ IsOpen("sim", "angles")' /\ AllOpen("sim")
  BY <1>1, <1>2, GeneratingFrame
<1>4. UNCHANGED <<tool, runs, done, got>> BY <1>1 DEF controller
<1>5. /\ path' \in [Fifos' -> Inodes'] /\ ends' \in [Sides -> [Fifos' -> Ends]] /\ player' = player
      /\ Fifos' = Fifos /\ Inodes' = Inodes
      /\ Items' = Items /\ "gc" \in Fifos /\ "angles" \in Fifos
      /\ In("angles") \in Seq(Items)
  BY <1>1, KeptEnds DEF In
<1>6. End("sim", "angles").inode = path["angles"] BY <1>3, <1>5, EndFacts DEF AllOpen
<1>7. CASE Connected("sim", "angles")
  <2>1. heard \in Items BY DEF Typing
  <2>2. /\ data' = [data EXCEPT !["angles"][path["angles"]] = Append(In("angles"), heard)]
        /\ Append(In("angles"), heard) \in Seq(Items)
    <3>1. data' = [data EXCEPT !["angles"][path["angles"]] =
                     Append(data["angles"][path["angles"]], heard)]
      BY <1>6, <1>7 DEF WriteAngles, Put
    <3>2. Append(In("angles"), heard) \in Seq(Items) BY <1>5, <2>1
    <3> QED BY <3>1, <3>2 DEF In
  <2>3. /\ data' \in [Fifos' -> [Inodes' -> Seq(Items')]]
        /\ In("angles")' = Append(In("angles"), heard) /\ In("gc")' = In("gc")
    BY <1>1, <1>5, <2>2, Changed
  <2>4. Typing' BY <1>1, <1>2, <1>4, <1>5, <2>3 DEF Typing
  <2>5. tool \notin {"open", "batch", "read_gcr", "write_gc"} BY <1>1 DEF LockStep
  <2>6. tool = "read_angles" => UnderWay'
    <3> SUFFICES ASSUME tool = "read_angles" PROVE UnderWay'
      OBVIOUS
    <3>1. In("gc") = <<>> /\ In("angles") = <<>> /\ heard = <<runs, done>>
      BY <1>1 DEF LockStep, UnderWay
    <3>2. Append(In("angles"), heard) = <<<<runs, done>>>> BY <3>1, Single
    <3> QED BY <1>1, <1>4, <2>3, <3>1, <3>2 DEF UnderWay, Loop
  <2>7. LockStep' BY <1>3, <1>4, <2>5, <2>6 DEF LockStep
  <2> QED BY <1>3, <2>4, <2>7
<1>8. CASE ~Connected("sim", "angles")
  <2>1. UNCHANGED data BY <1>8 DEF WriteAngles, files
  <2>2. Typing' BY <1>1, <1>2, <1>4, <1>5, <2>1 DEF Typing
  <2>3. tool \notin {"open", "batch", "read_gcr", "write_gc"} BY <1>1 DEF LockStep
  <2>4. tool # "read_angles"
    <3>1. tool = "read_angles" => AllOpen("tool") BY DEF InOrder, Exchanging
    <3>2. IsOpen("tool", "angles") => Connected("sim", "angles")
      BY <1>3, <1>5, Connecting, EndFacts DEF AllOpen
    <3> QED BY <1>5, <1>8, <3>1, <3>2 DEF AllOpen
  <2>5. LockStep' BY <1>3, <1>4, <2>3, <2>4 DEF LockStep
  <2> QED BY <1>3, <2>2, <2>5
<1> QED BY <1>7, <1>8

LEMMA ReadGcrStep ==
  ASSUME patient, Parts, ReadGcr PROVE Parts'
<1> USE DEF Parts
<1>1. /\ tool = "read_gcr" /\ tool' = "write_gc" /\ Take("tool", "gcr")
      /\ UNCHANGED <<setting, path, ends, register, simulator, runs, done, got>>
  BY DEF ReadGcr, Take
<1>2. tool \in Exchanging /\ tool' \in Exchanging BY <1>1 DEF Exchanging
<1>3. /\ SameInodes' /\ InOrder' /\ Spent' /\ AllOpen("tool")
      /\ IsOpen("sim", "angles") /\ IsOpen("sim", "angles")'
  BY <1>1, <1>2, ExchangingFrame
<1>4. /\ data' \in [Fifos' -> [Inodes' -> Seq(Items')]]
      /\ In("gc")' = In("gc") /\ In("angles")' = In("angles")
  <2>1. "tool" \in Sides BY DEF Sides
  <2> QED BY <1>1, <1>3, <2>1, GcrAside
<1>5. /\ path' \in [Fifos' -> Inodes'] /\ ends' \in [Sides -> [Fifos' -> Ends]] /\ player' = player
      /\ Items' = Items
  BY <1>1, KeptEnds
<1>6. UNCHANGED <<main, heard>> BY <1>1 DEF simulator
<1>7. Typing' BY <1>1, <1>2, <1>4, <1>5, <1>6 DEF Typing
<1>8. Started'
  <2>1. done < Batches /\ (done > 0 => main \in Loop) BY <1>1, <1>2 DEF Started
  <2> QED BY <1>1, <1>3, <1>6, <2>1 DEF Started, Stopping
<1>9. LockStep' BY <1>1, <1>3, <1>4, <1>6 DEF LockStep
<1>10. OwnAngles' BY <1>1 DEF OwnAngles, setting
<1> QED BY <1>3, <1>7, <1>8, <1>9, <1>10

LEMMA WriteGcStep ==
  ASSUME patient, Parts, WriteGc PROVE Parts'
<1> USE DEF Parts
<1>1. /\ tool = "write_gc" /\ tool' = "read_angles"
      /\ UNCHANGED <<setting, path, ends, register, simulator, runs, done, got>>
  BY DEF WriteGc, Put
<1>2. tool \in Exchanging /\ tool' \in Exchanging BY <1>1 DEF Exchanging
<1>3. /\ SameInodes' /\ InOrder' /\ Spent' /\ AllOpen("tool")
      /\ IsOpen("sim", "angles") /\ IsOpen("sim", "angles")'
  BY <1>1, <1>2, ExchangingFrame
<1>4. UNCHANGED <<main, heard>> BY <1>1 DEF simulator
<1>5. /\ path' \in [Fifos' -> Inodes'] /\ ends' \in [Sides -> [Fifos' -> Ends]] /\ player' = player
      /\ Items' = Items /\ "gc" \in Fifos /\ "angles" \in Fifos
  BY <1>1, KeptEnds
<1>6. End("tool", "gc").inode = path["gc"] BY <1>3, <1>5, EndFacts DEF AllOpen
<1>7. In("gc") = <<>> /\ In("angles") = <<>> /\ main # "angles" BY <1>1 DEF LockStep
<1>8. <<runs, done>> \in Items BY DEF Typing, Items
<1>9. data' = [data EXCEPT !["gc"][path["gc"]] = <<<<runs, done>>>>]
  <2>1. data' = [data EXCEPT !["gc"][path["gc"]] = Append(data["gc"][path["gc"]], <<runs, done>>)]
    BY <1>6 DEF WriteGc, Put
  <2> QED BY <1>7, <2>1, Single DEF In
<1>10. /\ data' \in [Fifos' -> [Inodes' -> Seq(Items')]]
       /\ In("gc")' = <<<<runs, done>>>> /\ In("angles")' = <<>>
  <2>1. <<<<runs, done>>>> \in Seq(Items) BY <1>8
  <2> QED BY <1>1, <1>5, <1>7, <1>9, <2>1, Changed
<1>11. Typing' BY <1>1, <1>2, <1>4, <1>5, <1>10 DEF Typing
<1>12. Started'
  <2>1. done < Batches /\ (done > 0 => main \in Loop) BY <1>1, <1>2 DEF Started
  <2> QED BY <1>1, <1>3, <1>4, <2>1 DEF Started, Stopping
<1>13. LockStep' BY <1>1, <1>3, <1>4, <1>7, <1>10 DEF LockStep, UnderWay
<1> QED BY <1>1, <1>3, <1>11, <1>12, <1>13 DEF OwnAngles

\* The angles that arrive are those of the batch sent last.
LEMMA ReadAnglesStep ==
  ASSUME patient, Parts, ReadAngles PROVE Parts'
<1> USE DEF Parts
<1>1. /\ tool = "read_angles" /\ tool' = "batch" /\ done' = done + 1
      /\ UNCHANGED <<setting, path, ends, register, simulator, runs>>
  BY DEF ReadAngles, Take
<1>2. tool \in Exchanging /\ tool' \in Exchanging BY <1>1 DEF Exchanging
<1>3. /\ SameInodes' /\ InOrder' /\ Spent' /\ AllOpen("tool")
      /\ IsOpen("sim", "angles") /\ IsOpen("sim", "angles")'
  BY <1>1, <1>2, ExchangingFrame
<1>4. UNCHANGED <<main, heard>> BY <1>1 DEF simulator
<1>5. /\ path' \in [Fifos' -> Inodes'] /\ ends' \in [Sides -> [Fifos' -> Ends]] /\ player' = player
      /\ Items' = Items /\ "gc" \in Fifos /\ "angles" \in Fifos
  BY <1>1, KeptEnds
<1>6. /\ End("tool", "angles").inode = path["angles"]
      /\ Contents("tool", "angles") = In("angles")
  BY <1>3, <1>5, EndFacts DEF AllOpen, Contents, In
<1>7. In("angles") # <<>> /\ got' = Head(In("angles")) BY <1>6 DEF ReadAngles, Take
<1>8. In("gc") = <<>> /\ In("angles") = <<<<runs, done>>>> /\ main \in Loop \ {"angles"}
  BY <1>1, <1>7 DEF LockStep, UnderWay
<1>9. got' = <<runs, done>> /\ Tail(In("angles")) = <<>> BY <1>7, <1>8, Single
<1>10. data' = [data EXCEPT !["angles"][path["angles"]] = <<>>]
  <2>1. data' = [data EXCEPT !["angles"][path["angles"]] = Tail(data["angles"][path["angles"]])]
    BY <1>6 DEF ReadAngles, Take
  <2> QED BY <1>9, <2>1 DEF In
<1>11. /\ data' \in [Fifos' -> [Inodes' -> Seq(Items')]]
       /\ In("gc")' = <<>> /\ In("angles")' = <<>>
  <2>1. <<>> \in Seq(Items) OBVIOUS
  <2> QED BY <1>1, <1>5, <1>8, <1>10, <2>1, Changed
<1>12. done < Batches /\ done \in Nat /\ done' \in 0..Batches
  BY <1>1, <1>2 DEF Started, Typing
<1>13. Typing'
  <2>1. got' \in Items BY <1>9 DEF Typing, Items
  <2> QED BY <1>1, <1>2, <1>4, <1>5, <1>11, <1>12, <2>1 DEF Typing
<1>14. Started' BY <1>1, <1>3, <1>4, <1>8 DEF Started, Stopping, Loop
<1>15. LockStep' BY <1>1, <1>3, <1>4, <1>8, <1>11 DEF LockStep
<1>16. OwnAngles'
  <2>1. (done + 1) - 1 = done BY <1>12
  <2> QED BY <1>1, <1>9, <2>1 DEF OwnAngles
<1> QED BY <1>3, <1>13, <1>14, <1>15, <1>16

----------------------------------------------------------------------------
(* Opening and closing.                                                    *)

\* Nothing the exchange is about changes.
LEMMA SameExchange ==
  ASSUME UNCHANGED <<setting, path, data>>
  PROVE  /\ In("gc")' = In("gc") /\ In("angles")' = In("angles")
         /\ Fifos' = Fifos /\ Inodes' = Inodes /\ Items' = Items /\ player' = player
BY SameFifos DEF In, Inodes, Items

\* A thread of the simulator opens its end: it is connected if the controller
\* waits there, and the last FIFO only by a controller that has them all.
LEMMA SimOpensStep ==
  ASSUME patient, Parts, NEW f \in Fifos, SimOpens(f) PROVE Parts'
<1> USE DEF Parts
<1>1. main = "opening" /\ Open("sim", f) /\ UNCHANGED <<setting, register, simulator, controller>>
  BY DEF SimOpens
<1>2. UNCHANGED <<main, heard, fresh, tool, runs, done, got>> BY <1>1 DEF simulator, controller
<1>3. "sim" \in Sides /\ "tool" \in Sides /\ Peer("sim") = "tool" BY DEF Sides, Peer
<1>4. /\ ~Held("sim", f) /\ path' = path /\ data' = data
      /\ ends' \in [Sides -> [Fifos -> Ends]] /\ SameInodes'
      /\ \A g \in Fifos : g # f =>
           /\ (Held("sim", g)' <=> Held("sim", g)) /\ (IsOpen("sim", g)' <=> IsOpen("sim", g))
           /\ (Held("tool", g)' <=> Held("tool", g)) /\ (IsOpen("tool", g)' <=> IsOpen("tool", g))
      /\ Held("sim", f)' /\ (Held("tool", f)' <=> Held("tool", f))
      /\ (IsOpen("sim", f)' <=> Held("tool", f)) /\ (IsOpen("tool", f)' <=> Held("tool", f))
  BY <1>1, <1>3, Opened
<1>5. /\ In("gc")' = In("gc") /\ In("angles")' = In("angles")
      /\ Fifos' = Fifos /\ Inodes' = Inodes /\ Items' = Items /\ player' = player
  BY <1>1, <1>4, SameExchange
<1>6. /\ "angles" \in Fifos /\ \A g \in Fifos : Before(g) \subseteq Fifos /\ g \notin Before(g)
      /\ Before("angles") = Fifos \ {"angles"} /\ \A g \in Fifos : Before(g)' = Before(g)
  BY <1>1, FifoFacts, SameFifos DEF Typing
<1>7. ~IsOpen("sim", f) /\ ~IsOpen("tool", f) BY <1>3, <1>4, EndFacts DEF SameInodes
<1> HIDE DEF Held, IsOpen, AllOpen, Before
<1>8. ~AllOpen("tool") /\ ~AllOpen("sim") BY <1>7 DEF AllOpen
<1>9. tool \notin Exchanging \cup Stopping /\ main \notin {"command"} \cup Loop /\ main # "reset"
  BY <1>1, <1>8 DEF InOrder, Loop
<1>10. tool # "off" => ~IsOpen("sim", "angles") BY <1>8 DEF InOrder
\* The FIFO that is met is the controller's first that waits.
<1>11. Held("tool", f) => \A g \in Fifos : g # f => (Held("tool", g) => IsOpen("tool", g))
  <2> SUFFICES ASSUME Held("tool", f), NEW g \in Fifos, g # f, Held("tool", g) PROVE IsOpen("tool", g)
    OBVIOUS
  <2>1. f \in Before(g) \/ g \in Before(f) BY DEF Before, Fifos
  <2>2. f \in Before(g) => IsOpen("tool", f) BY DEF InOrder
  <2>3. g \in Before(f) => IsOpen("tool", g) BY DEF InOrder
  <2> QED BY <1>7, <2>1, <2>2, <2>3
<1>12. \A g \in Fifos : IsOpen("tool", g) => IsOpen("tool", g)' BY <1>4, <1>7
<1>13. \A g \in Fifos : IsOpen("sim", g)' =>
         \/ IsOpen("sim", g) /\ g # f
         \/ g = f /\ Held("tool", f)
  BY <1>4
<1>14. \A g \in Fifos : \A h \in Before(g) : IsOpen("sim", g)' => IsOpen("sim", h)'
  <2> SUFFICES ASSUME NEW g \in Fifos, NEW h \in Before(g), IsOpen("sim", g)' PROVE IsOpen("sim", h)'
    OBVIOUS
  <2>1. CASE IsOpen("sim", g) /\ g # f
    <3>1. IsOpen("sim", h) BY <2>1 DEF InOrder
    <3> QED BY <1>4, <1>6, <1>7, <3>1
  <2>2. CASE g = f /\ Held("tool", f)
    <3>1. IsOpen("tool", h) /\ h # f BY <1>6, <2>2 DEF InOrder
    <3>2. IsOpen("sim", h) BY <1>6, <3>1 DEF SameInodes
    <3> QED BY <1>4, <1>6, <3>1, <3>2
  <2> QED BY <1>13, <2>1, <2>2
<1>15. \A g \in Fifos : \A h \in Before(g) : Held("tool", g)' => IsOpen("tool", h)'
  BY <1>4, <1>6, <1>12 DEF InOrder
<1>16. (IsOpen("sim", "angles")' => (Held("tool", "angles") /\ f = "angles") \/ tool = "off")
  BY <1>2, <1>6, <1>10, <1>13
<1>17. Held("tool", "angles") /\ f = "angles" => /\ tool = "open" /\ AllOpen("tool")'
  <2> SUFFICES ASSUME Held("tool", "angles"), f = "angles" PROVE tool = "open" /\ AllOpen("tool")'
    OBVIOUS
  <2>1. tool \notin {"off", "start_size", "start_store"} BY <1>6 DEF InOrder
  <2>2. tool = "open" BY <1>9, <2>1 DEF Typing, Triggering, Exchanging, Stopping
  <2>3. \A g \in Fifos : IsOpen("tool", g)' BY <1>4, <1>6, <1>15
  <2> QED BY <1>5, <2>2, <2>3 DEF AllOpen
<1>18. InOrder'
  <2>1. /\ \A g \in Fifos' : \A h \in Before(g)' : IsOpen("sim", g)' => IsOpen("sim", h)'
        /\ \A g \in Fifos' : \A h \in Before(g)' : Held("tool", g)' => IsOpen("tool", h)'
    BY <1>5, <1>6, <1>14, <1>15
  <2>2. tool' \in {"off", "start_size", "start_store"} => \A g \in Fifos' : ~Held("tool", g)'
    BY <1>2, <1>4, <1>5 DEF InOrder
  <2>3. tool' # "off" /\ IsOpen("sim", "angles")' => AllOpen("tool")' BY <1>2, <1>16, <1>17
  <2> QED BY <1>2, <1>9, <2>1, <2>2, <2>3 DEF InOrder, Exchanging, Stopping, Loop
<1>19. Spent'
  <2>1. tool' # "off" \/ IsOpen("sim", "angles")' => tool # "off" \/ IsOpen("sim", "angles")
    BY <1>2, <1>6, <1>13, <1>17
  <2> QED BY <1>2, <1>4, <1>5, <1>9, <2>1 DEF Spent
<1>20. Typing' BY <1>1, <1>2, <1>4, <1>5 DEF Typing, setting
<1>21. Started'
  <2>1. IsOpen("sim", "angles")' => IsOpen("sim", "angles") \/ tool = "open" BY <1>6, <1>13, <1>17
  <2>2. IsOpen("sim", "angles")' => register = "start" BY <1>1, <2>1 DEF Started
  <2>3. register' = register BY <1>1
  <2> QED BY <1>2, <1>9, <2>2, <2>3 DEF Started, Exchanging, Stopping
<1>22. LockStep'
  <2>1. ~IsOpen("sim", "angles")' => ~IsOpen("sim", "angles") BY <1>4, <1>6, <1>7
  <2> QED BY <1>2, <1>4, <1>5, <1>9, <2>1 DEF LockStep, Exchanging
<1> QED BY <1>1, <1>2, <1>4, <1>18, <1>19, <1>20, <1>21, <1>22 DEF OwnAngles, setting

\* The controller opens its next end; before its last one the simulator cannot be
\* connected.
LEMMA ToolOpensStep ==
  ASSUME patient, Parts, ToolOpens PROVE Parts'
<1> USE DEF Parts
<1>1. /\ tool = "open" /\ UNCHANGED <<setting, register, simulator, controller>>
      /\ \E f \in Fifos : Open("tool", f) /\ \A h \in Before(f) : IsOpen("tool", h)
  <2>1. PICK i \in DOMAIN OpenOrder :
          (\A j \in 1 .. i - 1 : IsOpen("tool", OpenOrder[j])) /\ Open("tool", OpenOrder[i])
    BY DEF ToolOpens
  <2>2. /\ OpenOrder[i] \in Fifos
        /\ \A h \in Before(OpenOrder[i]) : \E j \in 1 .. i - 1 : OpenOrder[j] = h
    BY OpenOrderFacts DEF Typing
  <2>3. \A h \in Before(OpenOrder[i]) : IsOpen("tool", h) BY <2>1, <2>2
  <2> QED BY <2>1, <2>2, <2>3 DEF ToolOpens
<1>2. PICK f \in Fifos : Open("tool", f) /\ \A h \in Before(f) : IsOpen("tool", h) BY <1>1
<1>3. UNCHANGED <<main, heard, fresh, tool, runs, done, got>> BY <1>1 DEF simulator, controller
<1>4. "sim" \in Sides /\ "tool" \in Sides /\ Peer("tool") = "sim" BY DEF Sides, Peer
<1>5. /\ ~Held("tool", f) /\ path' = path /\ data' = data
      /\ ends' \in [Sides -> [Fifos -> Ends]] /\ SameInodes'
      /\ \A g \in Fifos : g # f =>
           /\ (Held("sim", g)' <=> Held("sim", g)) /\ (IsOpen("sim", g)' <=> IsOpen("sim", g))
           /\ (Held("tool", g)' <=> Held("tool", g)) /\ (IsOpen("tool", g)' <=> IsOpen("tool", g))
      /\ Held("tool", f)' /\ (Held("sim", f)' <=> Held("sim", f))
      /\ (IsOpen("tool", f)' <=> Held("sim", f)) /\ (IsOpen("sim", f)' <=> Held("sim", f))
  BY <1>1, <1>2, <1>4, Opened
<1>6. /\ In("gc")' = In("gc") /\ In("angles")' = In("angles")
      /\ Fifos' = Fifos /\ Inodes' = Inodes /\ Items' = Items /\ player' = player
  BY <1>1, <1>5, SameExchange
<1>7. /\ "angles" \in Fifos /\ \A g \in Fifos : Before(g) \subseteq Fifos /\ g \notin Before(g)
      /\ Before("angles") = Fifos \ {"angles"} /\ \A g \in Fifos : Before(g)' = Before(g)
  BY <1>1, FifoFacts, SameFifos DEF Typing
<1>8. \A s \in Sides, g \in Fifos : IsOpen(s, g) => Held(s, g) BY EndFacts
<1> HIDE DEF Held, IsOpen, AllOpen, Before
<1>9. ~AllOpen("tool") BY <1>4, <1>5, <1>8 DEF AllOpen
<1>10. ~IsOpen("sim", "angles") BY <1>1, <1>9 DEF InOrder
<1>11. main = "opening" BY <1>1, <1>7, <1>10 DEF InOrder, AllOpen, Typing
<1>12. \A g \in Fifos : IsOpen("sim", g) => IsOpen("sim", g)' BY <1>4, <1>5, <1>8
<1>13. \A g \in Fifos : IsOpen("tool", g) => IsOpen("tool", g)' /\ IsOpen("sim", g)'
  <2> SUFFICES ASSUME NEW g \in Fifos, IsOpen("tool", g) PROVE IsOpen("tool", g)' /\ IsOpen("sim", g)'
    OBVIOUS
  <2>1. g # f BY <1>4, <1>5, <1>8
  <2>2. IsOpen("sim", g) BY DEF SameInodes
  <2> QED BY <1>5, <2>1, <2>2
<1>14. \A g \in Fifos : \A h \in Before(g) : IsOpen("sim", g)' => IsOpen("sim", h)'
  <2> SUFFICES ASSUME NEW g \in Fifos, NEW h \in Before(g), IsOpen("sim", g)' PROVE IsOpen("sim", h)'
    OBVIOUS
  <2>1. h \in Fifos BY <1>7
  <2>2. CASE g = f BY <1>2, <1>13, <2>1, <2>2
  <2>3. CASE g # f
    <3>1. IsOpen("sim", g) BY <1>5, <2>3
    <3>2. IsOpen("sim", h) BY <3>1 DEF InOrder
    <3> QED BY <1>12, <2>1, <3>2
  <2> QED BY <2>2, <2>3
<1>15. \A g \in Fifos : \A h \in Before(g) : Held("tool", g)' => IsOpen("tool", h)'
  <2> SUFFICES ASSUME NEW g \in Fifos, NEW h \in Before(g), Held("tool", g)' PROVE IsOpen("tool", h)'
    OBVIOUS
  <2>1. h \in Fifos BY <1>7
  <2>2. CASE g = f BY <1>2, <1>13, <2>1, <2>2
  <2>3. CASE g # f
    <3>1. Held("tool", g) BY <1>5, <2>3
    <3>2. IsOpen("tool", h) BY <3>1 DEF InOrder
    <3> QED BY <1>13, <2>1, <3>2
  <2> QED BY <2>2, <2>3
<1>16. IsOpen("sim", "angles")' => AllOpen("tool")'
  <2> SUFFICES ASSUME IsOpen("sim", "angles")' PROVE AllOpen("tool")'
    OBVIOUS
  <2>1. f = "angles" BY <1>5, <1>7, <1>10
  <2>2. IsOpen("tool", "angles")' BY <1>5, <2>1
  <2>3. \A h \in Fifos \ {"angles"} : IsOpen("tool", h)' BY <1>2, <1>7, <1>13, <2>1
  <2> QED BY <1>6, <2>2, <2>3 DEF AllOpen
<1>17. InOrder'
  <2>1. /\ \A g \in Fifos' : \A h \in Before(g)' : IsOpen("sim", g)' => IsOpen("sim", h)'
        /\ \A g \in Fifos' : \A h \in Before(g)' : Held("tool", g)' => IsOpen("tool", h)'
    BY <1>6, <1>7, <1>14, <1>15
  <2> QED BY <1>1, <1>3, <1>11, <1>16, <2>1 DEF InOrder, Exchanging, Stopping, Loop
<1>18. Spent' BY <1>1, <1>3, <1>5, <1>6, <1>11 DEF Spent
<1>19. Typing' BY <1>1, <1>3, <1>5, <1>6 DEF Typing, setting
<1>20. Started' BY <1>1, <1>3, <1>11 DEF Started, Exchanging, Stopping
<1>21. LockStep' BY <1>1, <1>3, <1>5, <1>6, <1>10 DEF LockStep
<1> QED BY <1>1, <1>3, <1>5, <1>17, <1>18, <1>19, <1>20, <1>21 DEF OwnAngles

\* The controller is gone, by itself or killed: what the simulator does not hold
\* yet is empty, and was before.
LEMMA ToolGone ==
  ASSUME patient, Parts, CloseAll("tool"), tool' = "off",
         UNCHANGED <<setting, simulator, runs, done, got>>,
         register' = register \/ main \in Loop, register' \in {"empty", "stop", "start"}
  PROVE  Parts'
<1> USE DEF Parts
<1>1. UNCHANGED <<main, heard, fresh>> BY DEF simulator
<1>2. "sim" \in Sides /\ "tool" \in Sides /\ Peer("tool") = "sim" BY DEF Sides, Peer
<1>3. /\ path' = path /\ ends' \in [Sides -> [Fifos -> Ends]]
      /\ data' \in [Fifos -> [Inodes -> Seq(Items)]] /\ SameInodes'
      /\ \A f \in Fifos : ~Held("tool", f)' /\ ~IsOpen("tool", f)'
      /\ \A f \in Fifos : (Held("sim", f)' <=> Held("sim", f)) /\ (IsOpen("sim", f)' <=> IsOpen("sim", f))
      /\ \A f \in Fifos, i \in Inodes : data'[f][i] = data[f][i] \/ data'[f][i] = <<>>
  BY <1>2, Closed
<1>4. Fifos' = Fifos /\ player' = player /\ \A g : Before(g)' = Before(g) BY SameFifos
<1>5. Inodes' = Inodes /\ Items' = Items BY DEF Inodes, Items
<1>6. "angles" \in Fifos /\ \A g \in Fifos : Before(g) \subseteq Fifos BY FifoFacts DEF Typing
<1> HIDE DEF Held, IsOpen, AllOpen, Before
<1>8. AllOpen("sim") => AllOpen("sim")' BY <1>3, <1>4 DEF AllOpen
<1>9. InOrder'
  <2>1. \A g \in Fifos' : \A h \in Before(g)' : IsOpen("sim", g)' => IsOpen("sim", h)'
    <3>1. \A g \in Fifos : \A h \in Before(g) : IsOpen("sim", g)' => IsOpen("sim", h)'
      BY <1>3, <1>6 DEF InOrder
    <3> QED BY <1>4, <3>1
  <2>2. \A g \in Fifos' : \A h \in Before(g)' : Held("tool", g)' => IsOpen("tool", h)'
    BY <1>3, <1>4
  <2>3. main' \in {"command"} \cup Loop => AllOpen("sim")' BY <1>1, <1>8 DEF InOrder
  <2>4. main' = "reset" => \A f \in Fifos' : ~Held("sim", f)' BY <1>1, <1>3, <1>4 DEF InOrder
  <2> QED BY <1>3, <1>4, <2>1, <2>2, <2>3, <2>4 DEF InOrder, Exchanging, Stopping, Loop
<1>10. Spent'
  <2>1. IsOpen("sim", "angles")' <=> IsOpen("sim", "angles") BY <1>3, <1>6
  <2>2. ResetOrder' = ResetOrder BY SameFifos
  <2> QED BY <1>1, <1>3, <1>4, <2>1, <2>2 DEF Spent
<1>11. Typing' BY <1>1, <1>3, <1>4, <1>5 DEF Typing
<1>12. Started'
  <2>1. IsOpen("sim", "angles")' <=> IsOpen("sim", "angles") BY <1>3, <1>6
  <2> QED BY <1>1, <2>1 DEF Started, Exchanging, Stopping, Loop
<1>13. LockStep'
  <2>1. ~IsOpen("sim", "angles")' => ~IsOpen("sim", "angles") BY <1>3, <1>6
  <2>2. ~IsOpen("sim", "angles")' => \A f \in Fifos', i \in Inodes' : data'[f][i] = <<>>
    BY <1>3, <1>4, <1>5, <2>1 DEF LockStep
  <2> QED BY <2>2 DEF LockStep
<1> QED BY <1>3, <1>9, <1>10, <1>11, <1>12, <1>13 DEF OwnAngles

LEMMA ToolEndSteps ==
  ASSUME patient, Parts, StoreStop \/ Fail \/ Kill PROVE Parts'
<1>1. CASE StoreStop
  <2>1. main \in Loop BY <1>1 DEF Parts, Started, Stopping, StoreStop
  <2> QED BY <1>1, <2>1, ToolGone DEF StoreStop
<1>2. CASE Fail \/ Kill
  <2>1. register' = register /\ register \in {"empty", "stop", "start"}
    BY <1>2 DEF Fail, Kill, Parts, Typing
  <2> QED BY <1>2, <2>1, ToolGone DEF Fail, Kill
<1> QED BY <1>1, <1>2

\* The register never is "empty" while the simulator polls it.
LEMMA Mapped ==
  ASSUME Parts, main = "command" PROVE register = "start"
<1>1. AllOpen("sim") BY DEF Parts, InOrder
<1>2. "angles" \in Fifos BY FifoFacts DEF Parts, Typing
<1>3. IsOpen("sim", "angles") BY <1>1, <1>2 DEF AllOpen
<1> QED BY <1>3 DEF Parts, Started

\* The simulator sees the end of file only of a controller that is gone, so that
\* nobody holds the inodes it is about to replace.
LEMMA EndOfFileStep ==
  ASSUME patient, Parts, EndOfFile PROVE Parts'
<1> USE DEF Parts
<1>1. /\ main = "read" /\ main' = "reset" /\ ~Connected("sim", "gc") /\ CloseAll("sim")
      /\ UNCHANGED <<setting, register, heard, fresh, tool, runs, done, got>>
  BY DEF EndOfFile, controller
<1>2. /\ "sim" \in Sides /\ "tool" \in Sides /\ Peer("sim") = "tool"
      /\ \A t \in Sides : t = "sim" \/ t = "tool"
  BY DEF Sides, Peer
<1>3. "gc" \in Fifos /\ "angles" \in Fifos /\ Fifos' = Fifos /\ \A g : Before(g)' = Before(g)
      /\ player' = player /\ ResetOrder' = ResetOrder /\ Inodes' = Inodes /\ Items' = Items
  BY <1>1, FifoFacts, SameFifos DEF Typing, Inodes, Items
<1>4. AllOpen("sim") /\ main \in Loop BY <1>1 DEF InOrder, Loop
<1>5. IsOpen("sim", "angles") /\ IsOpen("sim", "gc") BY <1>3, <1>4 DEF AllOpen
<1>6. tool = "off"
  <2>1. IsOpen("tool", "gc") => Connected("sim", "gc") BY <1>2, <1>3, <1>5, Connecting, EndFacts
  <2> QED BY <1>1, <1>3, <1>5, <2>1 DEF InOrder, AllOpen
<1>7. \A f \in Fifos : ~Held("tool", f) BY <1>6 DEF InOrder
<1>8. \A f \in Fifos : ~IsOpen("tool", f) BY <1>2, <1>7, EndFacts
<1>9. /\ path' = path /\ ends' \in [Sides -> [Fifos -> Ends]]
      /\ data' \in [Fifos -> [Inodes -> Seq(Items)]]
      /\ \A f \in Fifos : ~Held("sim", f)' /\ ~IsOpen("sim", f)'
      /\ \A f \in Fifos : ~Held("tool", f)' /\ ~IsOpen("tool", f)'
      /\ \A f \in Fifos, i \in Inodes : data'[f][i] = <<>>
  BY <1>1, <1>2, <1>7, <1>8, Closed
<1> HIDE DEF Held, IsOpen, AllOpen, Before
<1>10. SameInodes' BY <1>2, <1>3, <1>9 DEF SameInodes, Sides
<1>11. InOrder'
  <2>1. /\ \A g \in Fifos' : \A f \in Before(g)' : IsOpen("sim", g)' => IsOpen("sim", f)'
        /\ \A g \in Fifos' : \A f \in Before(g)' : Held("tool", g)' => IsOpen("tool", f)'
    BY <1>3, <1>9
  <2> QED BY <1>1, <1>3, <1>6, <1>9, <2>1 DEF InOrder, Exchanging, Stopping, Loop
<1>12. Spent'
  <2>1. Len(ResetOrder) \in {2, 3} /\ \A i \in 1..Len(ResetOrder) : ResetOrder[i] \in Fifos
    BY ResetOrderFacts DEF Typing
  <2>2. fresh = 0 /\ \A f \in Fifos : path[f] <= runs BY <1>1, <1>5 DEF Spent
  <2>3. fresh' \in 0 .. Len(ResetOrder) - 1 BY <1>1, <2>1, <2>2
  <2>4. \A i \in fresh' + 1 .. Len(ResetOrder) : path'[ResetOrder[i]] <= runs'
    BY <1>1, <1>9, <2>1, <2>2
  <2>5. \A f \in Fifos : path[f] <= runs + 1 BY DEF Spent
  <2> QED BY <1>1, <1>3, <1>6, <1>9, <2>3, <2>4, <2>5 DEF Spent
<1>13. Typing' BY <1>1, <1>3, <1>9 DEF Typing, setting
<1>14. Started' BY <1>1, <1>3, <1>6, <1>9 DEF Started, Exchanging, Stopping
<1>15. LockStep' BY <1>1, <1>3, <1>6, <1>9 DEF LockStep
<1> QED BY <1>1, <1>6, <1>10, <1>11, <1>12, <1>13, <1>14, <1>15 DEF OwnAngles

\* A path gets a new inode; it has been used up by a run.
LEMMA RecreateStep ==
  ASSUME patient, Parts, Recreate PROVE Parts'
<1> USE DEF Parts
<1> DEFINE n == fresh + 1
           f == ResetOrder[n]
<1>1. /\ main = "reset" /\ path' = [path EXCEPT ![f] = path[f] + 1]
      /\ UNCHANGED <<setting, ends, data, register, heard, tool, runs, done, got>>
      /\ IF n = Len(ResetOrder)
           THEN fresh' = 0 /\ main' = "opening"
           ELSE fresh' = n /\ main' = main
  BY DEF Recreate, controller
<1>2. /\ Len(ResetOrder) \in {2, 3}
      /\ \A i \in 1..Len(ResetOrder) : ResetOrder[i] \in Fifos
      /\ \A i, j \in 1..Len(ResetOrder) : ResetOrder[i] = ResetOrder[j] => i = j
  BY ResetOrderFacts DEF Typing
<1>3. "angles" \in Fifos /\ Fifos' = Fifos /\ (\A g : Before(g)' = Before(g))
      /\ player' = player /\ ResetOrder' = ResetOrder /\ Inodes' = Inodes /\ Items' = Items
  BY <1>1, FifoFacts, SameFifos DEF Typing, Inodes, Items
<1>4. /\ tool = "off" /\ \A g \in Fifos : ~Held("sim", g) /\ ~Held("tool", g)
  BY <1>1 DEF InOrder
<1>5. \A g \in Fifos : ~IsOpen("sim", g) /\ ~IsOpen("tool", g) BY <1>4, EndFacts
<1>6. \A s \in Sides, g \in Fifos : (Held(s, g)' <=> Held(s, g)) /\ (IsOpen(s, g)' <=> IsOpen(s, g))
  BY <1>1 DEF Held, IsOpen, End
<1>7. \A g \in Fifos : /\ ~Held("sim", g)' /\ ~Held("tool", g)'
                       /\ ~IsOpen("sim", g)' /\ ~IsOpen("tool", g)'
  BY <1>4, <1>5, <1>6 DEF Sides
<1> HIDE DEF Held, IsOpen, AllOpen, Before
<1>8. fresh \in 0 .. Len(ResetOrder) - 1 /\ n \in 1..Len(ResetOrder) /\ f \in Fifos
      /\ \A i \in n .. Len(ResetOrder) : path[ResetOrder[i]] <= runs
  <2>1. fresh \in 0 .. Len(ResetOrder) - 1 /\ \A i \in n .. Len(ResetOrder) : path[ResetOrder[i]] <= runs
    BY <1>1 DEF Spent
  <2>2. n \in 1..Len(ResetOrder) BY <1>2, <2>1
  <2> QED BY <1>2, <2>1, <2>2
<1>9. path[f] <= runs /\ runs \in Nat /\ runs <= MaxRuns /\ path[f] \in Inodes
  BY <1>2, <1>8 DEF Typing
<1> HIDE DEF f, n
<1>10. path' \in [Fifos -> Inodes] /\ path'[f] = path[f] + 1 /\ \A g \in Fifos : g # f => path'[g] = path[g]
  <2>1. path[f] + 1 \in Inodes BY <1>9 DEF Inodes
  <2> QED BY <1>1, <1>8, <2>1 DEF Typing
<1>11. SameInodes' BY <1>3, <1>7 DEF SameInodes, Sides
<1>12. main' \in {"reset", "opening"} BY <1>1
<1>13. InOrder'
  <2>1. /\ \A g \in Fifos' : \A h \in Before(g)' : IsOpen("sim", g)' => IsOpen("sim", h)'
        /\ \A g \in Fifos' : \A h \in Before(g)' : Held("tool", g)' => IsOpen("tool", h)'
    BY <1>3, <1>7
  <2> QED BY <1>1, <1>3, <1>4, <1>7, <1>12, <2>1 DEF InOrder, Exchanging, Stopping, Loop
<1>14. Spent'
  <2>1. \A g \in Fifos' : path'[g] <= runs' + 1
    <3>1. path[f] + 1 <= runs + 1 BY <1>9 DEF Inodes
    <3> QED BY <1>1, <1>3, <1>10, <3>1 DEF Spent
  <2>2. main' = "reset" => /\ fresh' \in 0 .. Len(ResetOrder) - 1
                           /\ \A i \in fresh' + 1 .. Len(ResetOrder) : path'[ResetOrder[i]] <= runs'
    <3> SUFFICES ASSUME main' = "reset"
                 PROVE  /\ fresh' \in 0 .. Len(ResetOrder) - 1
                        /\ \A i \in fresh' + 1 .. Len(ResetOrder) : path'[ResetOrder[i]] <= runs'
      OBVIOUS
    <3>1. n # Len(ResetOrder) /\ fresh' = n BY <1>1
    <3>2. fresh' \in 0 .. Len(ResetOrder) - 1 BY <1>2, <1>8, <3>1
    <3>3. ASSUME NEW i \in fresh' + 1 .. Len(ResetOrder) PROVE path'[ResetOrder[i]] <= runs'
      <4>1. i \in 1..Len(ResetOrder) /\ i # n /\ i \in n .. Len(ResetOrder) BY <1>2, <1>8, <3>1
      <4>2. ResetOrder[i] # f BY <1>2, <1>8, <4>1 DEF f
      <4>3. path'[ResetOrder[i]] = path[ResetOrder[i]] BY <1>2, <1>10, <4>1, <4>2
      <4> QED BY <1>1, <1>8, <4>1, <4>3
    <3> QED BY <3>2, <3>3
  <2>3. main' # "reset" => fresh' = 0 BY <1>1
  <2> QED BY <1>1, <1>3, <1>4, <1>7, <2>1, <2>2, <2>3 DEF Spent
<1>15. Typing' BY <1>1, <1>3, <1>10, <1>12 DEF Typing, setting
<1>16. Started' BY <1>1, <1>3, <1>4, <1>7 DEF Started, Exchanging, Stopping
<1>17. LockStep' BY <1>1, <1>3, <1>4, <1>5 DEF LockStep
<1> QED BY <1>1, <1>4, <1>11, <1>13, <1>14, <1>15, <1>16, <1>17 DEF OwnAngles

----------------------------------------------------------------------------
(* The theorems.                                                           *)

LEMMA Initially == ASSUME Init PROVE Parts
<1>1. /\ player \in {"alice", "bob"} /\ path = [f \in Fifos |-> 1]
      /\ ends = [s \in Sides |-> [f \in Fifos |-> NoEnd]]
      /\ data = [f \in Fifos |-> [i \in Inodes |-> <<>>]]
      /\ register \in {"stop", "start"} /\ main = "opening" /\ heard = <<0, 0>> /\ fresh = 0
      /\ tool = "off" /\ runs = 0 /\ done = 0 /\ got = <<0, 0>>
  BY DEF Init
<1>2. "sim" \in Sides /\ "tool" \in Sides BY DEF Sides
<1>3. "angles" \in Fifos /\ \A g \in Fifos : Before(g) \subseteq Fifos BY <1>1, FifoFacts
<1>4. \A s \in Sides, f \in Fifos : ~Held(s, f) /\ ~IsOpen(s, f)
  BY <1>1 DEF Held, IsOpen, End, NoEnd
<1>5. 1 \in Inodes /\ <<0, 0>> \in Items /\ NoEnd \in Ends
  BY DEF Inodes, Items, NoEnd, Ends
<1>6. Typing
  <2>1. <<>> \in Seq(Items) OBVIOUS
  <2>2. path \in [Fifos -> Inodes] BY <1>1, <1>5
  <2>3. ends \in [Sides -> [Fifos -> Ends]] BY <1>1, <1>5
  <2>4. data \in [Fifos -> [Inodes -> Seq(Items)]] BY <1>1, <2>1
  <2>5. runs \in 0..MaxRuns /\ done \in 0..Batches BY <1>1
  <2> QED BY <1>1, <1>5, <2>2, <2>3, <2>4, <2>5 DEF Typing
<1> HIDE DEF Held, IsOpen, Before
<1>7. SameInodes BY <1>2, <1>4 DEF SameInodes
<1>8. InOrder BY <1>1, <1>2, <1>3, <1>4 DEF InOrder, Exchanging, Stopping, Loop
<1>9. Spent BY <1>1, <1>2, <1>3, <1>4 DEF Spent
<1>10. Started BY <1>1, <1>2, <1>3, <1>4 DEF Started, Exchanging, Stopping
<1>11. LockStep BY <1>1 DEF LockStep
<1> QED BY <1>1, <1>6, <1>7, <1>8, <1>9, <1>10, <1>11 DEF Parts, OwnAngles

\* A step that changes nothing.
LEMMA Stutter ==
  ASSUME Parts, UNCHANGED ctlVars PROVE Parts'
<1>1. UNCHANGED <<player, patient, path, ends, data, register, main, heard, fresh, tool, runs, done, got>>
  BY DEF ctlVars, setting, files, simulator, controller
<1>2. Typing' BY <1>1 DEF Parts, Typing, Fifos, Inodes, Items
<1>3. SameInodes' BY <1>1, EndsUnchanged DEF Parts, setting
<1>4. InOrder' BY <1>1 DEF Parts, InOrder, Before, Fifos, Held, IsOpen, AllOpen, End, NoEnd, Exchanging, Stopping, Loop
<1>5. Spent' BY <1>1 DEF Parts, Spent, Fifos, ResetOrder, IsOpen, End
<1>6. Started' BY <1>1 DEF Parts, Started, IsOpen, End, Exchanging, Stopping, Loop
<1>7. LockStep' BY <1>1 DEF Parts, LockStep, UnderWay, In, IsOpen, End, Fifos, Inodes, Loop
<1> QED BY <1>1, <1>2, <1>3, <1>4, <1>5, <1>6, <1>7 DEF Parts, OwnAngles

LEMMA Preserved == ASSUME Inv, [Next]_ctlVars PROVE Inv'
<1> SUFFICES ASSUME patient' PROVE Parts'
  BY DEF Inv
<1>1. UNCHANGED setting
  BY DEF Next, SimStep, ToolStep, ctlVars, Connect, Poll, PollTruncated, WriteGcr, ReadGc, WriteAngles,
         EndOfFile, Recreate, SimOpens, SetLength, StoreStart, ToolOpens, ToolConnected, NextBatch,
         ReadGcr, WriteGc, ReadAngles, Stop, StoreStop, Fail, Begin, Kill
<1>2. patient /\ Parts BY <1>1 DEF setting, Inv
<1>3. CASE SimStep
  <2>1. CASE PollTruncated BY <1>2, <2>1, Mapped DEF PollTruncated
  <2>2. CASE \E f \in Fifos : SimOpens(f) BY <1>2, <2>2, SimOpensStep
  <2> QED BY <1>2, <1>3, <2>1, <2>2, SimulatorSteps, WriteGcrStep, ReadGcStep, WriteAnglesStep,
             EndOfFileStep, RecreateStep DEF SimStep
<1>4. CASE ToolStep
  BY <1>2, <1>4, ControllerSteps, ToolOpensStep, ReadGcrStep, WriteGcStep, ReadAnglesStep, ToolEndSteps
  DEF ToolStep
<1>5. CASE Begin BY <1>2, <1>5, BeginStep
<1>6. CASE Kill BY <1>2, <1>6, ToolEndSteps
<1>7. CASE UNCHANGED ctlVars BY <1>2, <1>7, Stutter
<1> QED BY <1>3, <1>4, <1>5, <1>6, <1>7 DEF Next

\* With a patient user, at every step of either process: both hold the same inodes,
\* the simulator connects only once the controller has all its ends and the register
\* says START, and at most one GC batch is under way (the opens of FifoConnection::new,
\* setup_ipc_fifos, and the loops of the simulator and of simu_controller).
THEOREM Invariance == Spec => []Inv
<1>1. Init => Inv BY Initially DEF Inv
<1>2. Inv /\ [Next]_ctlVars => Inv' BY Preserved
<1> QED BY <1>1, <1>2, PTL DEF Spec

\* The angles a run of simu_controller reads answer its own GC batches, in order,
\* for any number of batches and of earlier runs, killed anywhere.
THEOREM OwnAnglesAlways == Spec => []OwnAngles
<1>1. Inv => OwnAngles BY DEF Inv, Parts, OwnAngles
<1> QED BY <1>1, Invariance, PTL
=============================================================================
