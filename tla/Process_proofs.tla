--------------------------- MODULE Process_proofs ---------------------------
(***************************************************************************)
(* Proofs about FifoPaths, for any list of paths and any number of faults, *)
(* and about ControlConnections, for any clients and numbers of lines.     *)
(***************************************************************************)
EXTENDS FifoPaths, ControlConnections, TLAPS

USE FifosAssumption, MaxFaultsAssumption, ClientsAssumption, MaxLinesAssumption

----------------------------------------------------------------------------
(* The paths of the FIFOs.                                                 *)

NoneUsed == \A i \in Paths : fifo[i] # "used"

\* While the paths are being recreated, those behind next are done; everywhere
\* else paths_state says whether one of them may have been opened.
PathInv ==
  /\ PathTypeOK
  /\ sup \notin {"reset", "pause"} => next = 1
  /\ sup \in {"reset", "pause"} => \A i \in Paths : i < next => fifo[i] # "used"
  /\ sup = "reset" => paths_state = "ResetRequired"
  /\ sup = "open" => NoneUsed
  /\ sup = "top" /\ paths_state = "ReadyForOpen" => NoneUsed

LEMMA PathsAre == Len(Fifos) \in Nat \ {0} /\ Paths = 1..Len(Fifos) /\ 1 \in Paths
BY DEF Paths

LEMMA PathInitInv == PathInit => PathInv
BY PathsAre DEF PathInit, PathInv, PathTypeOK, NoneUsed

LEMMA RecreateKeeps ==
  ASSUME PathInv, Recreate
  PROVE  PathInv'
<1>1. /\ next \in Paths /\ fifo' = [fifo EXCEPT ![next] = "fresh"] /\ fifo' \in [Paths -> {"fresh", "used", "missing"}]
      /\ faults' = faults
  BY DEF PathInv, PathTypeOK, Recreate
<1>2. \A i \in Paths : i <= next => fifo'[i] # "used"
  BY <1>1, PathsAre DEF PathInv, PathTypeOK, Recreate
<1>3. CASE next = Len(Fifos)
  <2>1. NoneUsed' BY <1>2, <1>3, PathsAre DEF NoneUsed
  <2>2. /\ next' = 1
        /\ \/ sup' = "top" /\ paths_state' = "ReadyForOpen"
           \/ sup' = "open" /\ paths_state' = paths_state
    BY <1>3 DEF Recreate, AfterReset
  <2> QED BY <1>1, <2>1, <2>2, PathsAre DEF PathInv, PathTypeOK
<1>4. CASE next # Len(Fifos)
  <2>1. next' = next + 1 /\ next' \in Paths /\ UNCHANGED <<sup, paths_state>>
    BY <1>1, <1>4, PathsAre DEF Recreate
  <2>2. \A i \in Paths : i < next' => fifo'[i] # "used" BY <1>1, <1>2, <2>1, PathsAre
  <2> QED BY <1>1, <2>1, <2>2, PathsAre DEF PathInv, PathTypeOK, Recreate
<1> QED BY <1>3, <1>4

LEMMA RecreateFailsKeeps ==
  ASSUME PathInv, RecreateFails
  PROVE  PathInv'
<1>1. fifo' \in [Paths -> {"fresh", "used", "missing"}] /\ faults' \in 0..MaxFaults
  BY DEF PathInv, PathTypeOK, RecreateFails, Fault
<1>2. next' = 1 /\ sup' \in {"returned", "top"} /\ paths_state' = paths_state
  BY DEF RecreateFails
<1>3. sup' = "top" => paths_state = "ResetRequired" BY DEF PathInv, RecreateFails
<1> QED BY <1>1, <1>2, <1>3, PathsAre DEF PathInv, PathTypeOK

\* Opening happens in one state and leads to others.
LEMMA OpenKeeps ==
  ASSUME PathInv, OpenSucceeds \/ OpenFails \/ InitializeFails
  PROVE  PathInv'
<1>1. Opened \in [Paths -> {"fresh", "used", "missing"}] BY DEF PathInv, PathTypeOK, Opened
<1>2. /\ sup = "open" /\ fifo' = Opened /\ next' = next /\ faults' \in 0..MaxFaults
      /\ \/ sup' \in {"session", "returned"} /\ paths_state' = paths_state
         \/ sup' = "top" /\ paths_state' = "ResetRequired"
  BY DEF PathInv, PathTypeOK, OpenSucceeds, OpenFails, InitializeFails, Fault
<1> QED BY <1>1, <1>2 DEF PathInv, PathTypeOK

LEMMA RemoveKeeps ==
  ASSUME PathInv, NEW i \in Paths, Remove(i)
  PROVE  PathInv'
<1>1. fifo' \in [Paths -> {"fresh", "used", "missing"}] /\ faults' \in 0..MaxFaults
      /\ UNCHANGED <<sup, paths_state, next>>
  BY DEF PathInv, PathTypeOK, Remove, Fault
<1>2. \A j \in Paths : fifo'[j] = "used" => fifo[j] = "used"
  BY DEF PathInv, PathTypeOK, Remove
<1> QED BY <1>1, <1>2 DEF PathInv, PathTypeOK, NoneUsed

LEMMA PathStepInv == PathInv /\ [PathNext]_pathVars => PathInv'
<1> SUFFICES ASSUME PathInv, [PathNext]_pathVars PROVE PathInv'
  OBVIOUS
<1>1. CASE Begin BY <1>1 DEF Begin, PathInv, PathTypeOK, NoneUsed
<1>2. CASE SessionEnds \/ Pause \/ PauseFails
  BY <1>2, PathsAre DEF SessionEnds, Pause, PauseFails, Fault, PathInv, PathTypeOK, NoneUsed
<1>3. CASE UNCHANGED pathVars BY <1>3 DEF pathVars, PathInv, PathTypeOK, NoneUsed
<1> QED BY <1>1, <1>2, <1>3, RecreateKeeps, RecreateFailsKeeps, OpenKeeps, RemoveKeeps
        DEF PathNext, SupervisorStep

\* The inductive invariant: while the supervisor's main loop takes the paths for
\* prepared, no path leads to a used FIFO (open_fifo_connection, run).
THEOREM PathInvariance == PathSpec => []PathInv
BY PathInitInv, PathStepInv, PTL DEF PathSpec

\* The supervisor's state and the paths keep their types.
THEOREM PathTypeCorrect == PathSpec => []PathTypeOK
<1>1. PathInv => PathTypeOK BY DEF PathInv
<1> QED BY <1>1, PathInvariance, PTL

\* No connection opens a FIFO that an earlier one has opened, wherever the
\* recreation of the paths fails and whichever path is removed in between.
THEOREM OpensFreshAlways == PathSpec => []OpensFresh
<1>1. PathInv => OpensFresh BY DEF PathInv, OpensFresh, NoneUsed
<1> QED BY <1>1, PathInvariance, PTL

----------------------------------------------------------------------------
(* The connections to the control socket.                                  *)

\* How far the server is with the connection it serves.
Served ==
  server # "accept" =>
    /\ conn[serving] # "none"
    /\ Len(answers[serving]) = consumed[serving] - (IF server = "respond" THEN 1 ELSE 0)
    /\ server = "respond" => consumed[serving] > 0

\* A connection that waits has not been touched, and waits once.
Waiting ==
  /\ \A c \in Clients : conn[c] = "none" => consumed[c] = 0
  /\ \A i \in 1..Len(backlog) :
       conn[backlog[i]] # "none" /\ consumed[backlog[i]] = 0 /\ backlog[i] # serving
  /\ \A i, j \in 1..Len(backlog) : backlog[i] = backlog[j] => i = j

Paired(c) == \A i \in 1..Len(answers[c]) : answers[c][i] = Response(lines[c][i])

ConnInv == ConnTypeOK /\ Served /\ Waiting /\ \A c \in Clients : Paired(c)

LEMMA SeqFacts ==
  ASSUME NEW S, NEW s \in Seq(S)
  PROVE  /\ Len(s) \in Nat /\ DOMAIN s = 1..Len(s)
         /\ \A i \in 1..Len(s) : s[i] \in S
         /\ s # <<>> => /\ Len(s) > 0 /\ Head(s) = s[1] /\ Tail(s) \in Seq(S)
                        /\ Len(Tail(s)) = Len(s) - 1
                        /\ \A i \in 1..(Len(s) - 1) : Tail(s)[i] = s[i + 1]
         /\ \A x \in S : /\ Append(s, x) \in Seq(S)
                         /\ Len(Append(s, x)) = Len(s) + 1
                         /\ Append(s, x)[Len(s) + 1] = x
                         /\ \A i \in 1..Len(s) : Append(s, x)[i] = s[i]
OBVIOUS

LEMMA ConnInitInv == ConnInit => ConnInv
<1> SUFFICES ASSUME ConnInit PROVE ConnInv
  OBVIOUS
<1> USE DEF ConnInit
<1>e. \A S : <<>> \in Seq(S) /\ Len(<<>>) = 0 OBVIOUS
<1>1. ConnTypeOK
  <2>1. \A c \in Clients : Len(lines[c]) = 0 /\ Len(answers[c]) = 0 /\ consumed[c] = 0 BY <1>e
  <2>2. lines \in [Clients -> Seq(LineKinds)] /\ answers \in [Clients -> Seq({"ok", "error"})] BY <1>e
  <2> QED BY <1>e, <2>1, <2>2 DEF ConnTypeOK
<1>2. Served /\ Waiting BY <1>e DEF Served, Waiting
<1>3. \A c \in Clients : Paired(c)
  <2>1. \A c \in Clients : Len(answers[c]) = 0 BY <1>e
  <2> QED BY <2>1 DEF Paired
<1> QED BY <1>1, <1>2, <1>3 DEF ConnInv

LEMMA ConnectKeeps ==
  ASSUME ConnInv, NEW c \in Clients, Connect(c)
  PROVE  ConnInv'
<1>1. ConnTypeOK /\ Served /\ Waiting BY DEF ConnInv
<1>2. backlog \in Seq(Clients) /\ Len(backlog) \in Nat BY <1>1, SeqFacts DEF ConnTypeOK
<1>3. /\ backlog' \in Seq(Clients) /\ Len(backlog') = Len(backlog) + 1
      /\ backlog'[Len(backlog) + 1] = c /\ \A i \in 1..Len(backlog) : backlog'[i] = backlog[i]
  BY <1>2, SeqFacts DEF Connect
<1>4. /\ conn[c] = "none" /\ consumed[c] = 0 /\ serving # c
      /\ \A i \in 1..Len(backlog) : backlog[i] # c
  BY <1>1 DEF Connect, Waiting, Served, ConnTypeOK
<1>5. ConnTypeOK' BY <1>1, <1>3 DEF Connect, ConnTypeOK
<1>6. Served' BY <1>1, <1>4 DEF Connect, Served, ConnTypeOK
<1>7. Waiting'
  <2>1. \A i \in 1..Len(backlog') : i \in 1..Len(backlog) \/ i = Len(backlog) + 1 BY <1>2, <1>3
  <2>2. \A i \in 1..Len(backlog) : backlog[i] \in Clients BY <1>2, SeqFacts
  <2>3. \A i \in 1..Len(backlog') :
          conn'[backlog'[i]] # "none" /\ consumed'[backlog'[i]] = 0 /\ backlog'[i] # serving'
    BY <1>1, <1>3, <1>4, <2>1, <2>2 DEF Connect, Waiting, ConnTypeOK
  <2>4. \A i, j \in 1..Len(backlog') : backlog'[i] = backlog'[j] => i = j
    BY <1>1, <1>3, <1>4, <2>1 DEF Waiting
  <2>5. \A d \in Clients : conn'[d] = "none" => consumed'[d] = 0
    BY <1>1 DEF Connect, Waiting, ConnTypeOK
  <2> QED BY <2>3, <2>4, <2>5 DEF Waiting
<1>8. \A d \in Clients : Paired(d)' BY DEF ConnInv, Connect, Paired
<1> QED BY <1>5, <1>6, <1>7, <1>8 DEF ConnInv

\* Lines are only added behind those that are there.
LEMMA SendKeeps ==
  ASSUME ConnInv, NEW c \in Clients, SendLine(c)
  PROVE  ConnInv'
<1>1. ConnTypeOK /\ Served /\ Waiting BY DEF ConnInv
<1>2. PICK kind \in LineKinds : lines' = [lines EXCEPT ![c] = Append(@, kind)] BY DEF SendLine
<1>3. lines[c] \in Seq(LineKinds) /\ Len(lines[c]) < MaxLines BY <1>1 DEF ConnTypeOK, SendLine
<1>4. /\ lines'[c] \in Seq(LineKinds) /\ Len(lines'[c]) = Len(lines[c]) + 1 /\ Len(lines[c]) \in Nat
      /\ \A i \in 1..Len(lines[c]) : lines'[c][i] = lines[c][i]
      /\ \A d \in Clients : d # c => lines'[d] = lines[d]
  BY <1>1, <1>2, <1>3, SeqFacts DEF ConnTypeOK
<1>5. ConnTypeOK'
  <2>1. lines' \in [Clients -> Seq(LineKinds)] BY <1>1, <1>2, <1>4 DEF ConnTypeOK
  <2>2. \A d \in Clients : Len(lines'[d]) <= MaxLines /\ consumed[d] <= Len(lines'[d])
    <3> TAKE d \in Clients
    <3>1. Len(lines[d]) <= MaxLines /\ consumed[d] <= Len(lines[d]) /\ consumed[d] \in 0..MaxLines
      BY <1>1 DEF ConnTypeOK
    <3>2. Len(lines'[c]) <= MaxLines BY <1>3, <1>4
    <3> QED BY <1>4, <3>1, <3>2
  <2> QED BY <1>1, <2>1, <2>2 DEF SendLine, ConnTypeOK
<1>6. Served' /\ Waiting' BY <1>1 DEF SendLine, Served, Waiting
<1>7. ASSUME NEW d \in Clients PROVE Paired(d)'
  <2>1. Paired(d) /\ answers'[d] = answers[d] BY DEF ConnInv, SendLine
  <2>2. CASE d # c BY <1>4, <2>1, <2>2 DEF Paired
  <2>3. CASE d = c
    <3>1. Len(answers[c]) \in Nat /\ Len(answers[c]) <= Len(lines[c])
      BY <1>1, SeqFacts DEF ConnTypeOK
    <3>2. \A i \in 1..Len(answers[c]) : lines'[c][i] = lines[c][i] BY <1>4, <3>1
    <3> QED BY <2>1, <2>3, <3>2 DEF Paired
  <2> QED BY <2>2, <2>3
<1> QED BY <1>5, <1>6, <1>7 DEF ConnInv

LEMMA HangUpKeeps ==
  ASSUME ConnInv, NEW c \in Clients, HangUp(c)
  PROVE  ConnInv'
<1>1. /\ conn' \in [Clients -> {"none", "open", "closed"}]
      /\ \A d \in Clients : conn'[d] = "none" <=> conn[d] = "none"
      /\ UNCHANGED <<lines, consumed, answers, backlog, server, serving>>
  BY DEF ConnInv, ConnTypeOK, HangUp
<1>2. ConnTypeOK' BY <1>1 DEF ConnInv, ConnTypeOK
<1>3. Served' BY <1>1 DEF ConnInv, ConnTypeOK, Served
<1>4. Waiting'
  <2>1. \A i \in 1..Len(backlog) : backlog[i] \in Clients BY SeqFacts DEF ConnInv, ConnTypeOK
  <2> QED BY <1>1, <2>1 DEF ConnInv, Waiting
<1>5. \A d \in Clients : Paired(d)' BY <1>1 DEF ConnInv, Paired
<1> QED BY <1>2, <1>3, <1>4, <1>5 DEF ConnInv

LEMMA AcceptKeeps ==
  ASSUME ConnInv, Accept
  PROVE  ConnInv'
<1>1. ConnTypeOK /\ Waiting BY DEF ConnInv
<1>2. /\ Len(backlog) \in Nat /\ Len(backlog) > 0 /\ serving' = backlog[1] /\ serving' \in Clients
      /\ backlog' \in Seq(Clients) /\ Len(backlog') = Len(backlog) - 1
      /\ \A i \in 1..(Len(backlog) - 1) : backlog'[i] = backlog[i + 1]
      /\ \A i \in 1..Len(backlog) : backlog[i] \in Clients
  <2>1. backlog \in Seq(Clients) /\ backlog # <<>> BY <1>1 DEF Accept, ConnTypeOK
  <2>2. serving' = Head(backlog) /\ backlog' = Tail(backlog) BY DEF Accept
  <2> QED BY <2>1, <2>2, SeqFacts
<1>3. server' = "read" /\ UNCHANGED <<conn, lines, consumed, answers>> BY DEF Accept
<1>4. ConnTypeOK' BY <1>1, <1>2, <1>3 DEF ConnTypeOK
<1>5. Served'
  <2>1. 1 \in 1..Len(backlog) BY <1>2
  <2>2. conn[serving'] # "none" /\ consumed[serving'] = 0 BY <1>1, <1>2, <2>1 DEF Waiting
  <2>3. Len(answers[serving']) = 0 BY <1>1, <1>2, <2>2, SeqFacts DEF ConnTypeOK
  <2> QED BY <1>3, <2>2, <2>3 DEF Served
<1>6. Waiting'
  <2>1. \A i \in 1..Len(backlog') : i + 1 \in 1..Len(backlog) /\ backlog'[i] = backlog[i + 1] /\ i + 1 # 1
    BY <1>2
  <2>2. \A i \in 1..Len(backlog') : backlog'[i] # serving' BY <1>1, <1>2, <2>1 DEF Waiting
  <2>3. \A i, j \in 1..Len(backlog') : backlog'[i] = backlog'[j] => i = j
    <3> TAKE i, j \in 1..Len(backlog')
    <3>1. i + 1 = j + 1 => i = j OBVIOUS
    <3> QED BY <1>1, <2>1, <3>1 DEF Waiting
  <2> QED BY <1>1, <1>3, <2>1, <2>2, <2>3 DEF Waiting
<1>7. \A d \in Clients : Paired(d)' BY <1>3 DEF ConnInv, Paired
<1> QED BY <1>4, <1>5, <1>6, <1>7 DEF ConnInv

LEMMA ReadLineKeeps ==
  ASSUME ConnInv, ReadLine
  PROVE  ConnInv'
<1>1. ConnTypeOK /\ Served /\ Waiting BY DEF ConnInv
<1>2. serving \in Clients /\ server = "read" BY <1>1 DEF ReadLine, ConnTypeOK
<1>3. Len(lines[serving]) \in Nat /\ Len(lines[serving]) <= MaxLines /\ consumed[serving] \in 0..MaxLines
  BY <1>1, <1>2, SeqFacts DEF ConnTypeOK
<1>4. /\ consumed[serving] + 1 \in 0..MaxLines /\ consumed[serving] + 1 <= Len(lines[serving])
      /\ consumed' = [consumed EXCEPT ![serving] = @ + 1]
      /\ server' = "respond" /\ UNCHANGED <<conn, lines, answers, backlog, serving>>
  BY <1>3 DEF ReadLine
<1>5. ConnTypeOK'
  <2>1. consumed' \in [Clients -> 0..MaxLines] BY <1>1, <1>4 DEF ConnTypeOK
  <2>2. Len(answers[serving]) <= consumed'[serving] BY <1>1, <1>2, <1>3, <1>4 DEF Served, ConnTypeOK
  <2>3. \A d \in Clients : Len(answers[d]) <= consumed'[d] /\ consumed'[d] <= Len(lines[d])
    BY <1>1, <1>2, <1>4, <2>2 DEF ConnTypeOK
  <2> QED BY <1>1, <1>2, <1>4, <2>1, <2>3 DEF ConnTypeOK
<1>6. Served'
  <2>1. consumed'[serving] = consumed[serving] + 1 BY <1>1, <1>2, <1>4 DEF ConnTypeOK
  <2> QED BY <1>1, <1>2, <1>3, <1>4, <2>1 DEF Served
<1>7. Waiting'
  <2>1. \A d \in Clients : d # serving => consumed'[d] = consumed[d] BY <1>1, <1>4 DEF ConnTypeOK
  <2>2. \A i \in 1..Len(backlog) : backlog[i] \in Clients BY <1>1, SeqFacts DEF ConnTypeOK
  <2>3. conn[serving] # "none" BY <1>1, <1>2 DEF Served
  <2> QED BY <1>1, <1>4, <2>1, <2>2, <2>3 DEF Waiting
<1>8. \A d \in Clients : Paired(d)' BY <1>4 DEF ConnInv, Paired
<1> QED BY <1>5, <1>6, <1>7, <1>8 DEF ConnInv

LEMMA RespondKeeps ==
  ASSUME ConnInv, Respond
  PROVE  ConnInv'
<1> DEFINE s == serving
<1> DEFINE r == Response(lines[s][consumed[s]])
<1>1. ConnTypeOK /\ Served /\ Waiting /\ Paired(s) BY DEF ConnInv, Respond, ConnTypeOK
<1>2. s \in Clients /\ server = "respond" BY <1>1 DEF Respond, ConnTypeOK
<1>3. r \in {"ok", "error"} BY DEF Response
<1>4. answers[s] \in Seq({"ok", "error"}) /\ consumed[s] \in 0..MaxLines /\ Len(answers[s]) = consumed[s] - 1
  BY <1>1, <1>2 DEF ConnTypeOK, Served
<1>5. /\ server' = "read" /\ answers' = [answers EXCEPT ![s] = Append(answers[s], r)]
      /\ UNCHANGED <<conn, lines, consumed, backlog, serving>>
  BY DEF Respond
<1>6. /\ answers'[s] \in Seq({"ok", "error"}) /\ Len(answers'[s]) = consumed[s]
      /\ answers'[s][consumed[s]] = r /\ \A i \in 1..(consumed[s] - 1) : answers'[s][i] = answers[s][i]
      /\ \A d \in Clients : d # s => answers'[d] = answers[d]
  <2>1. answers'[s] = Append(answers[s], r) /\ \A d \in Clients : d # s => answers'[d] = answers[d]
    BY <1>1, <1>2, <1>5 DEF ConnTypeOK
  <2> QED BY <1>3, <1>4, <2>1, SeqFacts
<1>7. ConnTypeOK'
  <2>1. answers' \in [Clients -> Seq({"ok", "error"})] BY <1>1, <1>5, <1>6 DEF ConnTypeOK
  <2>2. \A d \in Clients : Len(answers'[d]) <= consumed[d]
    <3> TAKE d \in Clients
    <3>1. Len(answers[d]) <= consumed[d] BY <1>1 DEF ConnTypeOK
    <3>2. Len(answers'[s]) <= consumed[s] BY <1>4, <1>6
    <3> QED BY <1>6, <3>1, <3>2
  <2> QED BY <1>1, <1>2, <1>5, <2>1, <2>2 DEF ConnTypeOK
<1>8. Served' BY <1>1, <1>2, <1>4, <1>5, <1>6 DEF Served
<1>9. Waiting' BY <1>1, <1>5 DEF Waiting
<1>10. ASSUME NEW d \in Clients PROVE Paired(d)'
  <2>1. CASE d = s
    <3>1. \A i \in 1..(consumed[s] - 1) : answers[s][i] = Response(lines[s][i])
      BY <1>1, <1>4 DEF Paired
    <3>2. \A i \in 1..consumed[s] : i = consumed[s] \/ i \in 1..(consumed[s] - 1) BY <1>4
    <3>3. \A i \in 1..consumed[s] : answers'[s][i] = Response(lines[s][i]) BY <1>6, <3>1, <3>2
    <3> QED BY <1>5, <1>6, <2>1, <3>3 DEF Paired, Response
  <2>2. CASE d # s BY <1>5, <1>6, <2>2 DEF ConnInv, Paired, Response
  <2> QED BY <2>1, <2>2
<1> QED BY <1>7, <1>8, <1>9, <1>10 DEF ConnInv

\* The server leaves the connection.
LEMMA LeaveKeeps ==
  ASSUME ConnInv, EndOfLines \/ WriteFails
  PROVE  ConnInv'
<1>1. server' = "accept" /\ serving' = None /\ UNCHANGED <<conn, lines, consumed, answers, backlog>>
  BY DEF EndOfLines, WriteFails
<1>2. ConnTypeOK' BY <1>1 DEF ConnInv, ConnTypeOK
<1>3. Served' BY <1>1 DEF Served
<1>4. Waiting'
  <2>1. \A i \in 1..Len(backlog) : backlog[i] \in Clients BY SeqFacts DEF ConnInv, ConnTypeOK
  <2> QED BY <1>1, <2>1 DEF ConnInv, Waiting
<1>5. \A d \in Clients : Paired(d)' BY <1>1 DEF ConnInv, Paired
<1> QED BY <1>2, <1>3, <1>4, <1>5 DEF ConnInv

LEMMA ConnStepInv == ConnInv /\ [ConnNext]_connVars => ConnInv'
<1> SUFFICES ASSUME ConnInv, [ConnNext]_connVars PROVE ConnInv'
  OBVIOUS
<1>1. CASE UNCHANGED connVars
  BY <1>1 DEF connVars, ConnInv, ConnTypeOK, Served, Waiting, Paired
<1> QED BY <1>1, ConnectKeeps, SendKeeps, HangUpKeeps, AcceptKeeps, ReadLineKeeps, RespondKeeps, LeaveKeeps
        DEF ConnNext, ServerStep

\* The inductive invariant: on every connection the answers so far are those of the
\* lines handle_client has read, one for each, and one is owed only while it serves.
THEOREM ConnInvariance == ConnSpec => []ConnInv
BY ConnInitInv, ConnStepInv, PTL DEF ConnSpec

\* The connections keep their types: never more answers than lines read, nor
\* more lines read than sent.
THEOREM ConnTypeCorrect == ConnSpec => []ConnTypeOK
<1>1. ConnInv => ConnTypeOK BY DEF ConnInv
<1> QED BY <1>1, ConnInvariance, PTL

\* The n-th response answers the n-th line, on every connection.
THEOREM AnswersPairedAlways == ConnSpec => []AnswersPaired
<1>1. ASSUME ConnInv PROVE AnswersPaired
  <2>1. \A c \in Clients : DOMAIN answers[c] = 1..Len(answers[c])
    BY <1>1, SeqFacts DEF ConnInv, ConnTypeOK
  <2> QED BY <1>1, <2>1 DEF ConnInv, Paired, AnswersPaired
<1> QED BY <1>1, ConnInvariance, PTL
=============================================================================
