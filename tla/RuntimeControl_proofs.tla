----------------------- MODULE RuntimeControl_proofs -----------------------
(***************************************************************************)
(* Proofs about RuntimeControl, for any clients, players and requests.     *)
(***************************************************************************)
EXTENDS RuntimeControl, TLAPS

\* Where the request being served is: only while the server waits can it be
\* outside the server, and then it is in one place.
InQueue(p) == queue[p] = <<serving[p]>> /\ held[p] = None /\ reply[p] = "none"
InHand(p) == queue[p] = <<>> /\ held[p] = serving[p] /\ reply[p] = "none"
Answered(p) == queue[p] = <<>> /\ held[p] = None /\ reply[p] # "none"
Nowhere(p) == queue[p] = <<>> /\ held[p] = None /\ reply[p] = "none"

Turn(p) ==
  /\ server[p] \in {"accept", "dead"} <=> serving[p] = None
  /\ server[p] \in {"accept", "admit", "send", "dead"} => Nowhere(p)
  /\ server[p] = "respond" => Answered(p)
  /\ server[p] = "wait" => InQueue(p) \/ InHand(p) \/ Answered(p)

\* The main thread holds a request exactly in the three states that answer one.
Hand(p) == held[p] # None <=> main[p] \in {"begin", "discarding", "finishing"}

ServingPause(p) == serving[p] # None /\ Command(serving[p]) = "pause"

\* A Pause travels with the flag up and never towards a recalibration; its
\* answer finds the main thread where the Pause has put it.
Pausing(p) ==
  /\ main[p] \in Recalibrating => flag[p]
  /\ flag[p] => main[p] \in Recalibrating \cup {"failing", "exiting", "dead"} \/ PauseOnItsWay(p)
  /\ ServingPause(p) /\ (server[p] = "send" \/ queue[p] # <<>>) =>
       /\ main[p] \notin Recalibrating
       /\ flag[p] \/ main[p] \in {"failing", "exiting"}
  /\ ServingPause(p) /\ held[p] # None => main[p] = "begin"
  /\ ServingPause(p) /\ server[p] = "wait" /\ reply[p] = "error" => main[p] \in {"failing", "exiting"}
  /\ ServingPause(p) /\ server[p] = "wait" /\ reply[p] = "ok" => main[p] = "await_sync"

PlayerInv(p) == Turn(p) /\ Hand(p) /\ Pausing(p)

IInv == TypeOK /\ \A p \in Players : PlayerInv(p)

USE RequestsAssumption, NoneAssumption

\* A process whose threads and channels a step leaves alone keeps its part.
LEMMA Frame ==
  ASSUME NEW q \in Players, PlayerInv(q),
         server'[q] = server[q], serving'[q] = serving[q], flag'[q] = flag[q],
         queue'[q] = queue[q], reply'[q] = reply[q], main'[q] = main[q], held'[q] = held[q]
  PROVE  PlayerInv(q)'
BY DEF PlayerInv, Turn, InQueue, InHand, Answered, Nowhere, Hand, ServingPause, Pausing, PauseOnItsWay

LEMMA Singleton ==
  ASSUME NEW x PROVE Head(<<x>>) = x /\ Tail(<<x>>) = <<>> /\ <<x>> # <<>> /\ Append(<<>>, x) = <<x>>
OBVIOUS

LEMMA SeqTypes ==
  ASSUME NEW S, NEW s \in Seq(S)
  PROVE  /\ \A x \in S : Append(s, x) \in Seq(S)
         /\ s # <<>> => Head(s) \in S /\ Tail(s) \in Seq(S)
OBVIOUS

\* What the main thread pops is the request the server waits for.
LEMMA Popped ==
  ASSUME TypeOK, NEW p \in Players, Turn(p), queue[p] # <<>>
  PROVE  /\ server[p] = "wait" /\ InQueue(p) /\ serving[p] \in Requests
         /\ Head(queue[p]) = serving[p] /\ Tail(queue[p]) = <<>>
<1>1. server[p] = "wait" BY DEF TypeOK, Turn, ServerStates, Nowhere, Answered
<1>2. InQueue(p) BY <1>1 DEF Turn, InQueue, InHand, Answered
<1>3. serving[p] \in Requests BY <1>1 DEF Turn, TypeOK
<1> QED BY <1>1, <1>2, <1>3, Singleton DEF InQueue

LEMMA ReceiveTypes ==
  ASSUME TypeOK, NEW p \in Players, Turn(p), NEW from, NEW expected, NEW to \in MainStates,
         Receive(p, from, expected, to)
  PROVE  TypeOK'
<1> USE DEF clientVars, serverVars, channelVars, mainVars
<1>q. Head(queue[p]) \in Requests /\ Tail(queue[p]) \in Seq(Requests)
  BY Popped, SeqTypes DEF Receive, TypeOK
<1>1. queue' \in [Players -> Seq(Requests)] BY <1>q DEF Receive, TypeOK
<1>2. main' \in [Players -> MainStates] BY DEF Receive, TypeOK, MainStates
<1>3. held' \in [Players -> Requests \cup {None}]
  BY <1>q DEF Receive, TypeOK, Answer
<1>4. reply' \in [Players -> {"none", "ok", "error"}] BY DEF Receive, TypeOK, Answer
<1> QED BY <1>1, <1>2, <1>3, <1>4 DEF Receive, TypeOK

\* Connections and outcomes are not read by the invariant beyond their types.
LEMMA ClientKeeps ==
  ASSUME IInv, NEW r \in Requests, Submit(r) \/ GiveUp(r)
  PROVE  IInv'
<1>1. TypeOK'
  <2>1. CASE Submit(r)
    <3>1. Target(r) \in Players BY DEF Target
    <3>2. Append(backlog[Target(r)], r) \in Seq(Requests) BY <3>1, SeqTypes DEF IInv, TypeOK
    <3> QED BY <2>1, <3>1, <3>2 DEF Submit, IInv, TypeOK, Outcomes, serverVars, channelVars, mainVars
  <2>2. CASE GiveUp(r)
    BY <2>2 DEF GiveUp, IInv, TypeOK, Outcomes, serverVars, channelVars, mainVars
  <2> QED BY <2>1, <2>2
<1>2. \A q \in Players : PlayerInv(q)'
  BY Frame DEF Submit, GiveUp, IInv, serverVars, channelVars, mainVars
<1> QED BY <1>1, <1>2 DEF IInv

\* The server thread preserves the invariant.
LEMMA ServerKeeps ==
  ASSUME IInv, NEW p \in Players, ServerStep(p)
  PROVE  IInv'
<1> USE DEF Serve, Refuse, Go, Answer, Tell, clientVars, serverVars, channelVars, mainVars,
            InQueue, InHand, Answered, Nowhere, ServingPause, PauseOnItsWay, Recalibrating
<1>i. TypeOK /\ Turn(p) /\ Hand(p) /\ Pausing(p) BY DEF IInv, PlayerInv
<1>1. CASE Accept(p)
  <2>1. TypeOK' BY SeqTypes, <1>i, <1>1 DEF Accept, TypeOK, Turn, Outcomes, ServerStates, MainStates
  <2>2. Turn(p)' BY SeqTypes, <1>i, <1>1 DEF Accept, TypeOK, Turn, Hand
  <2>3. Hand(p)' BY SeqTypes, <1>i, <1>1 DEF Accept, TypeOK, Turn, Hand
  <2>4. Pausing(p)' BY SeqTypes, <1>i, <1>1 DEF Accept, TypeOK, Turn, Hand, Pausing
  <2>5. ASSUME NEW q \in Players, q # p PROVE PlayerInv(q)'
    BY <2>5, <1>i, <1>1, Frame DEF Accept, TypeOK, IInv
  <2> QED BY <2>1, <2>2, <2>3, <2>4, <2>5 DEF IInv, PlayerInv
<1>2. CASE AdmitPause(p)
  <2>1. TypeOK' BY <1>i, <1>2 DEF AdmitPause, TypeOK, Outcomes, ServerStates, MainStates
  <2>2. Turn(p)' BY <1>i, <1>2 DEF AdmitPause, TypeOK, Turn, Hand
  <2>3. Hand(p)' BY <1>i, <1>2 DEF AdmitPause, TypeOK, Turn, Hand
  <2>4. Pausing(p)' BY <1>i, <1>2 DEF AdmitPause, TypeOK, Turn, Hand, Pausing
  <2>5. ASSUME NEW q \in Players, q # p PROVE PlayerInv(q)'
    BY <2>5, <1>i, <1>2, Frame DEF AdmitPause, TypeOK, IInv
  <2> QED BY <2>1, <2>2, <2>3, <2>4, <2>5 DEF IInv, PlayerInv
<1>3. CASE AdmitStep(p)
  <2>1. TypeOK' BY <1>i, <1>3 DEF AdmitStep, TypeOK, Outcomes, ServerStates, MainStates
  <2>2. Turn(p)' BY <1>i, <1>3 DEF AdmitStep, TypeOK, Turn, Hand
  <2>3. Hand(p)' BY <1>i, <1>3 DEF AdmitStep, TypeOK, Turn, Hand
  <2>4. Pausing(p)' BY <1>i, <1>3 DEF AdmitStep, TypeOK, Turn, Hand, Pausing
  <2>5. ASSUME NEW q \in Players, q # p PROVE PlayerInv(q)'
    BY <2>5, <1>i, <1>3, Frame DEF AdmitStep, TypeOK, IInv
  <2> QED BY <2>1, <2>2, <2>3, <2>4, <2>5 DEF IInv, PlayerInv
<1>4. CASE AdmitAttack(p)
  <2>1. TypeOK' BY <1>i, <1>4 DEF AdmitAttack, TypeOK, Outcomes, ServerStates, MainStates
  <2>2. Turn(p)' BY <1>i, <1>4 DEF AdmitAttack, TypeOK, Turn, Hand
  <2>3. Hand(p)' BY <1>i, <1>4 DEF AdmitAttack, TypeOK, Turn, Hand
  <2>4. Pausing(p)' BY <1>i, <1>4 DEF AdmitAttack, TypeOK, Turn, Hand, Pausing
  <2>5. ASSUME NEW q \in Players, q # p PROVE PlayerInv(q)'
    BY <2>5, <1>i, <1>4, Frame DEF AdmitAttack, TypeOK, IInv
  <2> QED BY <2>1, <2>2, <2>3, <2>4, <2>5 DEF IInv, PlayerInv
<1>5. CASE Enqueue(p)
  <2>1. TypeOK' BY Singleton, SeqTypes, <1>i, <1>5 DEF Enqueue, TypeOK, Turn, Outcomes, ServerStates, MainStates
  <2>2. Turn(p)' BY Singleton, SeqTypes, <1>i, <1>5 DEF Enqueue, TypeOK, Turn, Hand
  <2>3. Hand(p)' BY Singleton, SeqTypes, <1>i, <1>5 DEF Enqueue, TypeOK, Turn, Hand
  <2>4. Pausing(p)' BY Singleton, SeqTypes, <1>i, <1>5 DEF Enqueue, TypeOK, Turn, Hand, Pausing
  <2>5. ASSUME NEW q \in Players, q # p PROVE PlayerInv(q)'
    BY <2>5, <1>i, <1>5, Frame DEF Enqueue, TypeOK, IInv
  <2> QED BY <2>1, <2>2, <2>3, <2>4, <2>5 DEF IInv, PlayerInv
<1>6. CASE Collect(p)
  <2>1. TypeOK' BY <1>i, <1>6 DEF Collect, TypeOK, Outcomes, ServerStates, MainStates
  <2>2. Turn(p)' BY <1>i, <1>6 DEF Collect, TypeOK, Turn, Hand
  <2>3. Hand(p)' BY <1>i, <1>6 DEF Collect, TypeOK, Turn, Hand
  <2>4. Pausing(p)' BY <1>i, <1>6 DEF Collect, TypeOK, Turn, Hand, Pausing
  <2>5. ASSUME NEW q \in Players, q # p PROVE PlayerInv(q)'
    BY <2>5, <1>i, <1>6, Frame DEF Collect, TypeOK, IInv
  <2> QED BY <2>1, <2>2, <2>3, <2>4, <2>5 DEF IInv, PlayerInv
<1>7. CASE Respond(p)
  <2>1. TypeOK' BY <1>i, <1>7 DEF Respond, TypeOK, Turn, Outcomes, ServerStates, MainStates
  <2>2. Turn(p)' BY <1>i, <1>7 DEF Respond, TypeOK, Turn, Hand
  <2>3. Hand(p)' BY <1>i, <1>7 DEF Respond, TypeOK, Turn, Hand
  <2>4. Pausing(p)' BY <1>i, <1>7 DEF Respond, TypeOK, Turn, Hand, Pausing
  <2>5. ASSUME NEW q \in Players, q # p PROVE PlayerInv(q)'
    BY <2>5, <1>i, <1>7, Frame DEF Respond, TypeOK, IInv
  <2> QED BY <2>1, <2>2, <2>3, <2>4, <2>5 DEF IInv, PlayerInv
<1> QED BY <1>1, <1>2, <1>3, <1>4, <1>5, <1>6, <1>7 DEF ServerStep

\* The main thread preserves the invariant.
LEMMA MainKeeps ==
  ASSUME IInv, NEW p \in Players, MainStep(p) \/ OpenSession(p) \/ LeaveSession(p)
  PROVE  IInv'
<1> USE DEF Serve, Refuse, Go, Answer, Tell, clientVars, serverVars, channelVars, mainVars,
            InQueue, InHand, Answered, Nowhere, ServingPause, PauseOnItsWay, Recalibrating
<1>i. TypeOK /\ Turn(p) /\ Hand(p) /\ Pausing(p) BY DEF IInv, PlayerInv
<1>1. CASE TakePause(p)
  <2>q. InQueue(p) /\ server[p] = "wait" /\ serving[p] \in Requests /\ queue[p] # <<>>
        /\ Head(queue[p]) = serving[p] /\ Tail(queue[p]) = <<>>
    BY <1>i, <1>1, Popped DEF TakePause
  <2>1. TypeOK' BY <2>q, <1>i, <1>1 DEF TakePause, TypeOK, Outcomes, ServerStates, MainStates
  <2>2. Turn(p)' BY <2>q, <1>i, <1>1 DEF TakePause, TypeOK, Turn, Hand
  <2>3. Hand(p)' BY <2>q, <1>i, <1>1 DEF TakePause, TypeOK, Turn, Hand
  <2>4. Pausing(p)' BY <2>q, <1>i, <1>1 DEF TakePause, TypeOK, Turn, Hand, Pausing
  <2>5. ASSUME NEW q \in Players, q # p PROVE PlayerInv(q)'
    BY <2>5, <1>i, <1>1, Frame DEF TakePause, TypeOK, IInv
  <2> QED BY <2>1, <2>2, <2>3, <2>4, <2>5 DEF IInv, PlayerInv
<1>2. CASE RefuseStray(p)
  <2>q. InQueue(p) /\ server[p] = "wait" /\ serving[p] \in Requests /\ queue[p] # <<>>
        /\ Head(queue[p]) = serving[p] /\ Tail(queue[p]) = <<>>
    BY <1>i, <1>2, Popped DEF RefuseStray
  <2>1. TypeOK' BY <2>q, <1>i, <1>2 DEF RefuseStray, TypeOK, Outcomes, ServerStates, MainStates
  <2>2. Turn(p)' BY <2>q, <1>i, <1>2 DEF RefuseStray, TypeOK, Turn, Hand
  <2>3. Hand(p)' BY <2>q, <1>i, <1>2 DEF RefuseStray, TypeOK, Turn, Hand
  <2>4. Pausing(p)' BY <2>q, <1>i, <1>2 DEF RefuseStray, TypeOK, Turn, Hand, Pausing
  <2>5. ASSUME NEW q \in Players, q # p PROVE PlayerInv(q)'
    BY <2>5, <1>i, <1>2, Frame DEF RefuseStray, TypeOK, IInv
  <2> QED BY <2>1, <2>2, <2>3, <2>4, <2>5 DEF IInv, PlayerInv
<1>3. CASE Begin(p)
  <2>1. TypeOK' BY <1>i, <1>3 DEF Begin, TypeOK, Outcomes, ServerStates, MainStates
  <2>2. Turn(p)' BY <1>i, <1>3 DEF Begin, TypeOK, Turn, Hand
  <2>3. Hand(p)' BY <1>i, <1>3 DEF Begin, TypeOK, Turn, Hand
  <2>4. Pausing(p)' BY <1>i, <1>3 DEF Begin, TypeOK, Turn, Hand, Pausing
  <2>5. ASSUME NEW q \in Players, q # p PROVE PlayerInv(q)'
    BY <2>5, <1>i, <1>3, Frame DEF Begin, TypeOK, IInv
  <2> QED BY <2>1, <2>2, <2>3, <2>4, <2>5 DEF IInv, PlayerInv
<1>4. CASE ReceiveSynchronize(p)
  <2>q. InQueue(p) /\ server[p] = "wait" /\ serving[p] \in Requests /\ queue[p] # <<>>
        /\ Head(queue[p]) = serving[p] /\ Tail(queue[p]) = <<>>
    BY <1>i, <1>4, Popped DEF ReceiveSynchronize, Receive
  <2>1. TypeOK' BY <1>i, <1>4, ReceiveTypes DEF ReceiveSynchronize, MainStates
  <2>2. Turn(p)' BY <2>q, <1>i, <1>4 DEF ReceiveSynchronize, Receive, TypeOK, Turn, Hand
  <2>3. Hand(p)' BY <2>q, <1>i, <1>4 DEF ReceiveSynchronize, Receive, TypeOK, Turn, Hand
  <2>4. Pausing(p)' BY <2>q, <1>i, <1>4 DEF ReceiveSynchronize, Receive, TypeOK, Turn, Hand, Pausing
  <2>5. ASSUME NEW q \in Players, q # p PROVE PlayerInv(q)'
    BY <2>5, <1>i, <1>4, Frame DEF ReceiveSynchronize, Receive, TypeOK, IInv
  <2> QED BY <2>1, <2>2, <2>3, <2>4, <2>5 DEF IInv, PlayerInv
<1>5. CASE Discarded(p)
  <2>1. TypeOK' BY <1>i, <1>5 DEF Discarded, TypeOK, Outcomes, ServerStates, MainStates
  <2>2. Turn(p)' BY <1>i, <1>5 DEF Discarded, TypeOK, Turn, Hand
  <2>3. Hand(p)' BY <1>i, <1>5 DEF Discarded, TypeOK, Turn, Hand
  <2>4. Pausing(p)' BY <1>i, <1>5 DEF Discarded, TypeOK, Turn, Hand, Pausing
  <2>5. ASSUME NEW q \in Players, q # p PROVE PlayerInv(q)'
    BY <2>5, <1>i, <1>5, Frame DEF Discarded, TypeOK, IInv
  <2> QED BY <2>1, <2>2, <2>3, <2>4, <2>5 DEF IInv, PlayerInv
<1>6. CASE DiscardFailed(p)
  <2>1. TypeOK' BY <1>i, <1>6 DEF DiscardFailed, TypeOK, Outcomes, ServerStates, MainStates
  <2>2. Turn(p)' BY <1>i, <1>6 DEF DiscardFailed, TypeOK, Turn, Hand
  <2>3. Hand(p)' BY <1>i, <1>6 DEF DiscardFailed, TypeOK, Turn, Hand
  <2>4. Pausing(p)' BY <1>i, <1>6 DEF DiscardFailed, TypeOK, Turn, Hand, Pausing
  <2>5. ASSUME NEW q \in Players, q # p PROVE PlayerInv(q)'
    BY <2>5, <1>i, <1>6, Frame DEF DiscardFailed, TypeOK, IInv
  <2> QED BY <2>1, <2>2, <2>3, <2>4, <2>5 DEF IInv, PlayerInv
<1>7. CASE ReceiveResume(p)
  <2>q. InQueue(p) /\ server[p] = "wait" /\ serving[p] \in Requests /\ queue[p] # <<>>
        /\ Head(queue[p]) = serving[p] /\ Tail(queue[p]) = <<>>
    BY <1>i, <1>7, Popped DEF ReceiveResume, Receive
  <2>1. TypeOK' BY <1>i, <1>7, ReceiveTypes DEF ReceiveResume, MainStates
  <2>2. Turn(p)' BY <2>q, <1>i, <1>7 DEF ReceiveResume, Receive, TypeOK, Turn, Hand
  <2>3. Hand(p)' BY <2>q, <1>i, <1>7 DEF ReceiveResume, Receive, TypeOK, Turn, Hand
  <2>4. Pausing(p)' BY <2>q, <1>i, <1>7 DEF ReceiveResume, Receive, TypeOK, Turn, Hand, Pausing
  <2>5. ASSUME NEW q \in Players, q # p PROVE PlayerInv(q)'
    BY <2>5, <1>i, <1>7, Frame DEF ReceiveResume, Receive, TypeOK, IInv
  <2> QED BY <2>1, <2>2, <2>3, <2>4, <2>5 DEF IInv, PlayerInv
<1>8. CASE Finish(p)
  <2>1. TypeOK' BY <1>i, <1>8 DEF Finish, TypeOK, Outcomes, ServerStates, MainStates
  <2>2. Turn(p)' BY <1>i, <1>8 DEF Finish, TypeOK, Turn, Hand
  <2>3. Hand(p)' BY <1>i, <1>8 DEF Finish, TypeOK, Turn, Hand
  <2>4. Pausing(p)' BY <1>i, <1>8 DEF Finish, TypeOK, Turn, Hand, Pausing
  <2>5. ASSUME NEW q \in Players, q # p PROVE PlayerInv(q)'
    BY <2>5, <1>i, <1>8, Frame DEF Finish, TypeOK, IInv
  <2> QED BY <2>1, <2>2, <2>3, <2>4, <2>5 DEF IInv, PlayerInv
<1>9. CASE Complete(p)
  <2>1. TypeOK' BY <1>i, <1>9 DEF Complete, TypeOK, Outcomes, ServerStates, MainStates
  <2>2. Turn(p)' BY <1>i, <1>9 DEF Complete, TypeOK, Turn, Hand
  <2>3. Hand(p)' BY <1>i, <1>9 DEF Complete, TypeOK, Turn, Hand
  <2>4. Pausing(p)' BY <1>i, <1>9 DEF Complete, TypeOK, Turn, Hand, Pausing
  <2>5. ASSUME NEW q \in Players, q # p PROVE PlayerInv(q)'
    BY <2>5, <1>i, <1>9, Frame DEF Complete, TypeOK, IInv
  <2> QED BY <2>1, <2>2, <2>3, <2>4, <2>5 DEF IInv, PlayerInv
<1>10. CASE Die(p)
  <2>1. TypeOK' BY <1>i, <1>10 DEF Die, TypeOK, Outcomes, ServerStates, MainStates
  <2>2. Turn(p)' BY <1>i, <1>10 DEF Die, TypeOK, Turn, Hand
  <2>3. Hand(p)' BY <1>i, <1>10 DEF Die, TypeOK, Turn, Hand
  <2>4. Pausing(p)' BY <1>i, <1>10 DEF Die, TypeOK, Turn, Hand, Pausing
  <2>5. ASSUME NEW q \in Players, q # p PROVE PlayerInv(q)'
    BY <2>5, <1>i, <1>10, Frame DEF Die, TypeOK, IInv
  <2> QED BY <2>1, <2>2, <2>3, <2>4, <2>5 DEF IInv, PlayerInv
<1>11. CASE OpenSession(p)
  <2>1. TypeOK' BY <1>i, <1>11 DEF OpenSession, TypeOK, Outcomes, ServerStates, MainStates
  <2>2. Turn(p)' BY <1>i, <1>11 DEF OpenSession, TypeOK, Turn, Hand
  <2>3. Hand(p)' BY <1>i, <1>11 DEF OpenSession, TypeOK, Turn, Hand
  <2>4. Pausing(p)' BY <1>i, <1>11 DEF OpenSession, TypeOK, Turn, Hand, Pausing
  <2>5. ASSUME NEW q \in Players, q # p PROVE PlayerInv(q)'
    BY <2>5, <1>i, <1>11, Frame DEF OpenSession, TypeOK, IInv
  <2> QED BY <2>1, <2>2, <2>3, <2>4, <2>5 DEF IInv, PlayerInv
<1>12. CASE LeaveSession(p)
  <2>1. TypeOK' BY <1>i, <1>12 DEF LeaveSession, TypeOK, Outcomes, ServerStates, MainStates
  <2>2. Turn(p)' BY <1>i, <1>12 DEF LeaveSession, TypeOK, Turn, Hand
  <2>3. Hand(p)' BY <1>i, <1>12 DEF LeaveSession, TypeOK, Turn, Hand
  <2>4. Pausing(p)' BY <1>i, <1>12 DEF LeaveSession, TypeOK, Turn, Hand, Pausing
  <2>5. ASSUME NEW q \in Players, q # p PROVE PlayerInv(q)'
    BY <2>5, <1>i, <1>12, Frame DEF LeaveSession, TypeOK, IInv
  <2> QED BY <2>1, <2>2, <2>3, <2>4, <2>5 DEF IInv, PlayerInv
<1> QED BY <1>1, <1>2, <1>3, <1>4, <1>5, <1>6, <1>7, <1>8, <1>9, <1>10, <1>11, <1>12 DEF MainStep, RecalibrationStep

----------------------------------------------------------------------------
LEMMA InitKeeps == Init => IInv
BY DEF Init, IInv, TypeOK, PlayerInv, Turn, Nowhere, Hand, Pausing, ServingPause, PauseOnItsWay,
       Outcomes, ServerStates, MainStates, Recalibrating

\* A stutter changes nothing the invariant reads.
LEMMA StutterKeeps == ASSUME IInv, UNCHANGED controlVars PROVE IInv'
<1> USE DEF controlVars, clientVars, serverVars, channelVars, mainVars
<1>1. TypeOK' BY DEF IInv, TypeOK
<1>2. \A p \in Players : PlayerInv(p)' BY Frame DEF IInv
<1> QED BY <1>1, <1>2 DEF IInv

\* The inductive invariant holds in every state of every behaviour.
THEOREM Invariant == Spec => []IInv
<1>1. IInv /\ [Next]_controlVars => IInv'
  <2> SUFFICES ASSUME IInv, [Next]_controlVars PROVE IInv' OBVIOUS
  <2>1. CASE UNCHANGED controlVars BY <2>1, StutterKeeps
  <2>2. CASE Next BY <2>2, ClientKeeps, ServerKeeps, MainKeeps DEF Next, ClientStep
  <2> QED BY <2>1, <2>2
<1> QED BY <1>1, InitKeeps, PTL DEF Spec

\* The variables of RuntimeControl keep their types.
THEOREM TypeCorrect == Spec => []TypeOK
<1>1. IInv => TypeOK BY DEF IInv
<1> QED BY <1>1, Invariant, PTL

\* The server and the main thread never wait on each other: a forwarded command
\* is always in exactly one place, and nothing is outstanding otherwise.
THEOREM NoMutualWait == Spec => []OneOutstanding
<1>1. IInv => OneOutstanding
  <2> SUFFICES ASSUME IInv, NEW p \in Players
               PROVE  LET inQueue == IF queue[p] = <<>> THEN 0 ELSE 1
                          inHand == IF held[p] = None THEN 0 ELSE 1
                          answered == IF reply[p] = "none" THEN 0 ELSE 1
                      IN  /\ server[p] = "wait" =>
                               /\ inQueue + inHand + answered = 1
                               /\ queue[p] \in {<<>>, <<serving[p]>>}
                               /\ held[p] \in {None, serving[p]}
                          /\ server[p] # "wait" => inQueue + inHand = 0
    BY DEF OneOutstanding
  <2>1. TypeOK /\ Turn(p) BY DEF IInv, PlayerInv
  <2>2. CASE server[p] = "wait"
    <3>1. serving[p] # None BY <2>1, <2>2 DEF Turn
    <3>2. CASE InQueue(p) BY <2>2, <3>1, <3>2, Singleton DEF InQueue
    <3>3. CASE InHand(p) BY <2>2, <3>1, <3>3 DEF InHand
    <3>4. CASE Answered(p) BY <2>2, <3>4 DEF Answered
    <3> QED BY <2>1, <2>2, <3>2, <3>3, <3>4 DEF Turn
  <2>3. CASE server[p] # "wait"
    BY <2>1, <2>3 DEF TypeOK, Turn, Answered, Nowhere, ServerStates
  <2> QED BY <2>2, <2>3
<1> QED BY <1>1, Invariant, PTL

\* pause_in_progress is up during every recalibration and is never leaked.
THEOREM FlagCorrect == Spec => []FlagMatchesPause
<1>1. IInv => FlagMatchesPause BY DEF IInv, PlayerInv, Pausing, FlagMatchesPause
<1> QED BY <1>1, Invariant, PTL

\* No second Pause reaches a simulator that is recalibrating.
THEOREM PausesExclude == Spec => []NoPauseWhileRecalibrating
<1>1. IInv => NoPauseWhileRecalibrating
  <2> SUFFICES ASSUME IInv, NEW p \in Players, main[p] \in Recalibrating
               PROVE  /\ \A i \in DOMAIN queue[p] : Command(queue[p][i]) # "pause"
                      /\ ~(server[p] = "send" /\ Command(serving[p]) = "pause")
    BY DEF NoPauseWhileRecalibrating
  <2>1. TypeOK /\ Turn(p) /\ Pausing(p) BY DEF IInv, PlayerInv
  <2>2. queue[p] \in {<<>>, <<serving[p]>>} /\ (server[p] = "send" \/ queue[p] # <<>> => serving[p] # None)
    BY <2>1 DEF TypeOK, Turn, InQueue, InHand, Answered, Nowhere, ServerStates
  <2> QED BY <2>1, <2>2 DEF Pausing, ServingPause
<1> QED BY <1>1, Invariant, PTL

----------------------------------------------------------------------------
(* "ok" means done: what clients have been told, in order.                 *)

\* The connections to p that have not been served, and the request in service,
\* are of different requests to p, and none of them has been answered.
Unanswered(r) == outcome[r] \in {"sent", "timeout"}

Lined(p) ==
  /\ \A i \in 1..Len(backlog[p]) :
       Target(backlog[p][i]) = p /\ Unanswered(backlog[p][i]) /\ backlog[p][i] # serving[p]
  /\ \A i, j \in 1..Len(backlog[p]) : backlog[p][i] = backlog[p][j] => i = j
  /\ serving[p] # None => Target(serving[p]) = p /\ Unanswered(serving[p])

\* A client of p knows that its command is done, or has left before it was.
Told(p, cmd) ==
  \E s \in Requests : Target(s) = p /\ Command(s) = cmd /\ outcome[s] \in {"ok", "timeout"}

\* The server has the "ok" for a command, and the client has still to read it.
BeingTold(p, cmd) ==
  /\ serving[p] # None /\ Command(serving[p]) = cmd
  /\ server[p] \in {"wait", "respond"} /\ reply[p] = "ok"

\* The main thread comes as far as the commands that have been answered.
Order(p) ==
  /\ main[p] = "begin" => Command(held[p]) = "pause"
  /\ main[p] = "discarding" => Command(held[p]) = "synchronize"
  /\ main[p] = "finishing" => Command(held[p]) = "resume"
  /\ main[p] = "await_sync" => Told(p, "pause") \/ BeingTold(p, "pause")
  /\ main[p] \in {"discarding", "await_resume", "finishing"} => Told(p, "pause")
  /\ main[p] = "await_resume" => Told(p, "synchronize") \/ BeingTold(p, "synchronize")
  /\ main[p] = "finishing" => Told(p, "synchronize")
  /\ BeingTold(p, "resume") => Told(p, "pause") /\ Told(p, "synchronize")

OrderInv == IInv /\ (\A p \in Players : Lined(p) /\ Order(p)) /\ OkInOrder

LEMMA OkMeansTold ==
  OkInOrder <=> \A r \in Requests : Command(r) = "resume" /\ outcome[r] = "ok" =>
                  Told(Target(r), "pause") /\ Told(Target(r), "synchronize")
BY DEF OkInOrder, Told

LEMMA BacklogFacts ==
  ASSUME TypeOK, NEW p \in Players
  PROVE  /\ backlog[p] \in Seq(Requests) /\ Len(backlog[p]) \in Nat
         /\ \A i \in 1..Len(backlog[p]) : backlog[p][i] \in Requests
         /\ backlog[p] # <<>> =>
              /\ Head(backlog[p]) = backlog[p][1] /\ 1 \in 1..Len(backlog[p])
              /\ Len(Tail(backlog[p])) = Len(backlog[p]) - 1
              /\ \A i \in 1..Len(Tail(backlog[p])) :
                   Tail(backlog[p])[i] = backlog[p][i + 1] /\ i + 1 \in 2..Len(backlog[p])
         /\ \A r : /\ Len(Append(backlog[p], r)) = Len(backlog[p]) + 1
                   /\ Append(backlog[p], r)[Len(backlog[p]) + 1] = r
                   /\ \A i \in 1..Len(backlog[p]) : Append(backlog[p], r)[i] = backlog[p][i]
<1>1. backlog[p] \in Seq(Requests) BY DEF TypeOK
<1> QED BY <1>1

\* Nothing a client knows of a request to q changes but that it may give up.
Steady(q) ==
  \A s \in Requests : Target(s) = q =>
    outcome'[s] = outcome[s] \/ (outcome[s] = "sent" /\ outcome'[s] = "timeout")

LEMMA ToldStays ==
  ASSUME NEW p \in Players, NEW cmd, Told(p, cmd),
         \A s \in Requests : Target(s) = p /\ outcome[s] \in {"ok", "timeout"} => outcome'[s] = outcome[s]
  PROVE  Told(p, cmd)'
BY DEF Told

LEMMA LinedFrame ==
  ASSUME TypeOK, NEW q \in Players, Lined(q), Steady(q),
         serving'[q] = serving[q], backlog'[q] = backlog[q]
  PROVE  Lined(q)'
<1>1. \A s \in Requests : Target(s) = q /\ Unanswered(s) => Unanswered(s)' BY DEF Steady, Unanswered
<1>2. serving[q] \in Requests \cup {None} BY DEF TypeOK
<1> QED BY <1>1, <1>2, BacklogFacts DEF Lined

LEMMA OrderFrame ==
  ASSUME TypeOK, NEW q \in Players, Lined(q), Order(q), Steady(q),
         server'[q] = server[q], serving'[q] = serving[q], backlog'[q] = backlog[q],
         reply'[q] = reply[q], main'[q] = main[q], held'[q] = held[q]
  PROVE  Lined(q)' /\ Order(q)'
<1>1. Lined(q)' BY LinedFrame
<1>2. \A cmd : Told(q, cmd) => Told(q, cmd)' BY ToldStays DEF Steady
<1>3. \A cmd : BeingTold(q, cmd)' <=> BeingTold(q, cmd) BY DEF BeingTold
<1> QED BY <1>1, <1>2, <1>3 DEF Order

\* A step that tells no client "ok" leaves OkInOrder alone.
LEMMA NothingToldKeeps ==
  ASSUME OkInOrder, \A s \in Requests : outcome[s] \in {"ok", "timeout"} => outcome'[s] = outcome[s],
         \A s \in Requests : outcome'[s] = "ok" => outcome[s] = "ok"
  PROVE  OkInOrder'
BY OkMeansTold, ToldStays DEF Told, OkInOrder

LEMMA OrderClientKeeps ==
  ASSUME OrderInv, NEW r \in Requests, Submit(r) \/ GiveUp(r)
  PROVE  OrderInv'
<1>1. IInv' BY ClientKeeps DEF OrderInv
<1>2. TypeOK /\ outcome \in [Requests -> Outcomes] BY DEF OrderInv, IInv, TypeOK
<1>3. UNCHANGED <<server, serving, flag, queue, reply, main, held>>
  BY DEF Submit, GiveUp, serverVars, channelVars, mainVars
<1>4. CASE GiveUp(r)
  <2>1. \A s \in Requests : outcome'[s] = outcome[s] \/ (outcome[s] = "sent" /\ outcome'[s] = "timeout")
    BY <1>2, <1>4 DEF GiveUp
  <2>2. \A q \in Players : Lined(q)' /\ Order(q)'
    BY <1>2, <1>3, <1>4, <2>1, OrderFrame DEF GiveUp, OrderInv, Steady
  <2>3. OkInOrder' BY <2>1, NothingToldKeeps DEF OrderInv
  <2> QED BY <1>1, <2>2, <2>3 DEF OrderInv
<1>5. CASE Submit(r)
  <2> DEFINE p == Target(r)
  <2>1. /\ p \in Players /\ outcome[r] = "unsent" /\ outcome'[r] # "ok"
        /\ \A s \in Requests : s # r => outcome'[s] = outcome[s]
        /\ \/ backlog' = backlog
           \/ outcome'[r] = "sent" /\ backlog' = [backlog EXCEPT ![p] = Append(@, r)]
    BY <1>2, <1>5 DEF Submit, Target
  <2>2. \A q \in Players : q # p => Steady(q) /\ backlog'[q] = backlog[q]
    BY <1>2, <2>1 DEF Steady, TypeOK
  <2>3. \A s \in Requests : outcome[s] \in {"ok", "timeout"} => outcome'[s] = outcome[s]
    BY <2>1
  <2>4. \A s \in Requests : Unanswered(s) => Unanswered(s)' /\ s # r BY <2>1 DEF Unanswered
  <2>5. Lined(p) /\ Order(p) BY <2>1 DEF OrderInv
  <2>6. serving[p] \in Requests \cup {None} BY <1>2, <2>1 DEF TypeOK
  <2>7. Lined(p)'
    <3>1. CASE backlog' = backlog
      BY <1>2, <1>3, <2>1, <2>4, <2>5, <2>6, <3>1, BacklogFacts DEF Lined
    <3>2. CASE outcome'[r] = "sent" /\ backlog' = [backlog EXCEPT ![p] = Append(@, r)]
      <4>1. /\ Len(backlog[p]) \in Nat /\ backlog'[p] = Append(backlog[p], r)
            /\ Len(backlog'[p]) = Len(backlog[p]) + 1 /\ backlog'[p][Len(backlog[p]) + 1] = r
            /\ \A i \in 1..Len(backlog[p]) : backlog'[p][i] = backlog[p][i] /\ backlog[p][i] \in Requests
        BY <1>2, <2>1, <3>2, BacklogFacts DEF TypeOK
      <4>2. \A i \in 1..Len(backlog'[p]) : i \in 1..Len(backlog[p]) \/ i = Len(backlog[p]) + 1
        BY <4>1
      <4>3. \A i \in 1..Len(backlog[p]) : backlog[p][i] # r BY <2>4, <2>5, <4>1 DEF Lined
      <4>4. serving[p] # r BY <2>4, <2>5, <2>6, NoneAssumption DEF Lined
      <4>5. serving[p] # None => Target(serving[p]) = p /\ Unanswered(serving[p])'
        BY <1>3, <2>4, <2>5, <2>6 DEF Lined, Unanswered
      <4>6. \A i \in 1..Len(backlog'[p]) :
              Target(backlog'[p][i]) = p /\ Unanswered(backlog[p][i])' /\ backlog'[p][i] # serving[p]
        <5> TAKE i \in 1..Len(backlog'[p])
        <5>1. CASE i \in 1..Len(backlog[p]) BY <2>4, <2>5, <4>1, <5>1 DEF Lined, Unanswered
        <5>2. CASE i = Len(backlog[p]) + 1 BY <3>2, <4>1, <4>4, <5>2 DEF Unanswered
        <5> QED BY <4>2, <5>1, <5>2
      <4>7. \A i, j \in 1..Len(backlog'[p]) : backlog'[p][i] = backlog'[p][j] => i = j
        BY <2>5, <4>1, <4>2, <4>3 DEF Lined
      <4> QED BY <1>3, <4>5, <4>6, <4>7 DEF Lined
    <3> QED BY <2>1, <3>1, <3>2
  <2>8. Order(p)'
    <3>1. \A cmd : Told(p, cmd) => Told(p, cmd)' BY <2>1, <2>3, ToldStays
    <3>2. \A cmd : BeingTold(p, cmd)' <=> BeingTold(p, cmd) BY <1>3 DEF BeingTold
    <3> QED BY <1>3, <2>5, <3>1, <3>2 DEF Order
  <2>9. OkInOrder'
    <3>1. \A s \in Requests : outcome'[s] = "ok" => outcome[s] = "ok" BY <2>1
    <3> QED BY <2>3, <3>1, NothingToldKeeps DEF OrderInv
  <2>10. ASSUME NEW q \in Players, q # p PROVE Lined(q)' /\ Order(q)'
    BY <1>2, <1>3, <2>2, <2>10, OrderFrame DEF OrderInv
  <2> QED BY <1>1, <2>7, <2>8, <2>9, <2>10 DEF OrderInv
<1> QED BY <1>4, <1>5

\* Between accepting a connection and answering on it, a step of p reads and
\* writes what only p has, and no client learns anything.
LEMMA QuietKeeps ==
  ASSUME OrderInv, IInv', NEW p \in Players, outcome' = outcome, backlog' = backlog, serving' = serving,
         \A q \in Players : q # p =>
           server'[q] = server[q] /\ reply'[q] = reply[q] /\ main'[q] = main[q] /\ held'[q] = held[q],
         (\A cmd : Told(p, cmd)' <=> Told(p, cmd)) => Order(p)'
  PROVE  OrderInv'
<1>1. TypeOK BY DEF OrderInv, IInv
<1>2. \A q \in Players : Steady(q) BY DEF Steady
<1>3. \A cmd : Told(p, cmd)' <=> Told(p, cmd) BY DEF Told
<1>4. Lined(p)' BY <1>1, <1>2, LinedFrame DEF OrderInv
<1>5. ASSUME NEW q \in Players, q # p PROVE Lined(q)' /\ Order(q)'
  BY <1>1, <1>2, <1>5, OrderFrame DEF OrderInv
<1>6. OkInOrder' BY NothingToldKeeps DEF OrderInv
<1> QED BY <1>3, <1>4, <1>5, <1>6 DEF OrderInv

LEMMA OrderServerKeeps ==
  ASSUME OrderInv, NEW p \in Players, ServerStep(p)
  PROVE  OrderInv'
<1> USE DEF Serve, Refuse, Go, Answer, clientVars, serverVars, channelVars, mainVars
<1>i. TypeOK /\ Turn(p) /\ Hand(p) /\ Lined(p) /\ Order(p) BY DEF OrderInv, IInv, PlayerInv
<1>k. IInv' BY ServerKeeps DEF OrderInv
<1>1. CASE AdmitPause(p)
  <2>1. /\ outcome' = outcome /\ backlog' = backlog /\ serving' = serving
        /\ \A q \in Players : q # p =>
             server'[q] = server[q] /\ reply'[q] = reply[q] /\ main'[q] = main[q] /\ held'[q] = held[q]
    BY <1>i, <1>1 DEF AdmitPause, TypeOK
  <2>2. \A cmd : Told(p, cmd)' <=> Told(p, cmd) BY <2>1 DEF Told
  <2>3. Order(p)'
    BY <1>i, <1>1, <2>2 DEF AdmitPause, TypeOK, Turn, Hand, Order, BeingTold, InQueue, InHand, Answered, Nowhere, ServerStates
  <2> QED BY <1>k, <2>1, <2>3, QuietKeeps
<1>2. CASE AdmitStep(p)
  <2>1. /\ outcome' = outcome /\ backlog' = backlog /\ serving' = serving
        /\ \A q \in Players : q # p =>
             server'[q] = server[q] /\ reply'[q] = reply[q] /\ main'[q] = main[q] /\ held'[q] = held[q]
    BY <1>i, <1>2 DEF AdmitStep, TypeOK
  <2>2. \A cmd : Told(p, cmd)' <=> Told(p, cmd) BY <2>1 DEF Told
  <2>3. Order(p)'
    BY <1>i, <1>2, <2>2 DEF AdmitStep, TypeOK, Turn, Hand, Order, BeingTold, InQueue, InHand, Answered, Nowhere, ServerStates
  <2> QED BY <1>k, <2>1, <2>3, QuietKeeps
<1>3. CASE AdmitAttack(p)
  <2>1. /\ outcome' = outcome /\ backlog' = backlog /\ serving' = serving
        /\ \A q \in Players : q # p =>
             server'[q] = server[q] /\ reply'[q] = reply[q] /\ main'[q] = main[q] /\ held'[q] = held[q]
    BY <1>i, <1>3 DEF AdmitAttack, TypeOK
  <2>2. \A cmd : Told(p, cmd)' <=> Told(p, cmd) BY <2>1 DEF Told
  <2>3. Order(p)'
    BY <1>i, <1>3, <2>2 DEF AdmitAttack, TypeOK, Turn, Hand, Order, BeingTold, InQueue, InHand, Answered, Nowhere, ServerStates
  <2> QED BY <1>k, <2>1, <2>3, QuietKeeps
<1>4. CASE Enqueue(p)
  <2>1. /\ outcome' = outcome /\ backlog' = backlog /\ serving' = serving
        /\ \A q \in Players : q # p =>
             server'[q] = server[q] /\ reply'[q] = reply[q] /\ main'[q] = main[q] /\ held'[q] = held[q]
    BY <1>i, <1>4 DEF Enqueue, TypeOK
  <2>2. \A cmd : Told(p, cmd)' <=> Told(p, cmd) BY <2>1 DEF Told
  <2>3. Order(p)'
    BY <1>i, <1>4, <2>2 DEF Enqueue, TypeOK, Turn, Hand, Order, BeingTold, InQueue, InHand, Answered, Nowhere, ServerStates
  <2> QED BY <1>k, <2>1, <2>3, QuietKeeps
<1>5. CASE Collect(p)
  <2>1. /\ outcome' = outcome /\ backlog' = backlog /\ serving' = serving
        /\ \A q \in Players : q # p =>
             server'[q] = server[q] /\ reply'[q] = reply[q] /\ main'[q] = main[q] /\ held'[q] = held[q]
    BY <1>i, <1>5 DEF Collect, TypeOK
  <2>2. \A cmd : Told(p, cmd)' <=> Told(p, cmd) BY <2>1 DEF Told
  <2>3. Order(p)'
    BY <1>i, <1>5, <2>2 DEF Collect, TypeOK, Turn, Hand, Order, BeingTold, InQueue, InHand, Answered, Nowhere, ServerStates
  <2> QED BY <1>k, <2>1, <2>3, QuietKeeps
<1>6. CASE Accept(p)
  <2>1. /\ outcome' = outcome /\ UNCHANGED <<reply, main, held, flag, queue>>
        /\ server' = [server EXCEPT ![p] = "admit"] /\ server[p] = "accept" /\ backlog[p] # <<>>
        /\ serving' = [serving EXCEPT ![p] = backlog[p][1]]
        /\ backlog' = [backlog EXCEPT ![p] = Tail(@)]
    BY <1>i, <1>6, BacklogFacts DEF Accept
  <2>2. /\ serving'[p] = backlog[p][1] /\ server'[p] = "admit" /\ backlog'[p] = Tail(backlog[p])
        /\ \A q \in Players : q # p =>
             server'[q] = server[q] /\ serving'[q] = serving[q] /\ backlog'[q] = backlog[q]
    BY <1>i, <2>1 DEF TypeOK
  <2>3. Lined(p)'
    <3>1. /\ 1 \in 1..Len(backlog[p])
          /\ \A i \in 1..Len(backlog'[p]) : backlog'[p][i] = backlog[p][i + 1] /\ i + 1 \in 2..Len(backlog[p])
      <4>1. backlog[p] # <<>> BY <2>1
      <4>2. \A i \in 1..Len(Tail(backlog[p])) :
              Tail(backlog[p])[i] = backlog[p][i + 1] /\ i + 1 \in 2..Len(backlog[p])
        BY <1>i, <4>1, BacklogFacts
      <4> QED BY <1>i, <2>2, <4>1, <4>2, BacklogFacts
    <3>2. \A i \in 1..Len(backlog'[p]) : i + 1 \in 1..Len(backlog[p]) /\ i + 1 # 1 /\ i \in Nat BY <3>1
    <3>3. \A i, j \in 1..Len(backlog'[p]) : i + 1 = j + 1 => i = j BY <3>2
    <3>4. \A i, j \in 1..Len(backlog[p]) : backlog[p][i] = backlog[p][j] => i = j BY <1>i DEF Lined
    <3>5. \A i, j \in 1..Len(backlog'[p]) : backlog'[p][i] = backlog'[p][j] => i = j
      BY <3>1, <3>2, <3>3, <3>4
    <3>6. \A i \in 1..Len(backlog'[p]) : backlog'[p][i] # serving'[p]
      BY <2>2, <3>1, <3>2, <3>4
    <3>7. \A i \in 1..Len(backlog[p]) : Target(backlog[p][i]) = p /\ Unanswered(backlog[p][i])
      BY <1>i DEF Lined
    <3>8. \A i \in 1..Len(backlog'[p]) :
            Target(backlog'[p][i]) = p /\ Unanswered(backlog'[p][i])
      BY <3>1, <3>2, <3>7
    <3>9. Target(serving'[p]) = p /\ Unanswered(serving'[p]) BY <2>2, <3>1, <3>7
    <3> QED BY <2>1, <3>5, <3>6, <3>8, <3>9 DEF Lined, Unanswered
  <2>4. \A cmd : Told(p, cmd)' <=> Told(p, cmd) BY <2>1 DEF Told
  <2>5. Order(p)' BY <1>i, <2>1, <2>2, <2>4 DEF Order, BeingTold
  <2>6. ASSUME NEW q \in Players, q # p PROVE Lined(q)' /\ Order(q)'
    BY <1>i, <2>1, <2>2, <2>6, OrderFrame DEF OrderInv, Steady
  <2>7. OkInOrder' BY <2>1, NothingToldKeeps DEF OrderInv
  <2> QED BY <1>k, <2>3, <2>5, <2>6, <2>7 DEF OrderInv
<1>7. CASE Respond(p)
  <2> DEFINE r == serving[p]
  <2>1. /\ UNCHANGED <<backlog, flag, queue, main, held>> /\ server[p] = "respond"
        /\ server' = [server EXCEPT ![p] = "accept"] /\ serving' = [serving EXCEPT ![p] = None]
        /\ reply' = [reply EXCEPT ![p] = "none"]
        /\ outcome' = [s \in Requests |-> IF s = r /\ outcome[s] = "sent" THEN reply[p] ELSE outcome[s]]
    BY <1>7 DEF Respond, Tell
  <2>2. /\ r \in Requests /\ r # None /\ Target(r) = p /\ Unanswered(r) /\ reply[p] \in {"ok", "error"}
        /\ Answered(p)
    BY <1>i, <2>1 DEF Turn, Lined, TypeOK, Answered
  <2>3. \A s \in Requests : outcome[s] \in {"ok", "timeout"} => outcome'[s] = outcome[s] BY <2>1
  <2>4. \A s \in Requests : s # r => outcome'[s] = outcome[s] BY <2>1
  <2>5. \A q \in Players : \A cmd : Told(q, cmd) => Told(q, cmd)' BY <2>3, ToldStays
  <2>6. \A cmd : BeingTold(p, cmd) => Told(p, cmd)'
    <3>1. reply[p] = "ok" => outcome'[r] \in {"ok", "timeout"} BY <2>1, <2>2 DEF Unanswered
    <3> QED BY <2>2, <3>1 DEF BeingTold, Told
  <2>7. Lined(p)'
    <3>1. \A i \in 1..Len(backlog[p]) : backlog[p][i] \in Requests /\ backlog[p][i] # r
      BY <1>i, BacklogFacts DEF Lined
    <3>2. \A i \in 1..Len(backlog[p]) : backlog[p][i] # None BY <3>1
    <3>3. serving'[p] = None /\ backlog' = backlog BY <1>i, <2>1 DEF TypeOK
    <3> QED BY <1>i, <2>4, <3>1, <3>2, <3>3 DEF Lined, Unanswered
  <2>8. Order(p)'
    <3>1. \A cmd : ~BeingTold(p, cmd)' BY <1>i, <2>1 DEF BeingTold, TypeOK
    <3> QED BY <1>i, <2>1, <2>5, <2>6, <3>1 DEF Order
  <2>9. ASSUME NEW q \in Players, q # p PROVE Lined(q)' /\ Order(q)'
    <3>1. Steady(q) BY <2>2, <2>4, <2>9 DEF Steady
    <3>2. server'[q] = server[q] /\ serving'[q] = serving[q] /\ reply'[q] = reply[q]
      BY <1>i, <2>1, <2>9 DEF TypeOK
    <3> QED BY <1>i, <2>1, <3>1, <3>2, OrderFrame DEF OrderInv
  <2>10. OkInOrder'
    <3> SUFFICES ASSUME NEW s \in Requests, Command(s) = "resume", outcome'[s] = "ok"
                 PROVE  Told(Target(s), "pause")' /\ Told(Target(s), "synchronize")'
      <4>1. OkInOrder' <=> \A x \in Requests : Command(x) = "resume" /\ outcome'[x] = "ok" =>
                             Told(Target(x), "pause")' /\ Told(Target(x), "synchronize")'
        BY DEF OkInOrder, Told
      <4> QED BY <4>1
    <3>1. Target(s) \in Players BY DEF Target
    <3>2. CASE outcome[s] = "ok" BY <2>5, <3>1, <3>2, OkMeansTold DEF OrderInv
    <3>3. CASE outcome[s] # "ok"
      <4>1. s = r /\ reply[p] = "ok" BY <2>1, <3>3
      <4>2. BeingTold(p, "resume") BY <2>1, <2>2, <4>1 DEF BeingTold
      <4> QED BY <1>i, <2>2, <2>5, <4>1, <4>2 DEF Order
    <3> QED BY <3>2, <3>3
  <2> QED BY <1>k, <2>7, <2>8, <2>9, <2>10 DEF OrderInv
<1> QED BY <1>1, <1>2, <1>3, <1>4, <1>5, <1>6, <1>7 DEF ServerStep

LEMMA OrderMainKeeps ==
  ASSUME OrderInv, NEW p \in Players, MainStep(p) \/ OpenSession(p) \/ LeaveSession(p)
  PROVE  OrderInv'
<1> USE DEF Serve, Refuse, Go, Answer, clientVars, serverVars, channelVars, mainVars
<1>i. TypeOK /\ Turn(p) /\ Hand(p) /\ Lined(p) /\ Order(p) BY DEF OrderInv, IInv, PlayerInv
<1>k. IInv' BY MainKeeps DEF OrderInv
<1>1. CASE TakePause(p)
  <2>q. InQueue(p) /\ Head(queue[p]) = serving[p]
    BY <1>i, <1>1, Popped DEF TakePause
  <2>1. /\ outcome' = outcome /\ backlog' = backlog /\ serving' = serving
        /\ \A q \in Players : q # p =>
             server'[q] = server[q] /\ reply'[q] = reply[q] /\ main'[q] = main[q] /\ held'[q] = held[q]
    BY <1>i, <1>1 DEF TakePause, TypeOK
  <2>2. \A cmd : Told(p, cmd)' <=> Told(p, cmd) BY <2>1 DEF Told
  <2>3. Order(p)'
    BY <2>q, <1>i, <1>1, <2>2 DEF TakePause, TypeOK, Turn, Hand, Order, BeingTold, InQueue, InHand, Answered, Nowhere, ServerStates
  <2> QED BY <1>k, <2>1, <2>3, QuietKeeps
<1>2. CASE RefuseStray(p)
  <2>q. InQueue(p) /\ Head(queue[p]) = serving[p]
    BY <1>i, <1>2, Popped DEF RefuseStray
  <2>1. /\ outcome' = outcome /\ backlog' = backlog /\ serving' = serving
        /\ \A q \in Players : q # p =>
             server'[q] = server[q] /\ reply'[q] = reply[q] /\ main'[q] = main[q] /\ held'[q] = held[q]
    BY <1>i, <1>2 DEF RefuseStray, TypeOK
  <2>2. \A cmd : Told(p, cmd)' <=> Told(p, cmd) BY <2>1 DEF Told
  <2>3. Order(p)'
    BY <2>q, <1>i, <1>2, <2>2 DEF RefuseStray, TypeOK, Turn, Hand, Order, BeingTold, InQueue, InHand, Answered, Nowhere, ServerStates
  <2> QED BY <1>k, <2>1, <2>3, QuietKeeps
<1>3. CASE Begin(p)
  <2>1. /\ outcome' = outcome /\ backlog' = backlog /\ serving' = serving
        /\ \A q \in Players : q # p =>
             server'[q] = server[q] /\ reply'[q] = reply[q] /\ main'[q] = main[q] /\ held'[q] = held[q]
    BY <1>i, <1>3 DEF Begin, TypeOK
  <2>2. \A cmd : Told(p, cmd)' <=> Told(p, cmd) BY <2>1 DEF Told
  <2>3. Order(p)'
    BY <1>i, <1>3, <2>2 DEF Begin, TypeOK, Turn, Hand, Order, BeingTold, InQueue, InHand, Answered, Nowhere, ServerStates
  <2> QED BY <1>k, <2>1, <2>3, QuietKeeps
<1>4. CASE ReceiveSynchronize(p)
  <2>q. InQueue(p) /\ Head(queue[p]) = serving[p]
    BY <1>i, <1>4, Popped DEF ReceiveSynchronize, Receive
  <2>1. /\ outcome' = outcome /\ backlog' = backlog /\ serving' = serving
        /\ \A q \in Players : q # p =>
             server'[q] = server[q] /\ reply'[q] = reply[q] /\ main'[q] = main[q] /\ held'[q] = held[q]
    BY <1>i, <1>4 DEF ReceiveSynchronize, Receive, TypeOK
  <2>2. \A cmd : Told(p, cmd)' <=> Told(p, cmd) BY <2>1 DEF Told
  <2>3. Order(p)'
    BY <2>q, <1>i, <1>4, <2>2 DEF ReceiveSynchronize, Receive, TypeOK, Turn, Hand, Order, BeingTold, InQueue, InHand, Answered, Nowhere, ServerStates
  <2> QED BY <1>k, <2>1, <2>3, QuietKeeps
<1>5. CASE Discarded(p)
  <2>1. /\ outcome' = outcome /\ backlog' = backlog /\ serving' = serving
        /\ \A q \in Players : q # p =>
             server'[q] = server[q] /\ reply'[q] = reply[q] /\ main'[q] = main[q] /\ held'[q] = held[q]
    BY <1>i, <1>5 DEF Discarded, TypeOK
  <2>2. \A cmd : Told(p, cmd)' <=> Told(p, cmd) BY <2>1 DEF Told
  <2>3. Order(p)'
    BY <1>i, <1>5, <2>2 DEF Discarded, TypeOK, Turn, Hand, Order, BeingTold, InQueue, InHand, Answered, Nowhere, ServerStates
  <2> QED BY <1>k, <2>1, <2>3, QuietKeeps
<1>6. CASE DiscardFailed(p)
  <2>1. /\ outcome' = outcome /\ backlog' = backlog /\ serving' = serving
        /\ \A q \in Players : q # p =>
             server'[q] = server[q] /\ reply'[q] = reply[q] /\ main'[q] = main[q] /\ held'[q] = held[q]
    BY <1>i, <1>6 DEF DiscardFailed, TypeOK
  <2>2. \A cmd : Told(p, cmd)' <=> Told(p, cmd) BY <2>1 DEF Told
  <2>3. Order(p)'
    BY <1>i, <1>6, <2>2 DEF DiscardFailed, TypeOK, Turn, Hand, Order, BeingTold, InQueue, InHand, Answered, Nowhere, ServerStates
  <2> QED BY <1>k, <2>1, <2>3, QuietKeeps
<1>7. CASE ReceiveResume(p)
  <2>q. InQueue(p) /\ Head(queue[p]) = serving[p]
    BY <1>i, <1>7, Popped DEF ReceiveResume, Receive
  <2>1. /\ outcome' = outcome /\ backlog' = backlog /\ serving' = serving
        /\ \A q \in Players : q # p =>
             server'[q] = server[q] /\ reply'[q] = reply[q] /\ main'[q] = main[q] /\ held'[q] = held[q]
    BY <1>i, <1>7 DEF ReceiveResume, Receive, TypeOK
  <2>2. \A cmd : Told(p, cmd)' <=> Told(p, cmd) BY <2>1 DEF Told
  <2>3. Order(p)'
    BY <2>q, <1>i, <1>7, <2>2 DEF ReceiveResume, Receive, TypeOK, Turn, Hand, Order, BeingTold, InQueue, InHand, Answered, Nowhere, ServerStates
  <2> QED BY <1>k, <2>1, <2>3, QuietKeeps
<1>8. CASE Finish(p)
  <2>1. /\ outcome' = outcome /\ backlog' = backlog /\ serving' = serving
        /\ \A q \in Players : q # p =>
             server'[q] = server[q] /\ reply'[q] = reply[q] /\ main'[q] = main[q] /\ held'[q] = held[q]
    BY <1>i, <1>8 DEF Finish, TypeOK
  <2>2. \A cmd : Told(p, cmd)' <=> Told(p, cmd) BY <2>1 DEF Told
  <2>3. Order(p)'
    BY <1>i, <1>8, <2>2 DEF Finish, TypeOK, Turn, Hand, Order, BeingTold, InQueue, InHand, Answered, Nowhere, ServerStates
  <2> QED BY <1>k, <2>1, <2>3, QuietKeeps
<1>9. CASE Complete(p)
  <2>1. /\ outcome' = outcome /\ backlog' = backlog /\ serving' = serving
        /\ \A q \in Players : q # p =>
             server'[q] = server[q] /\ reply'[q] = reply[q] /\ main'[q] = main[q] /\ held'[q] = held[q]
    BY <1>i, <1>9 DEF Complete, TypeOK
  <2>2. \A cmd : Told(p, cmd)' <=> Told(p, cmd) BY <2>1 DEF Told
  <2>3. Order(p)'
    BY <1>i, <1>9, <2>2 DEF Complete, TypeOK, Turn, Hand, Order, BeingTold, InQueue, InHand, Answered, Nowhere, ServerStates
  <2> QED BY <1>k, <2>1, <2>3, QuietKeeps
<1>10. CASE OpenSession(p)
  <2>1. /\ outcome' = outcome /\ backlog' = backlog /\ serving' = serving
        /\ \A q \in Players : q # p =>
             server'[q] = server[q] /\ reply'[q] = reply[q] /\ main'[q] = main[q] /\ held'[q] = held[q]
    BY <1>i, <1>10 DEF OpenSession, TypeOK
  <2>2. \A cmd : Told(p, cmd)' <=> Told(p, cmd) BY <2>1 DEF Told
  <2>3. Order(p)'
    BY <1>i, <1>10, <2>2 DEF OpenSession, TypeOK, Turn, Hand, Order, BeingTold, InQueue, InHand, Answered, Nowhere, ServerStates
  <2> QED BY <1>k, <2>1, <2>3, QuietKeeps
<1>11. CASE LeaveSession(p)
  <2>1. /\ outcome' = outcome /\ backlog' = backlog /\ serving' = serving
        /\ \A q \in Players : q # p =>
             server'[q] = server[q] /\ reply'[q] = reply[q] /\ main'[q] = main[q] /\ held'[q] = held[q]
    BY <1>i, <1>11 DEF LeaveSession, TypeOK
  <2>2. \A cmd : Told(p, cmd)' <=> Told(p, cmd) BY <2>1 DEF Told
  <2>3. Order(p)'
    BY <1>i, <1>11, <2>2 DEF LeaveSession, TypeOK, Turn, Hand, Order, BeingTold, InQueue, InHand, Answered, Nowhere, ServerStates
  <2> QED BY <1>k, <2>1, <2>3, QuietKeeps
<1>12. CASE Die(p)
  <2>1. /\ UNCHANGED <<flag, held>> /\ main[p] = "exiting" /\ main' = [main EXCEPT ![p] = "dead"]
        /\ server' = [server EXCEPT ![p] = "dead"] /\ serving' = [serving EXCEPT ![p] = None]
        /\ backlog' = [backlog EXCEPT ![p] = <<>>] /\ reply' = [reply EXCEPT ![p] = "none"]
        /\ outcome' = [s \in Requests |->
             IF s \in {r \in Requests : Target(r) = p} /\ outcome[s] = "sent" THEN "error" ELSE outcome[s]]
    BY <1>12 DEF Die, Tell
  <2>2. /\ \A s \in Requests : outcome[s] \in {"ok", "timeout"} => outcome'[s] = outcome[s]
        /\ \A s \in Requests : outcome'[s] = "ok" => outcome[s] = "ok"
        /\ \A s \in Requests : Target(s) # p => outcome'[s] = outcome[s]
    BY <2>1
  <2>3. /\ main'[p] = "dead" /\ server'[p] = "dead" /\ serving'[p] = None /\ backlog'[p] = <<>>
        /\ \A q \in Players : q # p =>
             /\ server'[q] = server[q] /\ serving'[q] = serving[q] /\ backlog'[q] = backlog[q]
             /\ reply'[q] = reply[q] /\ main'[q] = main[q] /\ held'[q] = held[q]
    BY <1>i, <2>1 DEF TypeOK
  <2>4. Lined(p)' BY <2>3 DEF Lined
  <2>5. Order(p)' BY <2>3 DEF Order, BeingTold
  <2>6. ASSUME NEW q \in Players, q # p PROVE Lined(q)' /\ Order(q)'
    <3>1. Steady(q) BY <2>2, <2>6 DEF Steady
    <3> QED BY <1>i, <2>3, <2>6, <3>1, OrderFrame DEF OrderInv
  <2>7. OkInOrder' BY <2>2, NothingToldKeeps DEF OrderInv
  <2> QED BY <1>k, <2>4, <2>5, <2>6, <2>7 DEF OrderInv
<1> QED BY <1>1, <1>2, <1>3, <1>4, <1>5, <1>6, <1>7, <1>8, <1>9, <1>10, <1>11, <1>12
    DEF MainStep, RecalibrationStep

LEMMA OrderInit == Init => OrderInv
<1> SUFFICES ASSUME Init PROVE OrderInv
  OBVIOUS
<1>1. IInv BY InitKeeps
<1>2. \A p \in Players : Lined(p) /\ Order(p) BY DEF Init, Lined, Order, BeingTold
<1>3. OkInOrder BY DEF Init, OkInOrder
<1> QED BY <1>1, <1>2, <1>3 DEF OrderInv

\* An "ok" to Resume is the end of a recalibration that has really taken place:
\* a Pause and a Synchronize of the same simulator were answered with ok before.
THEOREM OkInOrderAlways == Spec => []OkInOrder
<1>1. OrderInv /\ [Next]_controlVars => OrderInv'
  <2> SUFFICES ASSUME OrderInv, [Next]_controlVars PROVE OrderInv' OBVIOUS
  <2>1. CASE UNCHANGED controlVars
    <3>1. UNCHANGED <<outcome, backlog, server, serving, reply, main, held>>
      BY <2>1 DEF controlVars, clientVars, serverVars, channelVars, mainVars
    <3>2. IInv' BY <2>1, StutterKeeps DEF OrderInv
    <3>3. \A q \in Players : Lined(q)' /\ Order(q)'
      BY <3>1, OrderFrame DEF OrderInv, IInv, Steady
    <3>4. OkInOrder' BY <3>1, NothingToldKeeps DEF OrderInv
    <3> QED BY <3>2, <3>3, <3>4 DEF OrderInv
  <2>2. CASE Next BY <2>2, OrderClientKeeps, OrderServerKeeps, OrderMainKeeps DEF Next, ClientStep
  <2> QED BY <2>1, <2>2
<1>2. OrderInv => OkInOrder BY DEF OrderInv
<1> QED BY <1>1, <1>2, OrderInit, PTL DEF Spec
=============================================================================
