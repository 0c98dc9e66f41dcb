--------------------------- MODULE SimulatorActor ---------------------------
(***************************************************************************)
(* The simulator actor of a process (simulator/src/backend/actor.rs) and   *)
(* the two threads that call it: the main thread, which runs sessions and  *)
(* recalibrations, and the runtime control server, which starts and stops  *)
(* attacks.  A call sends a message with a reply channel of its own and    *)
(* waits; the actor handles one message after the other and is rate        *)
(* limited, batch by batch, while it discards.  It may panic while it      *)
(* generates (an empty range of QBER values): messages in its hands and in *)
(* its channel are then dropped with their reply channels.                 *)
(***************************************************************************)
EXTENDS Simulator, Sequences

CONSTANT MaxCount   \* bound on the batches of one discard

ASSUME MaxCountAssumption == MaxCount \in Nat

Callers == {"main", "control"}

VARIABLES
  sim, attack,    \* the Simulator the actor owns
  thread,         \* the actor's thread
  hand,           \* the message it handles, NoMessage between messages
  left,           \* batches it still has to discard for it
  channel,        \* the messages sent and not received
  call, answer,   \* what each caller asked for and has been answered
  at,             \* the main thread between its calls
  taken           \* batches it has received or had discarded in its session

callers == <<call, answer>>
actorVars == <<sim, attack, thread, hand, left, channel, callers, at, taken>>

Atomic == INSTANCE AtomicSimulator WITH
  \* batches already generated of a discard under way do not count yet
  sim <- IF hand.op # "discard" \/ thread # "running" THEN sim
         ELSE [sim EXCEPT !.events = (@ - (hand.count - left)) % Modulus,
                          !.stream = (@ - (hand.count - left)) % Modulus],
  working <- thread = "running"

Messages == {[from |-> c, op |-> r.op, count |-> r.count] : c \in Callers, r \in Atomic!Calls}
NoMessage == [from |-> "none", op |-> "none", count |-> 0]
Answers ==
  {Atomic!Pending, Atomic!Ok, Atomic!Refused, Atomic!Lost}
    \cup [kind : {"progress"}, events : Counter]
    \cup [kind : {"batch"}, stream : Counter, attacked : BOOLEAN]

TypeOK ==
  /\ sim \in Simulators /\ attack \in BOOLEAN
  /\ thread \in {"running", "unwinding", "gone"}
  /\ hand \in Messages \cup {NoMessage} /\ left \in 0..MaxCount
  /\ channel \in Seq(Messages) /\ Len(channel) <= 2
  /\ call \in [Callers -> Atomic!Calls \cup {Atomic!NoCall}]
  /\ answer \in [Callers -> Answers]
  /\ at \in {"closed", "session", "failing", "paused", "measured", "realigned", "exited"}
  /\ taken \in Counter

Init ==
  /\ sim = Fresh /\ attack = FALSE
  /\ thread = "running" /\ hand = NoMessage /\ left = 0 /\ channel = <<>>
  /\ call = [c \in Callers |-> Atomic!NoCall]
  /\ answer = [c \in Callers |-> Atomic!Pending]
  /\ at = "closed" /\ taken = 0

----------------------------------------------------------------------------
(* The callers: ActorHandle::call.                                         *)

\* Sending fails at once when the receiver is gone (ActorSend).
Send(c, op, n) ==
  /\ call[c] = Atomic!NoCall
  /\ call' = [call EXCEPT ![c] = [op |-> op, count |-> n]]
  /\ IF thread = "gone"
       THEN answer' = [answer EXCEPT ![c] = Atomic!Lost] /\ UNCHANGED channel
       ELSE channel' = Append(channel, [from |-> c, op |-> op, count |-> n]) /\ UNCHANGED answer
  /\ UNCHANGED <<sim, attack, thread, hand, left, at, taken>>

Answered(c, op) == call[c].op = op /\ answer[c] # Atomic!Pending
Kind(c) == answer[c].kind

Return(c) ==
  /\ call' = [call EXCEPT ![c] = Atomic!NoCall]
  /\ answer' = [answer EXCEPT ![c] = Atomic!Pending]
  /\ UNCHANGED <<sim, attack, thread, hand, left, channel>>

\* The workflows and the pause coordination, as far as they call the actor.  A
\* pause comes in a session or between two.
MainCalls ==
  \/ at = "closed" /\ Send("main", "start", 0)
  \/ at = "session" /\ (Send("main", "generate", 0) \/ Send("main", "stop", 0))
  \/ at = "failing" /\ Send("main", "stop", 0)
  \/ at = "paused" /\ Send("main", "progress", 0)
  \/ at = "measured" /\ \E n \in 0..MaxCount : Send("main", "discard", n)
  \/ at = "realigned" /\ Send("main", "stop", 0)

TakePause ==
  /\ at \in {"closed", "session"} /\ call["main"] = Atomic!NoCall
  /\ at' = "paused"
  /\ UNCHANGED <<sim, attack, thread, hand, left, channel, callers, taken>>

StartReturns ==
  /\ Answered("main", "start") /\ Return("main")
  /\ at' = IF Kind("main") = "ok" THEN "session" ELSE "closed"
  /\ taken' = IF Kind("main") = "ok" THEN 0 ELSE taken

\* next_batch: after a failed batch the session is stopped and the runner ends.
BatchReturns ==
  /\ Answered("main", "generate") /\ Return("main")
  /\ at' = IF Kind("main") = "batch" THEN "session" ELSE "failing"
  /\ taken' = IF Kind("main") = "batch" THEN Advance(taken, 1) ELSE taken

StopReturns ==
  /\ Answered("main", "stop") /\ Return("main")
  /\ at' = IF Kind("main") = "ok" \/ at # "realigned" THEN "closed" ELSE "exited"
  /\ UNCHANGED taken

ProgressReturns ==
  /\ Answered("main", "progress") /\ Return("main")
  /\ at' = IF Kind("main") = "progress" THEN "measured" ELSE "exited"
  /\ UNCHANGED taken

DiscardReturns ==
  /\ Answered("main", "discard") /\ Return("main")
  /\ at' = IF Kind("main") = "ok" THEN "realigned" ELSE "exited"
  /\ taken' = IF Kind("main") = "ok" THEN Advance(taken, call["main"].count) ELSE taken

\* handle_line, for start_attack and stop_attack of any clients.
ControlCalls == \E op \in {"start_attack", "stop_attack"} : Send("control", op, 0)

ControlReturns ==
  /\ call["control"] # Atomic!NoCall /\ answer["control"] # Atomic!Pending
  /\ Return("control")
  /\ UNCHANGED <<at, taken>>

----------------------------------------------------------------------------
(* The actor.                                                              *)

Receive ==
  /\ thread = "running" /\ hand = NoMessage /\ channel # <<>>
  /\ hand' = Head(channel) /\ channel' = Tail(channel)
  /\ left' = Head(channel).count
  /\ UNCHANGED <<sim, attack, thread, callers, at, taken>>

InHand(op) == thread = "running" /\ hand.op = op

Reply(a) ==
  /\ answer' = [answer EXCEPT ![hand.from] = a]
  /\ hand' = NoMessage /\ left' = 0
  /\ UNCHANGED <<thread, channel, call, at, taken>>

HandleStartSession ==
  InHand("start") /\ sim' = Initialize(sim) /\ Reply(Atomic!Ok) /\ UNCHANGED attack

HandleStopSession ==
  InHand("stop") /\ sim' = End(sim) /\ Reply(Atomic!Ok) /\ UNCHANGED attack

HandleProgress ==
  InHand("progress") /\ Reply(Atomic!Progress(sim)) /\ UNCHANGED <<sim, attack>>

HandleAttack ==
  /\ InHand("start_attack") \/ InHand("stop_attack")
  /\ attack' = (hand.op = "start_attack")
  /\ Reply(Atomic!Ok) /\ UNCHANGED sim

\* Faulty variant: the QBER of the batch is drawn from the main stream.
NextBatchSharedStream ==
  sim' = [Generate(sim) EXCEPT !.stream = Advance(@, IF attack THEN 0 ELSE 1)]

\* generate_correlation_batch draws the QBER from a stream of its own, and not at
\* all under attack; the main stream gives every batch the same number of draws.
NextBatch == sim' = Generate(sim)

HandleGenerate ==
  /\ InHand("generate") /\ CanGenerate(sim)
  /\ NextBatch
  /\ Reply(Atomic!Batch(sim, attack)) /\ UNCHANGED attack

HandleRefused ==
  /\ InHand("generate") \/ (InHand("discard") /\ left > 0)
  /\ ~CanGenerate(sim)
  /\ Reply(Atomic!Refused) /\ UNCHANGED <<sim, attack>>

\* One turn of discard_batches, which sleeps as generating does.
DiscardOne ==
  /\ InHand("discard") /\ left > 0 /\ CanGenerate(sim)
  /\ NextBatch /\ left' = left - 1
  /\ UNCHANGED <<attack, thread, hand, channel, callers, at, taken>>

\* Faulty variant: the last batch is not discarded.
DiscardedEarly ==
  InHand("discard") /\ left <= 1 /\ Reply(Atomic!Ok) /\ UNCHANGED <<sim, attack>>

Discarded ==
  InHand("discard") /\ left = 0 /\ Reply(Atomic!Ok) /\ UNCHANGED <<sim, attack>>

Panic ==
  /\ InHand("generate") \/ (InHand("discard") /\ left > 0)
  /\ CanGenerate(sim) /\ ~attack
  /\ thread' = "unwinding"
  /\ UNCHANGED <<sim, attack, hand, left, channel, callers, at, taken>>

DropHand ==
  /\ thread = "unwinding" /\ hand # NoMessage
  /\ Reply(Atomic!Lost)
  /\ UNCHANGED <<sim, attack>>

\* Faulty variant: the receiver outlives its thread.
DropNothing ==
  /\ thread = "unwinding" /\ hand = NoMessage
  /\ thread' = "gone"
  /\ UNCHANGED <<sim, attack, hand, left, channel, callers, at, taken>>

\* The receiver goes, and with it every message still in the channel.
DropChannel ==
  /\ thread = "unwinding" /\ hand = NoMessage
  /\ thread' = "gone" /\ channel' = <<>>
  /\ answer' = [c \in Callers |->
       IF \E i \in DOMAIN channel : channel[i].from = c THEN Atomic!Lost ELSE answer[c]]
  /\ UNCHANGED <<sim, attack, hand, left, call, at, taken>>

----------------------------------------------------------------------------
ActorStep ==
  \/ Receive \/ HandleStartSession \/ HandleStopSession \/ HandleProgress \/ HandleAttack
  \/ HandleGenerate \/ HandleRefused \/ DiscardOne \/ Discarded \/ DropHand \/ DropChannel

MainReturns ==
  StartReturns \/ BatchReturns \/ StopReturns \/ ProgressReturns \/ DiscardReturns

\* A main thread that has returned takes the process with it.
Next ==
  /\ at # "exited"
  /\ \/ ActorStep \/ Panic
     \/ MainCalls \/ TakePause \/ MainReturns
     \/ ControlCalls \/ ControlReturns

Spec == Init /\ [][Next]_actorVars

\* All three threads run; nobody has to call, and nothing has to panic.
Fairness ==
  /\ WF_actorVars(at # "exited" /\ ActorStep)
  /\ WF_actorVars(at # "exited" /\ MainReturns)
  /\ WF_actorVars(at # "exited" /\ ControlReturns)

----------------------------------------------------------------------------
\* Two threads share a simulator that takes its time, one message per call: a
\* batch asked for after an attack was confirmed is an attacked one, and not one
\* draw of the stream that the peer must match depends on when attacks come.
ImplementsAtomic == Atomic!Spec

\* The counter that recalibrations compare accounts for every batch: those the
\* runner was given and those discarded for it since its session began, whatever
\* failed in between.
NothingUnaccounted ==
  thread = "running" /\ call["main"] = Atomic!NoCall => sim.events = taken

\* A call returns, even if the actor panics over it, over an earlier one, or
\* while the message is being sent: no thread waits for a reply that nobody owes.
CallsReturn ==
  \A c \in Callers :
    call[c] # Atomic!NoCall ~> call[c] = Atomic!NoCall \/ at = "exited"
=============================================================================
