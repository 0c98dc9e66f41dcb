--------------------------- MODULE AtomicSimulator ---------------------------
(***************************************************************************)
(* The simulator as the threads of a process may think of it: every call   *)
(* takes effect in one step between its beginning and its return, or is    *)
(* lost with a simulator that has broken.  Module SimulatorActor           *)
(* implements it.                                                          *)
(***************************************************************************)
EXTENDS Simulator

CONSTANTS
  Callers,   \* threads that hold a handle
  MaxCount   \* bound on the batches of one discard

VARIABLES
  sim,      \* the simulator
  attack,   \* is_under_attack
  working,  \* it has not broken
  call,     \* the call each caller waits for
  answer    \* what came of it

vars == <<sim, attack, working, call, answer>>

Plain == {"start", "stop", "generate", "progress", "start_attack", "stop_attack"}
Calls == [op : Plain, count : {0}] \cup [op : {"discard"}, count : 0..MaxCount]
NoCall == [op |-> "none", count |-> 0]

Pending == [kind |-> "pending"]
Ok == [kind |-> "ok"]
Refused == [kind |-> "refused"]
Lost == [kind |-> "lost"]
Progress(s) == [kind |-> "progress", events |-> s.events]
Batch(s, a) == [kind |-> "batch", stream |-> s.stream, attacked |-> a]

Init ==
  /\ sim = Fresh /\ attack = FALSE /\ working = TRUE
  /\ call = [c \in Callers |-> NoCall]
  /\ answer = [c \in Callers |-> Pending]

Ask(c) ==
  /\ call[c] = NoCall
  /\ \E r \in Calls : call' = [call EXCEPT ![c] = r]
  /\ \E a \in {Pending, Lost} :
       /\ a = Lost => ~working
       /\ answer' = [answer EXCEPT ![c] = a]
  /\ UNCHANGED <<sim, attack, working>>

\* The effect of a call on the simulator, and what it answers.
Effect(r, a) ==
  \/ r.op = "start" /\ a = Ok /\ sim' = Initialize(sim) /\ UNCHANGED attack
  \/ r.op = "stop" /\ a = Ok /\ sim' = End(sim) /\ UNCHANGED attack
  \/ r.op = "progress" /\ a = Progress(sim) /\ UNCHANGED <<sim, attack>>
  \/ r.op = "generate" /\ CanGenerate(sim)
     /\ a = Batch(sim, attack) /\ sim' = Generate(sim) /\ UNCHANGED attack
  \/ r.op = "discard" /\ CanDiscard(sim, r.count)
     /\ a = Ok /\ sim' = Discard(sim, r.count) /\ UNCHANGED attack
  \/ r.op = "generate" /\ ~CanGenerate(sim) /\ a = Refused /\ UNCHANGED <<sim, attack>>
  \/ r.op = "discard" /\ ~CanDiscard(sim, r.count) /\ a = Refused /\ UNCHANGED <<sim, attack>>
  \/ r.op \in {"start_attack", "stop_attack"}
     /\ a = Ok /\ attack' = (r.op = "start_attack") /\ UNCHANGED sim

TakeEffect(c) ==
  /\ working /\ answer[c] = Pending
  /\ answer'[c] # Pending /\ Effect(call[c], answer'[c])
  /\ answer' = [answer EXCEPT ![c] = answer'[c]]
  /\ UNCHANGED <<working, call>>

Break ==
  /\ working /\ working' = FALSE
  /\ sim' \in Simulators
  /\ UNCHANGED <<attack, call, answer>>

Lose ==
  /\ ~working
  /\ \E C \in SUBSET {c \in Callers : call[c] # NoCall /\ answer[c] = Pending} :
       answer' = [c \in Callers |-> IF c \in C THEN Lost ELSE answer[c]]
  /\ UNCHANGED <<sim, attack, working, call>>

Return(c) ==
  /\ call[c] # NoCall /\ answer[c] # Pending
  /\ call' = [call EXCEPT ![c] = NoCall]
  /\ answer' = [answer EXCEPT ![c] = Pending]
  /\ UNCHANGED <<sim, attack, working>>

Next == Break \/ Lose \/ \E c \in Callers : Ask(c) \/ TakeEffect(c) \/ Return(c)

Spec == Init /\ [][Next]_vars
=============================================================================
