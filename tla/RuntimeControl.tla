--------------------------- MODULE RuntimeControl ---------------------------
(***************************************************************************)
(* The control socket of a simulator process                               *)
(* (simulator/src/runtime_control.rs) and the part of the main thread that *)
(* answers it (check_runtime_pause in hardware_session/mod.rs and          *)
(* coordinate_runtime_pause in hardware_session/supervisor.rs).            *)
(*                                                                         *)
(* One server thread serves connections one after the other.  It forwards  *)
(* Pause, Synchronize and Resume over an mpsc channel and blocks until the *)
(* main thread replies; the main thread looks at the channel only at the   *)
(* check points of a session and inside a recalibration.  The two threads  *)
(* share the pause_in_progress flag.  Clients are arbitrary here: any of   *)
(* them may send any command at any time, and give up at any time.         *)
(***************************************************************************)
EXTENDS Naturals, Sequences

CONSTANTS
  Clients,      \* processes that use the control socket
  Players,      \* simulator processes
  Requests,     \* what the clients may ask, each at most once
  MaxBacklog,   \* bound on the connections waiting to be accepted
  None

Commands == {"pause", "synchronize", "resume", "attack"}

\* A request is one line on a connection of its own, as hw_sim_control sends it.
ASSUME RequestsAssumption == Requests \subseteq Clients \X Players \X Commands
ASSUME MaxBacklogAssumption == MaxBacklog \in Nat \ {0}
ASSUME NoneAssumption == None \notin Requests

Client(r) == r[1]
Target(r) == r[2]
Command(r) == r[3]

VARIABLES
  outcome,   \* what the client of each request knows of it
  backlog,   \* connections the server has not accepted yet
  server,    \* what the server thread is doing
  serving,   \* the request it is doing it for
  flag,      \* pause_in_progress
  queue,     \* the mpsc channel to the main thread
  reply,     \* the one-shot channel back, "none" while empty
  main,      \* where the main thread stands
  held       \* the request whose reply_to the main thread holds

clientVars == <<outcome, backlog>>
serverVars == <<server, serving>>
mainVars == <<main, held>>
channelVars == <<flag, queue, reply>>
controlVars == <<clientVars, serverVars, channelVars, mainVars>>

\* Pause taken .. Resume answered; the flag belongs to the main thread then.
Recalibrating ==
  {"begin", "await_sync", "discarding", "await_resume", "finishing", "completing"}
MainStates == {"away", "session", "failing", "exiting", "dead"} \cup Recalibrating
ServerStates == {"accept", "admit", "send", "wait", "respond", "dead"}
Outcomes == {"unsent", "sent", "ok", "error", "timeout"}

TypeOK ==
  /\ outcome \in [Requests -> Outcomes]
  /\ backlog \in [Players -> Seq(Requests)]
  /\ server \in [Players -> ServerStates]
  /\ serving \in [Players -> Requests \cup {None}]
  /\ flag \in [Players -> BOOLEAN]
  /\ queue \in [Players -> Seq(Requests)]
  /\ reply \in [Players -> {"none", "ok", "error"}]
  /\ main \in [Players -> MainStates]
  /\ held \in [Players -> Requests \cup {None}]

Init ==
  /\ outcome = [r \in Requests |-> "unsent"]
  /\ backlog = [p \in Players |-> <<>>]
  /\ server = [p \in Players |-> "accept"]
  /\ serving = [p \in Players |-> None]
  /\ flag = [p \in Players |-> FALSE]
  /\ queue = [p \in Players |-> <<>>]
  /\ reply = [p \in Players |-> "none"]
  /\ main = [p \in Players |-> "away"]
  /\ held = [p \in Players |-> None]

----------------------------------------------------------------------------
(* Clients.                                                                *)

\* hw_sim_control: connect, write the line, wait for one line.  A client has one
\* connection to a simulator at a time.
Submit(r) ==
  /\ outcome[r] = "unsent"
  /\ \A s \in Requests : Client(s) = Client(r) /\ Target(s) = Target(r) => outcome[s] # "sent"
  /\ Len(backlog[Target(r)]) < MaxBacklog
  /\ IF main[Target(r)] = "dead"
       THEN /\ outcome' = [outcome EXCEPT ![r] = "error"]
            /\ UNCHANGED backlog
       ELSE /\ outcome' = [outcome EXCEPT ![r] = "sent"]
            /\ backlog' = [backlog EXCEPT ![Target(r)] = Append(@, r)]
  /\ UNCHANGED <<serverVars, channelVars, mainVars>>

\* The read times out and the connection is closed; the line stays with the
\* server, which will serve it like any other.
GiveUp(r) ==
  /\ outcome[r] = "sent"
  /\ outcome' = [outcome EXCEPT ![r] = "timeout"]
  /\ UNCHANGED <<backlog, serverVars, channelVars, mainVars>>

\* What a client that is still there reads.
Tell(rs, answer) ==
  outcome' = [r \in Requests |-> IF r \in rs /\ outcome[r] = "sent" THEN answer ELSE outcome[r]]

----------------------------------------------------------------------------
(* The server thread: start_runtime_control_server, handle_client,         *)
(* handle_line, request_runtime.                                           *)

Serve(p, from, to) == server[p] = from /\ server' = [server EXCEPT ![p] = to]

Accept(p) ==
  /\ Serve(p, "accept", "admit")
  /\ backlog[p] # <<>>
  /\ serving' = [serving EXCEPT ![p] = Head(backlog[p])]
  /\ backlog' = [backlog EXCEPT ![p] = Tail(@)]
  /\ UNCHANGED <<outcome, channelVars, mainVars>>

\* An answer the server finds without the main thread.
Refuse(p) ==
  /\ Serve(p, "admit", "respond")
  /\ reply' = [reply EXCEPT ![p] = "error"]
  /\ UNCHANGED <<flag, queue>>

\* Faulty variant: the flag is raised without being looked at.
AdmitPauseUnchecked(p) ==
  /\ server[p] = "admit" /\ Command(serving[p]) = "pause"
  /\ Serve(p, "admit", "send")
  /\ flag' = [flag EXCEPT ![p] = TRUE]
  /\ UNCHANGED <<queue, reply, clientVars, serving, mainVars>>

\* enqueue_pause: compare_exchange(false, true).
AdmitPause(p) ==
  /\ server[p] = "admit" /\ Command(serving[p]) = "pause"
  /\ \/ /\ ~flag[p]
        /\ Serve(p, "admit", "send")
        /\ flag' = [flag EXCEPT ![p] = TRUE]
        /\ UNCHANGED <<queue, reply>>
     \/ flag[p] /\ Refuse(p)
  /\ UNCHANGED <<clientVars, serving, mainVars>>

\* enqueue_recalibration_command: the flag is only looked at.
AdmitStep(p) ==
  /\ server[p] = "admit" /\ Command(serving[p]) \in {"synchronize", "resume"}
  /\ \/ flag[p] /\ Serve(p, "admit", "send") /\ UNCHANGED channelVars
     \/ ~flag[p] /\ Refuse(p)
  /\ UNCHANGED <<clientVars, serving, mainVars>>

\* start_attack and stop_attack go to the simulator actor.
AdmitAttack(p) ==
  /\ server[p] = "admit" /\ Command(serving[p]) = "attack"
  /\ Serve(p, "admit", "respond")
  /\ reply' = [reply EXCEPT ![p] = "ok"]
  /\ UNCHANGED <<flag, queue, clientVars, serving, mainVars>>

\* Faulty variant: the server answers "ok" as soon as the command is queued.
EnqueueUnanswered(p) ==
  /\ Serve(p, "send", "respond")
  /\ queue' = [queue EXCEPT ![p] = Append(@, serving[p])]
  /\ reply' = [reply EXCEPT ![p] = "ok"]
  /\ UNCHANGED <<flag, clientVars, serving, mainVars>>

Enqueue(p) ==
  /\ Serve(p, "send", "wait")
  /\ queue' = [queue EXCEPT ![p] = Append(@, serving[p])]
  /\ UNCHANGED <<flag, reply, clientVars, serving, mainVars>>

\* Faulty variant: the reply is consumed before the response is written.
CollectDiscarding(p) ==
  /\ reply[p] # "none"
  /\ Serve(p, "wait", "respond")
  /\ reply' = [reply EXCEPT ![p] = "none"]
  /\ UNCHANGED <<flag, queue, clientVars, serving, mainVars>>

\* reply.recv() returns; enqueue_pause gives the flag back after an error.
Collect(p) ==
  /\ reply[p] # "none"
  /\ Serve(p, "wait", "respond")
  /\ flag' = [flag EXCEPT ![p] = @ /\ ~(Command(serving[p]) = "pause" /\ reply[p] = "error")]
  /\ UNCHANGED <<queue, reply, clientVars, serving, mainVars>>

\* The response line; the client closes, and the next connection is accepted.
Respond(p) ==
  /\ Serve(p, "respond", "accept")
  /\ Tell({serving[p]}, reply[p])
  /\ serving' = [serving EXCEPT ![p] = None]
  /\ reply' = [reply EXCEPT ![p] = "none"]
  /\ UNCHANGED <<backlog, flag, queue, mainVars>>

ServerStep(p) ==
  \/ Accept(p) \/ AdmitPause(p) \/ AdmitStep(p) \/ AdmitAttack(p)
  \/ Enqueue(p) \/ Collect(p) \/ Respond(p)

----------------------------------------------------------------------------
(* The main thread.                                                        *)

Go(p, from, to) == main[p] = from /\ main' = [main EXCEPT ![p] = to]

Answer(p, answer) ==
  /\ reply' = [reply EXCEPT ![p] = answer]
  /\ held' = [held EXCEPT ![p] = None]

\* The FIFO connection opens and a session runs; it ends for its own reasons.
OpenSession(p) ==
  /\ Go(p, "away", "session")
  /\ UNCHANGED <<clientVars, serverVars, channelVars, held>>

LeaveSession(p) ==
  /\ Go(p, "session", "away")
  /\ UNCHANGED <<clientVars, serverVars, channelVars, held>>

\* check_runtime_pause: a Pause ends the session, the other commands are
\* answered with an error and the session goes on.
TakePause(p) ==
  /\ Go(p, "session", "begin")
  /\ queue[p] # <<>> /\ Command(Head(queue[p])) = "pause"
  /\ queue' = [queue EXCEPT ![p] = Tail(@)]
  /\ held' = [held EXCEPT ![p] = Head(queue[p])]
  /\ UNCHANGED <<flag, reply, clientVars, serverVars>>

RefuseStray(p) ==
  /\ main[p] = "session"
  /\ queue[p] # <<>> /\ Command(Head(queue[p])) # "pause"
  /\ queue' = [queue EXCEPT ![p] = Tail(@)]
  /\ Answer(p, "error")
  /\ UNCHANGED <<flag, main, clientVars, serverVars>>

\* begin_recalibration and generation_progress, then the answer to Pause.
Begin(p) ==
  /\ \/ Go(p, "begin", "await_sync") /\ Answer(p, "ok")
     \/ Go(p, "begin", "failing") /\ Answer(p, "error")
  /\ UNCHANGED <<flag, queue, clientVars, serverVars>>

\* Faulty variant: any command moves the recalibration on.
ReceiveAny(p, from, expected, to) ==
  /\ main[p] = from /\ queue[p] # <<>>
  /\ queue' = [queue EXCEPT ![p] = Tail(@)]
  /\ main' = [main EXCEPT ![p] = to]
  /\ held' = [held EXCEPT ![p] = Head(queue[p])]
  /\ UNCHANGED <<flag, reply, clientVars, serverVars>>

\* Faulty variant: an unexpected command is dropped without an answer.
ReceiveSilently(p, from, expected, to) ==
  /\ main[p] = from /\ queue[p] # <<>>
  /\ queue' = [queue EXCEPT ![p] = Tail(@)]
  /\ \/ /\ Command(Head(queue[p])) = expected
        /\ main' = [main EXCEPT ![p] = to]
        /\ held' = [held EXCEPT ![p] = Head(queue[p])]
     \/ /\ Command(Head(queue[p])) # expected
        /\ UNCHANGED mainVars
  /\ UNCHANGED <<flag, reply, clientVars, serverVars>>

\* The blocking receive in coordinate_runtime_pause: anything but the expected
\* command is rejected, and the recalibration fails.
Receive(p, from, expected, to) ==
  /\ main[p] = from /\ queue[p] # <<>>
  /\ queue' = [queue EXCEPT ![p] = Tail(@)]
  /\ \/ /\ Command(Head(queue[p])) = expected
        /\ main' = [main EXCEPT ![p] = to]
        /\ held' = [held EXCEPT ![p] = Head(queue[p])]
        /\ UNCHANGED reply
     \/ /\ Command(Head(queue[p])) # expected
        /\ main' = [main EXCEPT ![p] = "failing"]
        /\ Answer(p, "error")
  /\ UNCHANGED <<flag, clientVars, serverVars>>

ReceiveSynchronize(p) == Receive(p, "await_sync", "synchronize", "discarding")

\* discard_batches succeeds or fails.
Discarded(p) ==
  /\ Go(p, "discarding", "await_resume") /\ Answer(p, "ok")
  /\ UNCHANGED <<flag, queue, clientVars, serverVars>>

DiscardFailed(p) ==
  /\ Go(p, "discarding", "failing") /\ Answer(p, "error")
  /\ UNCHANGED <<flag, queue, clientVars, serverVars>>

ReceiveResume(p) == Receive(p, "await_resume", "resume", "finishing")

\* stop_session and finish_runtime_pause (module RuntimeStatus), then the answer.
Finish(p) ==
  /\ \/ Go(p, "finishing", "completing") /\ Answer(p, "ok")
     \/ Go(p, "finishing", "failing") /\ Answer(p, "error")
  /\ UNCHANGED <<flag, queue, clientVars, serverVars>>

\* Faulty variant: the supervisor forgets complete_pause.
CompleteKeepingFlag(p) ==
  /\ \/ Go(p, "completing", "away")
     \/ Go(p, "failing", "exiting")
  /\ UNCHANGED <<flag, queue, reply, held, clientVars, serverVars>>

\* HardwareSessionSupervisor::run: complete_pause comes after the answer, and
\* after a failed recalibration the supervisor returns.
Complete(p) ==
  /\ \/ Go(p, "completing", "away")
     \/ Go(p, "failing", "exiting")
  /\ flag' = [flag EXCEPT ![p] = FALSE]
  /\ UNCHANGED <<queue, reply, held, clientVars, serverVars>>

\* main.rs: the process ends with the supervisor; connected clients read EOF.
Die(p) ==
  /\ Go(p, "exiting", "dead")
  /\ server' = [server EXCEPT ![p] = "dead"]
  /\ serving' = [serving EXCEPT ![p] = None]
  /\ backlog' = [backlog EXCEPT ![p] = <<>>]
  /\ queue' = [queue EXCEPT ![p] = <<>>]
  /\ reply' = [reply EXCEPT ![p] = "none"]
  /\ Tell({r \in Requests : Target(r) = p}, "error")
  /\ UNCHANGED <<flag, held>>

RecalibrationStep(p) ==
  \/ Begin(p) \/ ReceiveSynchronize(p) \/ Discarded(p) \/ DiscardFailed(p)
  \/ ReceiveResume(p) \/ Finish(p) \/ Complete(p) \/ Die(p)

MainStep(p) == TakePause(p) \/ RefuseStray(p) \/ RecalibrationStep(p)

----------------------------------------------------------------------------
ClientStep == \E r \in Requests : Submit(r) \/ GiveUp(r)

Next ==
  \/ ClientStep
  \/ \E p \in Players : ServerStep(p) \/ MainStep(p) \/ OpenSession(p) \/ LeaveSession(p)

Spec == Init /\ [][Next]_controlVars

\* Both threads run; a session is opened again and again, and polled in
\* between.  Nothing is assumed of the clients.
Fairness ==
  \A p \in Players : /\ WF_controlVars(ServerStep(p))
                     /\ WF_controlVars(OpenSession(p))
                     /\ SF_controlVars(TakePause(p) \/ RefuseStray(p))
                     /\ WF_controlVars(RecalibrationStep(p))

FairSpec == Spec /\ Fairness

----------------------------------------------------------------------------
\* The server thread and the main thread never wait on each other: while the
\* server is blocked on a reply, its request is in the channel, or in the main
\* thread's hands, or already answered - in exactly one of the three - and at no
\* other time is anything outstanding.
OneOutstanding ==
  \A p \in Players :
    LET inQueue == IF queue[p] = <<>> THEN 0 ELSE 1
        inHand == IF held[p] = None THEN 0 ELSE 1
        answered == IF reply[p] = "none" THEN 0 ELSE 1
    IN  /\ server[p] = "wait" =>
             /\ inQueue + inHand + answered = 1
             /\ queue[p] \in {<<>>, <<serving[p]>>}
             /\ held[p] \in {None, serving[p]}
        /\ server[p] # "wait" => inQueue + inHand = 0

\* pause_in_progress covers the whole recalibration, and is never left behind:
\* it is up only while the main thread recalibrates (or is about to lower it) or
\* a Pause is on its way.  A leaked flag would refuse every later Pause.
PauseOnItsWay(p) ==
  /\ server[p] \in {"send", "wait"} /\ Command(serving[p]) = "pause"

FlagMatchesPause ==
  \A p \in Players :
    /\ main[p] \in Recalibrating => flag[p]
    /\ flag[p] => main[p] \in Recalibrating \cup {"failing", "exiting", "dead"} \/ PauseOnItsWay(p)

\* A second Pause never reaches a simulator that is recalibrating, where it
\* would be rejected as the wrong command and end the process: the flag keeps it
\* out although the main thread lowers it and the server raises it unlocked.
NoPauseWhileRecalibrating ==
  \A p \in Players :
    main[p] \in Recalibrating =>
      /\ \A i \in DOMAIN queue[p] : Command(queue[p][i]) # "pause"
      /\ ~(server[p] = "send" /\ Command(serving[p]) = "pause")

\* "ok" means done: a client told so of its Resume spoke to a simulator that had
\* answered a Pause and a Synchronize with ok before (each possibly to a client
\* that had already left).
OkInOrder ==
  \A r \in Requests :
    Command(r) = "resume" /\ outcome[r] = "ok" =>
      \A cmd \in {"pause", "synchronize"} :
        \E s \in Requests : /\ Target(s) = Target(r) /\ Command(s) = cmd
                            /\ outcome[s] \in {"ok", "timeout"}

\* Whatever the clients do, a command the server has forwarded is answered, so
\* one command never shuts the socket for the following ones for ever.
ServerReturns ==
  \A p \in Players : server[p] = "wait" ~> server[p] \in {"accept", "dead"}
=============================================================================
