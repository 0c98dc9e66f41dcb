--------------------------- MODULE Recalibration ---------------------------
(***************************************************************************)
(* Recalibrating a pair: hw_sim_control pauses both simulators, compares   *)
(* how far they have come in their sessions, has the lagging one discard   *)
(* the difference and resumes both (hw_sim_control/src/lib.rs:105-196),    *)
(* while the sessions of module HardwareSession run.                       *)
(*                                                                         *)
(* The control socket is the one of module RuntimeControl, seen from       *)
(* outside: a server thread has one command outstanding, so admission,     *)
(* queueing and taking a command are one step here, and pause_in_progress  *)
(* is up until the main thread returns to its sessions.                    *)
(***************************************************************************)
EXTENDS HardwareSession, FiniteSets

CONSTANTS
  Clients,      \* runs of hw_sim_control, one recalibration each
  MaxBatches    \* bound on the batches a process generates

ASSUME ClientsAssumption == IsFiniteSet(Clients)
ASSUME MaxBatchesAssumption ==
  MaxBatches \in Nat \ {0} /\ Modulus > (Cardinality(Clients) + 1) * MaxBatches

VARIABLES
  phase,      \* how far each client has come
  ask,        \* what a client knows of its current request to each simulator
  progress,   \* event_count each simulator reported to each client
  line,       \* the requests each server has not answered, oldest first
  main        \* the main thread of each simulator

clientVars == <<phase, ask, progress>>
pairVars == <<hwVars, clientVars, line, main>>

Commands == {"pause", "synchronize", "resume"}
PhaseStates == Commands \cup {"done", "failed"}
Answers == {"ok", "error", "timeout"}
Recalibrating == {"await_sync", "await_resume", "finishing", "completing"}
Lines == [client : Clients, command : Commands, batches : Counter]

PairTypeOK ==
  /\ TypeOK
  /\ phase \in [Clients -> PhaseStates]
  /\ ask \in [Clients -> [Players -> {"unsent", "sent"} \cup Answers]]
  /\ progress \in [Clients -> [Players -> Counter]]
  /\ line \in [Players -> Seq(Lines)]
  /\ main \in [Players -> {"serving", "exited"} \cup Recalibrating]

NothingAsked == [p \in Players |-> "unsent"]

PairInit ==
  /\ Init
  /\ phase = [c \in Clients |-> "pause"]
  /\ ask = [c \in Clients |-> NothingAsked]
  /\ progress = [c \in Clients |-> [p \in Players |-> 0]]
  /\ line = [p \in Players |-> <<>>]
  /\ main = [p \in Players |-> "serving"]

----------------------------------------------------------------------------
(* The client: recalibrate_pair and send_requests_to_pair.                 *)

\* Faulty variant: a signed difference.
DifferenceSigned(m, n) == m - n

\* abs_diff
Difference(m, n) == IF m > n THEN m - n ELSE n - m

\* Faulty variant: the simulator that is ahead discards.
MissingSwapped(c, p) ==
  IF progress[c][p] > progress[c][Other(p)]
    THEN Difference(progress[c]["alice"], progress[c]["bob"]) ELSE 0

\* The batches p has to discard: the difference, if it is the lagging one.
Missing(c, p) ==
  IF progress[c][p] < progress[c][Other(p)]
    THEN Difference(progress[c]["alice"], progress[c]["bob"]) ELSE 0

\* One thread per simulator sends the command of the phase.
Send(c, p) ==
  /\ phase[c] \notin {"done", "failed"} /\ ask[c][p] = "unsent"
  /\ IF main[p] = "exited"
       THEN ask' = [ask EXCEPT ![c][p] = "error"] /\ UNCHANGED line
       ELSE /\ ask' = [ask EXCEPT ![c][p] = "sent"]
            /\ line' = [line EXCEPT ![p] = Append(@,
                 [client |-> c, command |-> phase[c],
                  batches |-> IF phase[c] = "synchronize" THEN Missing(c, p) ELSE 0])]
  /\ UNCHANGED <<phase, progress, main, hwVars>>

\* The read times out; the command stays in the simulator's hands.
GiveUp(c, p) ==
  /\ ask[c][p] = "sent"
  /\ ask' = [ask EXCEPT ![c][p] = "timeout"]
  /\ UNCHANGED <<phase, progress, line, main, hwVars>>

\* Faulty variant: the phase in between is skipped.
AfterSkipping(ph) ==
  CASE ph = "pause" -> "resume" [] ph = "synchronize" -> "resume" [] ph = "resume" -> "done"

After(ph) ==
  CASE ph = "pause" -> "synchronize" [] ph = "synchronize" -> "resume" [] ph = "resume" -> "done"

\* Faulty variant: one answer is enough.
ProceedOnOne(c) ==
  /\ phase[c] \notin {"done", "failed"}
  /\ \E p \in Players : ask[c][p] = "ok"
  /\ phase' = [phase EXCEPT ![c] = After(@)]
  /\ ask' = [ask EXCEPT ![c] = NothingAsked]
  /\ UNCHANGED <<progress, line, main, hwVars>>

\* Both threads are joined; one failure ends the recalibration.
Proceed(c) ==
  /\ phase[c] \notin {"done", "failed"}
  /\ \A p \in Players : ask[c][p] \in Answers
  /\ IF \A p \in Players : ask[c][p] = "ok"
       THEN phase' = [phase EXCEPT ![c] = After(@)]
       ELSE phase' = [phase EXCEPT ![c] = "failed"]
  /\ ask' = [ask EXCEPT ![c] = NothingAsked]
  /\ UNCHANGED <<progress, line, main, hwVars>>

----------------------------------------------------------------------------
(* The simulators.                                                         *)

Asked(p, command) == line[p] # <<>> /\ Head(line[p]).command = command

\* The oldest command of p is answered; a client that has left does not notice.
Reply(p, answer) ==
  /\ line' = [line EXCEPT ![p] = Tail(@)]
  /\ ask' = [ask EXCEPT ![Head(line[p]).client][p] = IF @ = "sent" THEN answer ELSE @]

\* enqueue_pause and enqueue_recalibration_command, when the flag says no.
Refuse(p) ==
  /\ \/ Asked(p, "pause") /\ main[p] \in Recalibrating
     \/ (Asked(p, "synchronize") \/ Asked(p, "resume")) /\ main[p] = "serving"
  /\ Reply(p, "error")
  /\ UNCHANGED <<phase, progress, main, hwVars>>

\* Where check_runtime_pause is called: before a poll of the register and at
\* three places of the loop, but not while the runner reads GC.
CheckPoints == {"command", "gen", "check", "angles"}

\* The process ends with the command it has in hand.
Exit(p) == main' = [main EXCEPT ![p] = "exited"] /\ Reply(p, "error")

\* The runner returns and drops its connection; begin_recalibration; the Pause
\* is answered with generation_progress.  Either of the two may fail.
TakePause(p) ==
  /\ Asked(p, "pause") /\ main[p] = "serving" /\ run[p] \in CheckPoints
  /\ run' = [run EXCEPT ![p] = "closed"]
  /\ CloseEnds(p)
  /\ \/ /\ main' = [main EXCEPT ![p] = "await_sync"]
        /\ Reply(p, "ok")
        /\ progress' = [progress EXCEPT ![Head(line[p]).client][p] = sim[p].events]
     \/ Exit(p) /\ UNCHANGED progress
  /\ UNCHANGED <<sim, last, drawn, heard, mmio, nodes, phase>>

\* discard_batches: the main thread waits while the batches are generated.
Synchronize(p) ==
  LET n == Head(line[p]).batches IN
  /\ Asked(p, "synchronize") /\ main[p] = "await_sync"
  /\ \/ /\ CanDiscard(sim[p], n)
        /\ sim' = [sim EXCEPT ![p] = Discard(@, n)]
        /\ main' = [main EXCEPT ![p] = "await_resume"]
        /\ Reply(p, "ok")
     \/ ~CanDiscard(sim[p], n) /\ Exit(p) /\ UNCHANGED sim
  /\ UNCHANGED <<runner, mmio, nodes, wires, phase, progress>>

\* stop_session, unless the actor has died, then finish_runtime_pause (module
\* RuntimeStatus) ...
TakeResume(p) ==
  /\ Asked(p, "resume") /\ main[p] = "await_resume"
  /\ \/ /\ main' = [main EXCEPT ![p] = "finishing"]
        /\ sim' = [sim EXCEPT ![p] = End(@)]
        /\ UNCHANGED <<ask, line>>
     \/ Exit(p) /\ UNCHANGED sim
  /\ UNCHANGED <<runner, mmio, nodes, wires, phase, progress>>

\* ... which returns when the node, detached, has acknowledged and the files are
\* back, or fails on the way.
Resumed(p) ==
  /\ main[p] = "finishing"
  /\ \/ ~linked[p] /\ main' = [main EXCEPT ![p] = "completing"] /\ Reply(p, "ok")
     \/ Exit(p)
  /\ UNCHANGED <<phase, progress, hwVars>>

\* complete_pause: only now another Pause is admitted.
Complete(p) ==
  /\ main[p] = "completing"
  /\ main' = [main EXCEPT ![p] = "serving"]
  /\ UNCHANGED <<clientVars, line, hwVars>>

\* The wrong command would be rejected and end the process; module
\* RuntimeControl has that step, RightCommand below says that clients of this
\* kind never cause it.

\* The process ends between two steps: its sessions or its control socket fail,
\* or it is killed.  A new one is beyond this module.
Crash(p) ==
  /\ main[p] # "exited" /\ main' = [main EXCEPT ![p] = "exited"]
  /\ run' = [run EXCEPT ![p] = "closed"]
  /\ CloseEnds(p)
  /\ UNCHANGED <<sim, last, drawn, heard, mmio, nodes, clientVars, line>>

\* Clients that wait for a process that has exited read end of file.
ExitedAnswers(p) ==
  /\ main[p] = "exited" /\ line[p] # <<>>
  /\ Reply(p, "error")
  /\ UNCHANGED <<phase, progress, main, hwVars>>

----------------------------------------------------------------------------
(* The sessions go on between recalibrations.                              *)

SessionStep(p) ==
  /\ main[p] = "serving"
  /\ sim[p].stream < MaxBatches \/ run[p] # "gen"
  /\ RunnerStep(p) \/ Connect(p)
  /\ UNCHANGED <<clientVars, line, main>>

OutsideStep ==
  /\ Relay \/ \E p \in Players : Disconnect(p) \/ Relink(p) \/ WriteRegister(p)
  /\ UNCHANGED <<clientVars, line, main>>

ClientStep(c) == Proceed(c) \/ \E p \in Players : Send(c, p) \/ GiveUp(c, p)

ControlStep(p) ==
  \/ Refuse(p) \/ TakePause(p) \/ Synchronize(p) \/ TakeResume(p) \/ Resumed(p)
  \/ Complete(p) \/ Crash(p) \/ ExitedAnswers(p)

PairNext ==
  \/ \E c \in Clients : ClientStep(c)
  \/ \E p \in Players : ControlStep(p) \/ SessionStep(p)
  \/ OutsideStep

PairSpec == PairInit /\ [][PairNext]_pairVars

----------------------------------------------------------------------------
\* Two locks, one driver: the pauses of the two simulators are taken one by one
\* and independently, yet at most one client ever has a Synchronize or a Resume
\* under way.
Driving(c) ==
  phase[c] \in {"synchronize", "resume"} /\ \E p \in Players : ask[c][p] \notin Answers

OneDriver == \A c, d \in Clients : Driving(c) /\ Driving(d) => c = d

\* However clients overlap and time out, a paused simulator that is waiting for
\* Synchronize never finds a Resume in its channel, nor the other way round:
\* either would end the process.
RightCommand ==
  \A p \in Players :
    /\ main[p] = "await_sync" => ~Asked(p, "resume")
    /\ main[p] = "await_resume" => ~Asked(p, "synchronize")

\* What the client compared is still true when it is acted on: between its
\* Pause and its Synchronize no batch is generated, and once both have
\* answered Synchronize their counters are equal.
CountersRealigned ==
  \A c \in Clients :
    /\ phase[c] = "synchronize" =>
         \A p \in Players :
           main[p] = "await_sync" => sim[p].events = progress[c][p]
    /\ phase[c] = "resume" /\ (\A p \in Players : main[p] = "await_resume") =>
         sim["alice"].events = sim["bob"].events

\* README.md:101: both seeded streams are synchronized when the pair resumes.
StreamsRealigned ==
  \A c \in Clients :
    phase[c] = "resume" /\ (\A p \in Players : main[p] = "await_resume") =>
      sim["alice"].stream = sim["bob"].stream

\* README.md:100: the lagging simulator generates and discards what it misses.
LaggardCatchesUp ==
  \A p \in Players :
    main[p] = "await_sync" /\ Asked(p, "synchronize") =>
      CanDiscard(sim[p], Head(line[p]).batches)

----------------------------------------------------------------------------
(* The pair as module PairPause promises it.  A simulator is realigned from  *)
(* its Synchronize to complete_pause; the pair is aligned from the moment a  *)
(* client goes on to Resume until the last Resume is through.                *)

Mode(m) ==
  CASE m \in {"serving", "exited"} -> m
    [] m = "await_sync" -> "paused"
    [] OTHER -> "realigned"

ResumeUnderWay(p) ==
  \/ main[p] \in {"finishing", "completing"}
  \/ \E i \in DOMAIN line[p] : line[p][i].command = "resume"
  \/ \E c \in Clients : phase[c] = "resume" /\ ask[c][p] = "unsent"

Promise == INSTANCE PairPause WITH
  Pair <- Players,
  mode <- [p \in Players |-> Mode(main[p])],
  aligned <- \E p \in Players : Mode(main[p]) = "realigned" /\ ResumeUnderWay(p)

\* However many clients there are, whichever of their requests time out and
\* wherever a simulator fails or dies, the pair is recalibrated in step: nobody
\* catches up while the other one generates, and no simulator goes back to its
\* sessions while the other has still batches to discard.
ImplementsPairPause == Promise!Spec
=============================================================================
