----------------------------- MODULE MCSimulator -----------------------------
(* The five modules about the insides of one process: its actor, the draws   *)
(* behind its batches, the records made of them, the FIFO paths its main     *)
(* thread keeps in order and the connections to its control socket.  They    *)
(* share no variable, so they are explored one at a time instead of in every *)
(* interleaving: `part` says which, once the main thread is in its first     *)
(* session, and the variables of the others keep one initial value.          *)
EXTENDS SimulatorActor, Correlation, FifoRecords, FifoPaths, ControlConnections

VARIABLE part

\* Batches of four events: any event at the odd places, and at the even ones
\* one of every setting and intensity; a session passes the last counter that
\* a record can carry.
ConstPulses == {4, 5, 11}
ConstOffsets == {0, 3}
ConstContents ==
  LET other(a, d) == [alice |-> a, bob |-> 3 - a, decoy |-> d, result |-> 1 - d] IN
  {[i \in Events |-> IF i % 2 = 1 THEN e ELSE other(a, d)] :
     e \in Event, a \in 0..3, d \in 0..1}

\* Bob's FIFOs in the order of reset_ipc_fifos.
BobFifos == <<"angles", "gcr", "gc">>

AnyRates == CHOOSE r \in [Sides -> Kinds] : TRUE
AnyConf == CHOOSE c \in Conf : TRUE

partVars == <<part, actorVars, drawVars, recordVars, pathVars, connVars>>

PartsInit ==
  /\ part \in {"actor", "draws", "records", "paths", "connections"}
  /\ Init /\ DrawInit /\ RecordsInit /\ PathInit /\ ConnInit
  /\ part # "draws" => rates = AnyRates /\ decoys = [s \in Sides |-> FALSE]
  /\ part # "records" => conf = AnyConf

\* Where something else is looked at, the first session begins without a fault.
MainThread ==
  /\ PathNext /\ (part = "paths" \/ (sup # "session" /\ faults' = 0))
  /\ UNCHANGED <<actorVars, drawVars, recordVars, connVars>>

InSession ==
  /\ sup = "session" /\ UNCHANGED pathVars
  /\ \/ part = "actor" /\ Next /\ UNCHANGED <<drawVars, recordVars, connVars>>
     \/ part = "draws" /\ DrawNext /\ UNCHANGED <<actorVars, recordVars, connVars>>
     \/ part = "records" /\ RecordsNext /\ UNCHANGED <<actorVars, drawVars, connVars>>
     \/ part = "connections" /\ ConnNext /\ UNCHANGED <<actorVars, drawVars, recordVars>>

PartsNext == UNCHANGED part /\ (MainThread \/ InSession)

\* The fairness of the five modules.  In the parts not looked at no
\* call is made, no client comes, and a session asks nothing of the main thread.
PartsSpec ==
  /\ PartsInit /\ [][PartsNext]_partVars
  /\ Fairness /\ WF_pathVars(SupervisorStep)
  /\ WF_connVars(ServerStep)
  /\ \A c \in Courteous : WF_connVars(AllAnswered(c) /\ HangUp(c))
=============================================================================
