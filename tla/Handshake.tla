----------------------------- MODULE Handshake -----------------------------
(***************************************************************************)
(* What the two handshake files promise, without files, events or threads: *)
(* the hardware is withdrawn, the node lets go of it, only then is it      *)
(* rebuilt, and only a serving simulator is ever attached to.              *)
(* RuntimeStatus implements it.                                            *)
(***************************************************************************)
CONSTANT Players

VARIABLES
  phase,     \* what the simulator of each player offers
  attached   \* the node of each player holds the simulator's FIFOs

vars == <<phase, attached>>

Phases == {"down", "serving", "withdrawn", "acknowledged"}

TypeOK ==
  /\ phase \in [Players -> Phases]
  /\ attached \in [Players -> BOOLEAN]

Init ==
  /\ phase = [p \in Players |-> "down"]
  /\ attached = [p \in Players |-> FALSE]

Shift(p, from, to) ==
  /\ phase[p] = from
  /\ phase' = [phase EXCEPT ![p] = to]
  /\ UNCHANGED attached

Start(p) == Shift(p, "down", "serving")

Withdraw(p) == Shift(p, "serving", "withdrawn")

Acknowledge(p) == ~attached[p] /\ Shift(p, "withdrawn", "acknowledged")

Announce(p) == Shift(p, "acknowledged", "serving")

Stop(p) == phase[p] # "down" /\ Shift(p, phase[p], "down")

Attach(p) ==
  /\ phase[p] = "serving" /\ ~attached[p]
  /\ attached' = [attached EXCEPT ![p] = TRUE]
  /\ UNCHANGED phase

Detach(p) ==
  /\ attached[p]
  /\ attached' = [attached EXCEPT ![p] = FALSE]
  /\ UNCHANGED phase

Next ==
  \E p \in Players :
    \/ Start(p) \/ Withdraw(p) \/ Acknowledge(p) \/ Announce(p) \/ Stop(p)
    \/ Attach(p) \/ Detach(p)

Spec == Init /\ [][Next]_vars
=============================================================================
