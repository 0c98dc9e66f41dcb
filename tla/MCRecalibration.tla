-------------------------- MODULE MCRecalibration --------------------------
(* Two runs of hw_sim_control against a pair, with one batch a side (the    *)
(* runs are alike), or one run with up to three batches a side.             *)
EXTENDS Recalibration, TLC

ClientSymmetry == Permutations(Clients)

\* The registers are set for good: as nothing is fair here, a simulator whose
\* register is cleared is one that does not poll it yet.
RegistersSet == mmio = [p \in Players |-> 1]

\* Not both simulators end.
OneIsLeft == \E p \in Players : main[p] # "exited"

\* Requests that have timed out are those of one client at a time.
OneGivesUp ==
  \E c \in Clients : \A d \in Clients \ {c} : \A p \in Players : ask[d][p] # "timeout"

\* A node leaves once its simulator has, and Bob's also when Alice's has left and
\* Bob waits for an echo that will not come (MCRestarts has the other orders).
NodesFollow ==
  \A p \in Players : linked[p] /\ ~linked'[p] =>
    run[p] = "closed" \/ (p = "bob" /\ ended[p] /\ run[p] = "read" /\ echo = <<>>)

Bounds == RegistersSet /\ OneIsLeft /\ OneGivesUp

SteadyInit == PairInit /\ mmio = [p \in Players |-> 1]

SteadySpec == SteadyInit /\ [][PairNext /\ Bounds' /\ NodesFollow]_pairVars
=============================================================================
