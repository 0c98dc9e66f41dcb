----------------------------- MODULE MCRestarts -----------------------------
(* The pair of simulators, any number of sessions, either process crashing  *)
(* at any point.  Counters modulo 2 show a number that is off by one.       *)
EXTENDS Restarts

\* The register is read before a START only: what the controller writes into it
\* inside the loop it may as well write when the loop is left.
RegisterAtRest == \A p \in Players : run[p] \in Loop => mmio'[p] = mmio[p]

CalmSpec == RestartInit /\ [][RestartNext /\ RegisterAtRest]_restartVars /\ Fairness
=============================================================================
