------------------------------ MODULE PairPause ------------------------------
(***************************************************************************)
(* What recalibrating a pair promises, without sockets, time-outs and      *)
(* clients: a simulator catches up only while no other one generates, and  *)
(* none goes back to its sessions before all that are left have caught up  *)
(* (hw_sim_control/src/lib.rs:105-169).  A simulator may end at any point. *)
(***************************************************************************)
CONSTANT Pair

VARIABLES
  mode,     \* where each simulator stands
  aligned   \* those left have caught up and not all of them are back

vars == <<mode, aligned>>

Modes == {"serving", "paused", "realigned", "exited"}

Init == mode = [p \in Pair |-> "serving"] /\ aligned = FALSE

Move(p, from, to) == mode[p] = from /\ mode' = [mode EXCEPT ![p] = to]

Hold(p) == Move(p, "serving", "paused") /\ UNCHANGED aligned

Held(p) == mode[p] \in {"paused", "realigned"}

Realign(p) ==
  /\ Move(p, "paused", "realigned")
  /\ \A q \in Pair \ {p} : Held(q) \/ mode[q] = "exited"
  /\ ~aligned /\ UNCHANGED aligned

Agree ==
  /\ \E p \in Pair : mode[p] = "realigned"
  /\ \A p \in Pair : mode[p] \in {"realigned", "exited"}
  /\ ~aligned /\ aligned' = TRUE
  /\ UNCHANGED mode

\* Others that are not back yet are still aligned.
StillAligned(p) == aligned /\ \E q \in Pair \ {p} : mode[q] = "realigned"

Release(p) ==
  /\ Move(p, "realigned", "serving")
  /\ aligned /\ aligned' = StillAligned(p)

\* A command fails, or the process is lost.
Exit(p) ==
  /\ mode[p] # "exited" /\ mode' = [mode EXCEPT ![p] = "exited"]
  /\ aligned' = StillAligned(p)

Next == Agree \/ \E p \in Pair : Hold(p) \/ Realign(p) \/ Release(p) \/ Exit(p)

Spec == Init /\ [][Next]_vars
=============================================================================
