----------------------------- MODULE Correlation -----------------------------
(***************************************************************************)
(* The correlation of two simulators (generate_correlation_batch in        *)
(* sim_lib/src/simulation/mod.rs): they never talk, and agree on the       *)
(* events of a batch only because equally seeded generators are drawn from *)
(* in the same order.  A draw is its position in a generator's stream.     *)
(* Each side has its own configuration of the error rate and of decoy      *)
(* states and may come under attack at any time; the batches it discards   *)
(* are drawn like the others.                                              *)
(***************************************************************************)
EXTENDS Naturals

CONSTANTS
  Sides,        \* the two simulators
  MaxBatches    \* bound on the batches each draws

ASSUME MaxBatchesAssumption == MaxBatches \in Nat \ {0}

VARIABLES
  rates,      \* per side, its qb_err
  decoys,     \* per side, whether its decoy_states is Some
  modulator,  \* modulator_state of each side
  attacked,   \* is_under_attack
  rng,        \* draws made of the main stream
  qber_rng,   \* draws made of qber_oscillation_rng
  drawn,      \* batches drawn, kept or discarded
  last        \* what the last batch was made of

drawVars == <<rates, decoys, modulator, attacked, rng, qber_rng, drawn, last>>

Kinds == {"fixed", "uniform", "gaussian"}

\* rng.fill for settings, outcomes and errors of one batch; with decoy states, for
\* intensities besides.
Fills(d) == IF d THEN 5 ELSE 4
MaxDraws == 6 * MaxBatches

NoDraws == [alice |-> 0, bob |-> 0, result |-> 0, flip |-> 0, decoy |-> 0, threshold |-> 0]

DrawTypeOK ==
  /\ rates \in [Sides -> Kinds] /\ decoys \in [Sides -> BOOLEAN]
  /\ modulator \in [Sides -> {"Idle", "Random"}] /\ attacked \in [Sides -> BOOLEAN]
  /\ rng \in [Sides -> 0..MaxDraws] /\ qber_rng \in [Sides -> 0..MaxDraws]
  /\ drawn \in [Sides -> 0..MaxBatches]
  /\ last \in [Sides -> [DOMAIN NoDraws -> 0..MaxDraws]]

\* SimulatorBuilder::from_config: both generators are seeded with conf.seed.
DrawInit ==
  /\ rates \in [Sides -> Kinds] /\ decoys \in [Sides -> BOOLEAN]
  /\ modulator = [s \in Sides |-> "Idle"] /\ attacked = [s \in Sides |-> FALSE]
  /\ rng = [s \in Sides |-> 0] /\ qber_rng = [s \in Sides |-> 0]
  /\ drawn = [s \in Sides |-> 0] /\ last = [s \in Sides |-> NoDraws]

----------------------------------------------------------------------------
\* The draws that current_qb_err takes: one for Uniform, two for Gaussian.
RateDraws(s) ==
  CASE attacked[s] \/ rates[s] = "fixed" -> 0
    [] ~attacked[s] /\ rates[s] = "uniform" -> 1
    [] ~attacked[s] /\ rates[s] = "gaussian" -> 2

\* The batch whose fills of the main stream follow its first p draws.
BatchAt(d, p, threshold) ==
  [alice |-> p + 1, bob |-> p + 2, result |-> p + 3, flip |-> p + 4,
   decoy |-> IF d THEN p + 5 ELSE 0, threshold |-> threshold]

\* Faulty variant: the error rate is drawn from the main stream.
DrawOfOneStream(s) ==
  /\ modulator[s] = "Random" /\ drawn[s] < MaxBatches
  /\ last' = [last EXCEPT ![s] = BatchAt(decoys[s], rng[s] + RateDraws(s), RateDraws(s))]
  /\ rng' = [rng EXCEPT ![s] = @ + RateDraws(s) + Fills(decoys[s])]
  /\ drawn' = [drawn EXCEPT ![s] = @ + 1]
  /\ UNCHANGED <<rates, decoys, modulator, attacked, qber_rng>>

\* generate_correlation_batch, for a batch that is sent, queued or discarded.
Draw(s) ==
  /\ modulator[s] = "Random" /\ drawn[s] < MaxBatches
  /\ last' = [last EXCEPT ![s] = BatchAt(decoys[s], rng[s], qber_rng[s] + RateDraws(s))]
  /\ rng' = [rng EXCEPT ![s] = @ + Fills(decoys[s])]
  /\ qber_rng' = [qber_rng EXCEPT ![s] = @ + RateDraws(s)]
  /\ drawn' = [drawn EXCEPT ![s] = @ + 1]
  /\ UNCHANGED <<rates, decoys, modulator, attacked>>

\* initialize_session, "without restarting the random streams".
StartSession(s) ==
  /\ modulator' = [modulator EXCEPT ![s] = "Random"]
  /\ UNCHANGED <<rates, decoys, attacked, rng, qber_rng, drawn, last>>

\* setup_session_end
EndSession(s) ==
  /\ modulator' = [modulator EXCEPT ![s] = "Idle"]
  /\ UNCHANGED <<rates, decoys, attacked, rng, qber_rng, drawn, last>>

StartAttack(s) ==
  /\ attacked' = [attacked EXCEPT ![s] = TRUE]
  /\ UNCHANGED <<rates, decoys, modulator, rng, qber_rng, drawn, last>>

StopAttack(s) ==
  /\ attacked' = [attacked EXCEPT ![s] = FALSE]
  /\ UNCHANGED <<rates, decoys, modulator, rng, qber_rng, drawn, last>>

DrawNext ==
  \E s \in Sides :
    Draw(s) \/ StartSession(s) \/ EndSession(s) \/ StartAttack(s) \/ StopAttack(s)

DrawSpec == DrawInit /\ [][DrawNext]_drawVars

----------------------------------------------------------------------------
\* "changing QBER parameters doesn't desynchronize the main RNG sequence":
\* whatever the error rates, attacks and sessions of either side, the batches of
\* the same number have the same settings, outcomes and intensities on both, if
\* both or neither are configured with decoy states.
SameBatches ==
  \A s, t \in Sides :
    drawn[s] = drawn[t] /\ decoys[s] = decoys[t] =>
      \A f \in {"alice", "bob", "result", "flip", "decoy"} : last[s][f] = last[t][f]
=============================================================================
