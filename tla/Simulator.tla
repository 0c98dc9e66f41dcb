----------------------------- MODULE Simulator -----------------------------
(***************************************************************************)
(* The simulator behind the actor of one process                           *)
(* (sim_lib/src/simulation/mod.rs), reduced to what decides whether two    *)
(* processes stay correlated: both draw from equally seeded streams, so a  *)
(* batch is its position in the stream, and two batches agree when their   *)
(* positions do.  The actor serialises the calls, each is one step.        *)
(***************************************************************************)
EXTENDS Naturals

CONSTANT Modulus   \* period of the stream and width of the event counter

ASSUME ModulusAssumption == Modulus \in Nat \ {0, 1}

Counter == 0 .. Modulus - 1

\* events counts batches: every batch adds the same batch_pulse_count, so
\* last_event_count is always that many times events.
Simulators == [modulator : {"Idle", "Random"}, events : Counter, stream : Counter]

\* SimulatorBuilder::from_config: Pcg64Mcg::seed_from_u64, modulator idle.
Fresh == [modulator |-> "Idle", events |-> 0, stream |-> 0]

Advance(n, k) == (n + k) % Modulus

\* Faulty variant: the session keeps the event counter.
InitializeKeepingEvents(s) == [s EXCEPT !.modulator = "Random"]

\* initialize_session resets the counter "without restarting the random streams".
Initialize(s) == [s EXCEPT !.modulator = "Random", !.events = 0]

\* setup_session_end: the counter keeps its last value.
End(s) == [s EXCEPT !.modulator = "Idle"]

\* generate_batch and discard_batches fail in any other modulator state.
CanGenerate(s) == s.modulator = "Random"

\* generate_batch: one batch, numbered s.events in its session (base_gc).
Generate(s) == [s EXCEPT !.events = Advance(@, 1), !.stream = Advance(@, 1)]

\* discard_batches(n): n calls of generate_batch, their batches dropped.
CanDiscard(s, n) == n = 0 \/ CanGenerate(s)
Discard(s, n) == [s EXCEPT !.events = Advance(@, n), !.stream = Advance(@, n)]
=============================================================================
