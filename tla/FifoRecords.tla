----------------------------- MODULE FifoRecords -----------------------------
(***************************************************************************)
(* What a simulator puts into its FIFOs (sim_lib/src/simulation/batches.rs *)
(* and Simulator::generate_batch): the global counters of a session's      *)
(* events, the GCR records that carry them with the results, and the       *)
(* packed angles of both players.  The reader at the other end decodes.    *)
(***************************************************************************)
EXTENDS Naturals, Sequences

CONSTANTS
  BATCH,       \* BATCH, an even number of events
  LowWeight,   \* 2^48, the weight of byte 6 of a record
  Pulses,      \* the batch_pulse_counts of the configurations considered
  Offsets,     \* their gc_offsets
  Contents,    \* what the batches considered are made of
  MaxEvents    \* bound on the pulses of a session

ASSUME BatchAssumption == BATCH \in Nat \ {0} /\ BATCH % 2 = 0
ASSUME WeightAssumption == LowWeight \in Nat \ {0}
\* BATCH_SIZE / eta for an effective eta of at most 1.
ASSUME PulsesAssumption == Pulses \subseteq Nat /\ \A p \in Pulses : p >= BATCH
ASSUME CounterAssumption == Offsets \subseteq Nat /\ MaxEvents \in Nat

Events == 1 .. BATCH
Event == [alice : 0..3, bob : 0..3, decoy : 0..1, result : 0..1]

ASSUME ContentsAssumption == Contents \subseteq [Events -> Event]

VARIABLES
  conf,          \* batch_pulse_count, gc_offset and use_gcr_padding
  session,       \* modulator_state
  event_count,   \* last_event_count
  batch,         \* the batch being sent: what its events are
  gcr, alice, bob,   \* the three FIFOs
  heard          \* the last counter decoded in this session, plus one

recordVars == <<conf, session, event_count, batch, gcr, alice, bob, heard>>

Conf == [pulses : Pulses, offset : Offsets, padding : BOOLEAN]

NoBatch == [base_gc |-> 0, gc_step |-> 0, events |-> <<>>]
Nothing == batch = NoBatch

RecordsTypeOK ==
  /\ conf \in Conf
  /\ session \in {"Idle", "Random"} /\ event_count \in 0..MaxEvents
  /\ batch = NoBatch \/ batch \in [base_gc : Nat, gc_step : 1..MaxEvents, events : [Events -> Event]]
  /\ alice \in Seq(0..255) /\ bob \in Seq(0..255)
  /\ heard \in 0 .. 2 * LowWeight

----------------------------------------------------------------------------
(* Encodings.                                                              *)

\* Faulty variant: the two bits are put beside the counter without clearing theirs.
EncodeKeepingBits(gc, result) ==
  LET shifted == gc \div 2 IN
  [low |-> shifted % LowWeight, flags |-> (shifted \div LowWeight) + (gc % 2) + 2 * result]

\* encode_gcr: bytes 0 to 5, and bytes 6 and 7 as one number.
Encode(gc, result) ==
  LET shifted == gc \div 2 IN
  [low |-> shifted % LowWeight,
   flags |-> 4 * (shifted \div (4 * LowWeight)) + (gc % 2) + 2 * result]

Pad == [low |-> 0, flags |-> 0]

\* to_gcr_batch
ToGcrBatch(b, padding) ==
  LET record(i) == Encode(b.base_gc + (i - 1) * b.gc_step, b.events[i].result) IN
  IF padding
    THEN [k \in 1 .. 2 * BATCH |-> IF k % 2 = 1 THEN record((k + 1) \div 2) ELSE Pad]
    ELSE [k \in Events |-> record(k)]

\* Two events to a byte, the first in the low nibble.
Pack(nibble) == [k \in 1 .. BATCH \div 2 |-> nibble[2 * k - 1] + 16 * nibble[2 * k]]

\* to_alice_fifo: 0 [d][b1][b0]
ToAliceFifo(b) == Pack([i \in Events |-> (b.events[i].alice % 4) + 4 * b.events[i].decoy])

\* to_bob_angle_fifo: 00[b1][b0]
ToBobFifo(b) == Pack([i \in Events |-> b.events[i].bob % 4])

----------------------------------------------------------------------------
(* The reader (external).                                                  *)

DecodeCounter(record) == 2 * record.low + (record.flags % 2)
DecodeResult(record) == (record.flags \div 2) % 2

\* The records of a batch, without its pads.
Records == IF conf.padding THEN [i \in 1 .. Len(gcr) \div 2 |-> gcr[2 * i - 1]] ELSE gcr

Nibble(bytes, i) ==
  IF i % 2 = 1 THEN bytes[(i + 1) \div 2] % 16 ELSE bytes[i \div 2] \div 16

----------------------------------------------------------------------------
RecordsInit ==
  /\ conf \in Conf
  /\ session = "Idle" /\ event_count = 0
  /\ batch = NoBatch /\ gcr = <<>> /\ alice = <<>> /\ bob = <<>>
  /\ heard = 0

\* initialize_session, on a new connection.
Start ==
  /\ session = "Idle"
  /\ session' = "Random" /\ event_count' = 0 /\ heard' = 0
  /\ UNCHANGED <<conf, batch, gcr, alice, bob>>

\* Faulty variant: the step is rounded up.
StepRoundedUp(pulses) == (pulses + BATCH - 1) \div BATCH

\* gc_step
Step(pulses) == IF pulses \div BATCH > 1 THEN pulses \div BATCH ELSE 1

\* generate_batch, and the batch is written.
GenerateBatch ==
  /\ session = "Random" /\ Nothing
  /\ event_count + conf.pulses <= MaxEvents
  /\ \E events \in Contents :
       LET b == [base_gc |-> conf.offset + event_count,
                 gc_step |-> Step(conf.pulses), events |-> events] IN
       /\ batch' = b
       /\ gcr' = ToGcrBatch(b, conf.padding)
       /\ alice' = ToAliceFifo(b) /\ bob' = ToBobFifo(b)
  /\ event_count' = event_count + conf.pulses
  /\ UNCHANGED <<conf, session, heard>>

\* The nodes have read the batch.
ReadBatch ==
  /\ ~Nothing
  /\ heard' = DecodeCounter(Records[BATCH]) + 1
  /\ batch' = NoBatch /\ gcr' = <<>> /\ alice' = <<>> /\ bob' = <<>>
  /\ UNCHANGED <<conf, session, event_count>>

\* setup_session_end
Stop ==
  /\ session = "Random" /\ Nothing
  /\ session' = "Idle"
  /\ UNCHANGED <<conf, event_count, batch, gcr, alice, bob, heard>>

RecordsNext == Start \/ GenerateBatch \/ ReadBatch \/ Stop

RecordsSpec == RecordsInit /\ [][RecordsNext]_recordVars

----------------------------------------------------------------------------
\* The counters a reader decodes rise from record to record, within a batch and
\* from one batch of a session to the next, though each is spaced by a rounded
\* step (gc_step); a record carries 49 bits of a counter (encode_gcr).
CountersRise ==
  ~Nothing /\ batch.base_gc + (BATCH - 1) * batch.gc_step < 2 * LowWeight =>
    /\ heard <= DecodeCounter(Records[1])
    /\ \A i \in 1 .. Len(Records) - 1 : DecodeCounter(Records[i]) < DecodeCounter(Records[i + 1])

\* What is decoded is what was generated: results, settings and intensities,
\* whatever the counter beside them.
DecodesAsSent ==
  ~Nothing =>
    \A i \in Events :
      /\ DecodeResult(Records[i]) = batch.events[i].result
      /\ Nibble(alice, i) % 4 = batch.events[i].alice
      /\ Nibble(alice, i) \div 4 = batch.events[i].decoy
      /\ Nibble(bob, i) = batch.events[i].bob
=============================================================================
