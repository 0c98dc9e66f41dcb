-------------------------- MODULE Simulator_proofs --------------------------
(***************************************************************************)
(* Proofs about the modules of one simulator: Correlation, for any number  *)
(* of sides and batches; FifoRecords, for any batch size, weight of the    *)
(* records' fields, configurations and contents; SimulatorActor, for any   *)
(* period of the counters and length of a discard.                         *)
(***************************************************************************)
EXTENDS SimulatorActor, Correlation, FifoRecords, Integers, TLAPS

USE MaxBatchesAssumption, BatchAssumption, WeightAssumption, PulsesAssumption,
    CounterAssumption, ContentsAssumption, ModulusAssumption, MaxCountAssumption

----------------------------------------------------------------------------
(* The draws behind the batches.                                           *)

\* The main stream has been drawn from equally often for every batch, whatever
\* the error rate took from its own; the last batch is made of the last draws.
InStep(s) ==
  /\ rng[s] = drawn[s] * Fills(decoys[s])
  /\ qber_rng[s] <= 2 * drawn[s]
  /\ drawn[s] = 0 => last[s] = NoDraws
  /\ drawn[s] > 0 => last[s] = BatchAt(decoys[s], rng[s] - Fills(decoys[s]), last[s].threshold)

DrawInv == DrawTypeOK /\ \A s \in Sides : InStep(s)

LEMMA FillsAre == \A d \in BOOLEAN : Fills(d) \in {4, 5} /\ (d => Fills(d) = 5)
BY DEF Fills

LEMMA DrawInitInv == DrawInit => DrawInv
<1> SUFFICES ASSUME DrawInit PROVE DrawInv
  OBVIOUS
<1>1. NoDraws \in [DOMAIN NoDraws -> 0..MaxDraws] BY DEF NoDraws, MaxDraws
<1>2. DrawTypeOK BY <1>1 DEF DrawInit, DrawTypeOK, MaxDraws
<1>3. \A s \in Sides : Fills(decoys[s]) \in Nat BY <1>2, FillsAre DEF DrawTypeOK
<1>4. \A s \in Sides : InStep(s) BY <1>3 DEF DrawInit, InStep
<1> QED BY <1>2, <1>4 DEF DrawInv

LEMMA DrawKeeps ==
  ASSUME DrawInv, NEW s \in Sides, Draw(s)
  PROVE  DrawInv'
<1> DEFINE threshold == qber_rng[s] + RateDraws(s)
           d == decoys[s]
           fills == Fills(d)
<1>1. DrawTypeOK /\ InStep(s) BY DEF DrawInv
<1>2. fills \in {4, 5} /\ (d => fills = 5) BY <1>1, FillsAre DEF DrawTypeOK
<1>3. /\ drawn[s] \in 0..MaxBatches /\ drawn[s] + 1 \in 0..MaxBatches
      /\ rng[s] \in Nat /\ rng[s] = drawn[s] * fills /\ qber_rng[s] \in Nat
      /\ rates[s] \in Kinds /\ attacked[s] \in BOOLEAN
  BY <1>1 DEF Draw, DrawTypeOK, InStep
<1>4. RateDraws(s) \in 0..2 BY <1>3 DEF RateDraws, Kinds
<1>5. /\ last' = [last EXCEPT ![s] = BatchAt(d, rng[s], threshold)]
      /\ rng' = [rng EXCEPT ![s] = @ + fills]
      /\ qber_rng' = [qber_rng EXCEPT ![s] = @ + RateDraws(s)]
      /\ drawn' = [drawn EXCEPT ![s] = @ + 1]
      /\ UNCHANGED <<rates, decoys, modulator, attacked>>
  BY DEF Draw
<1>6. /\ rng[s] + fills = (drawn[s] + 1) * fills /\ rng[s] + 5 <= MaxDraws
      /\ rng[s] + fills <= MaxDraws
      /\ threshold <= 2 * (drawn[s] + 1) /\ threshold \in 0..MaxDraws
  <2>1. qber_rng[s] <= 2 * drawn[s] BY <1>1 DEF InStep
  <2> HIDE DEF fills
  <2>2. CASE fills = 4 BY <1>3, <1>4, <2>1, <2>2 DEF MaxDraws
  <2>3. CASE fills = 5 BY <1>3, <1>4, <2>1, <2>3 DEF MaxDraws
  <2> QED BY <1>2, <2>2, <2>3
<1>7. BatchAt(d, rng[s], threshold) \in [DOMAIN NoDraws -> 0..MaxDraws]
  <2>1. \A i \in 1..5 : rng[s] + i \in 0..MaxDraws BY <1>3, <1>6 DEF MaxDraws
  <2>2. 0 \in 0..MaxDraws BY DEF MaxDraws
  <2>3. /\ rng[s] + 1 \in 0..MaxDraws /\ rng[s] + 2 \in 0..MaxDraws /\ rng[s] + 3 \in 0..MaxDraws
        /\ rng[s] + 4 \in 0..MaxDraws /\ (IF d THEN rng[s] + 5 ELSE 0) \in 0..MaxDraws
    BY <2>1, <2>2
  <2> HIDE DEF threshold, d
  <2> QED BY <1>6, <2>3 DEF BatchAt, NoDraws
<1>8. DrawTypeOK' BY <1>1, <1>2, <1>3, <1>5, <1>6, <1>7 DEF DrawTypeOK
<1>9. ASSUME NEW t \in Sides PROVE InStep(t)'
  <2>1. CASE t = s
    <3>1. /\ rng'[s] = (drawn[s] + 1) * fills /\ drawn'[s] = drawn[s] + 1 /\ qber_rng'[s] = threshold
          /\ last'[s] = BatchAt(d, rng[s], threshold)
      BY <1>1, <1>5, <1>6 DEF DrawTypeOK
    <3>2. last'[s].threshold = threshold /\ rng[s] = rng'[s] - fills
      BY <1>2, <1>3, <1>6, <3>1 DEF BatchAt
    <3>3. decoys'[s] = d BY <1>5
    <3>4. last'[s] = BatchAt(decoys'[s], rng'[s] - Fills(decoys'[s]), last'[s].threshold)
      BY <3>1, <3>2, <3>3
    <3> QED BY <1>2, <1>3, <1>6, <2>1, <3>1, <3>3, <3>4 DEF InStep
  <2>2. CASE t # s
    BY <1>1, <1>5, <2>2 DEF DrawInv, DrawTypeOK, InStep
  <2> QED BY <2>1, <2>2
<1> QED BY <1>8, <1>9 DEF DrawInv

LEMMA DrawStepInv == DrawInv /\ [DrawNext]_drawVars => DrawInv'
<1> SUFFICES ASSUME DrawInv, [DrawNext]_drawVars PROVE DrawInv'
  OBVIOUS
<1>1. ASSUME NEW s \in Sides, StartSession(s) \/ EndSession(s) \/ StartAttack(s) \/ StopAttack(s)
      PROVE DrawInv'
  <2>1. UNCHANGED <<rates, decoys, rng, qber_rng, drawn, last>>
    BY <1>1 DEF StartSession, EndSession, StartAttack, StopAttack
  <2>2. modulator' \in [Sides -> {"Idle", "Random"}] /\ attacked' \in [Sides -> BOOLEAN]
    BY <1>1 DEF StartSession, EndSession, StartAttack, StopAttack, DrawInv, DrawTypeOK
  <2>3. DrawTypeOK' BY <2>1, <2>2 DEF DrawInv, DrawTypeOK
  <2>4. \A t \in Sides : InStep(t)' BY <2>1 DEF DrawInv, InStep
  <2> QED BY <2>3, <2>4 DEF DrawInv
<1>2. CASE UNCHANGED drawVars BY <1>2 DEF drawVars, DrawInv, DrawTypeOK, InStep
<1> QED BY <1>1, <1>2, DrawKeeps DEF DrawNext

\* The inductive invariant: both generators' positions follow from the number
\* of batches alone.
THEOREM DrawInvariance == DrawSpec => []DrawInv
BY DrawInitInv, DrawStepInv, PTL DEF DrawSpec

\* The draws keep their types: never more than six of a stream for a batch.
THEOREM DrawTypeCorrect == DrawSpec => []DrawTypeOK
<1>1. DrawInv => DrawTypeOK BY DEF DrawInv
<1> QED BY <1>1, DrawInvariance, PTL

\* Batches of one number are made of the same draws on every side configured alike
\* with decoy states, whatever the error rates, attacks and sessions of each.
THEOREM SameBatchesAlways == DrawSpec => []SameBatches
<1>1. ASSUME DrawInv PROVE SameBatches
  <2> SUFFICES ASSUME NEW s \in Sides, NEW t \in Sides,
                      drawn[s] = drawn[t], decoys[s] = decoys[t],
                      NEW f \in {"alice", "bob", "result", "flip", "decoy"}
               PROVE  last[s][f] = last[t][f]
    BY DEF SameBatches
  <2>1. InStep(s) /\ InStep(t) /\ drawn[s] \in Nat BY <1>1 DEF DrawInv, DrawTypeOK
  <2>2. CASE drawn[s] = 0 BY <2>1, <2>2 DEF InStep
  <2>3. CASE drawn[s] > 0
    <3>1. rng[s] = rng[t] BY <2>1 DEF InStep
    <3>2. \A d, p, m, n : BatchAt(d, p, m)[f] = BatchAt(d, p, n)[f] BY DEF BatchAt
    <3> DEFINE p == rng[s] - Fills(decoys[s])
    <3>3. last[s] = BatchAt(decoys[s], p, last[s].threshold) /\ last[t] = BatchAt(decoys[s], p, last[t].threshold)
      BY <2>1, <2>3, <3>1 DEF InStep
    <3> QED BY <3>2, <3>3
  <2> QED BY <2>1, <2>2, <2>3
<1> QED BY <1>1, DrawInvariance, PTL

----------------------------------------------------------------------------
(* The records made of a batch: lemmas about the encodings.                *)

LEMMA Products ==
  ASSUME NEW a \in Nat, NEW b \in Nat, NEW c \in Nat
  PROVE  /\ a * c \in Nat
         /\ a <= b => a * c <= b * c
         /\ c > 0 /\ a < b => a * c < b * c
         /\ (a + 1) * c = a * c + c
OBVIOUS

LEMMA Division ==
  ASSUME NEW a \in Nat, NEW b \in Nat \ {0}
  PROVE  /\ a \div b \in Nat /\ a % b \in 0..(b - 1)
         /\ b * (a \div b) <= a
         /\ a % b <= a
         /\ a < b => a % b = a
OBVIOUS

\* A record carries the counter modulo 2 * LowWeight * ..., and the result as it is.
LEMMA EncodeDecodes ==
  ASSUME NEW gc \in Nat, NEW result \in 0..1
  PROVE  /\ DecodeResult(Encode(gc, result)) = result
         /\ DecodeCounter(Encode(gc, result)) \in 0..(2 * LowWeight - 1)
         /\ DecodeCounter(Encode(gc, result)) <= gc
         /\ gc < 2 * LowWeight => DecodeCounter(Encode(gc, result)) = gc
<1> DEFINE shifted == gc \div 2
<1> DEFINE high == shifted \div (4 * LowWeight)
<1> DEFINE low == shifted % LowWeight
<1> DEFINE flags == 4 * high + (gc % 2) + 2 * result
<1>1. shifted \in Nat /\ gc % 2 \in 0..1 /\ gc = 2 * shifted + (gc % 2) OBVIOUS
<1>2. high \in Nat
  <2>1. 4 * LowWeight \in Nat \ {0} OBVIOUS
  <2> QED BY <1>1, <2>1, Division
<1>3. low \in 0..(LowWeight - 1) /\ low <= shifted /\ (shifted < LowWeight => low = shifted)
  BY <1>1, Division
<1>4. Encode(gc, result) = [low |-> low, flags |-> flags] BY DEF Encode
<1> HIDE DEF shifted, high, low
<1>5. flags % 2 = gc % 2 /\ (flags \div 2) % 2 = result BY <1>1, <1>2
<1>6. DecodeResult(Encode(gc, result)) = result BY <1>4, <1>5 DEF DecodeResult
<1>7. DecodeCounter(Encode(gc, result)) = 2 * low + (gc % 2)
  <2>1. Encode(gc, result).low = low /\ Encode(gc, result).flags = flags BY <1>4
  <2>2. Encode(gc, result).flags % 2 = gc % 2 BY <1>5, <2>1
  <2> QED BY <2>1, <2>2 DEF DecodeCounter
<1>8. 2 * low + (gc % 2) \in 0..(2 * LowWeight - 1) /\ 2 * low + (gc % 2) <= gc BY <1>1, <1>3
<1>9. ASSUME gc < 2 * LowWeight PROVE 2 * low + (gc % 2) = gc
  <2>1. shifted < LowWeight BY <1>1, <1>9
  <2> QED BY <1>1, <1>3, <2>1
<1> QED BY <1>6, <1>7, <1>8, <1>9

LEMMA FunctionIsSeq ==
  ASSUME NEW n \in Nat, NEW S, NEW f \in [1..n -> S]
  PROVE  f \in Seq(S) /\ Len(f) = n
OBVIOUS

LEMMA HalfBatch ==
  /\ BATCH \div 2 \in Nat \ {0} /\ BATCH = 2 * (BATCH \div 2)
  /\ 1 \in Events /\ BATCH \in Events
BY DEF Events

\* Two events to a byte: the nibble of each is found again.
LEMMA PackUnpacks ==
  ASSUME NEW nibble \in [Events -> 0..15]
  PROVE  /\ Pack(nibble) \in Seq(0..255)
         /\ \A i \in Events : Nibble(Pack(nibble), i) = nibble[i]
<1> DEFINE bytes == Pack(nibble)
<1>1. \A k \in 1 .. BATCH \div 2 : 2 * k - 1 \in Events /\ 2 * k \in Events
  BY HalfBatch DEF Events
<1>2. \A k \in 1 .. BATCH \div 2 : bytes[k] = nibble[2 * k - 1] + 16 * nibble[2 * k]
  BY DEF Pack
<1>3. bytes \in [1 .. BATCH \div 2 -> 0..255]
  <2>1. \A k \in 1 .. BATCH \div 2 : nibble[2 * k - 1] + 16 * nibble[2 * k] \in 0..255
    BY <1>1
  <2> QED BY <2>1 DEF Pack
<1>4. bytes \in Seq(0..255)
  <2> HIDE DEF bytes
  <2> QED BY <1>3, HalfBatch, FunctionIsSeq
<1>5. ASSUME NEW i \in Events PROVE Nibble(bytes, i) = nibble[i]
  <2>1. CASE i % 2 = 1
    <3> DEFINE k == (i + 1) \div 2
    <3>1. k \in 1 .. BATCH \div 2 /\ 2 * k - 1 = i BY <2>1, HalfBatch DEF Events
    <3> HIDE DEF k
    <3>2. bytes[k] = nibble[i] + 16 * nibble[2 * k] BY <1>2, <3>1
    <3>3. nibble[i] \in 0..15 /\ nibble[2 * k] \in 0..15 BY <1>1, <3>1
    <3>4. (nibble[i] + 16 * nibble[2 * k]) % 16 = nibble[i] BY <3>3
    <3> QED BY <2>1, <3>2, <3>4 DEF Nibble, k
  <2>2. CASE i % 2 # 1
    <3> DEFINE k == i \div 2
    <3>1. k \in 1 .. BATCH \div 2 /\ 2 * k = i BY <2>2, HalfBatch DEF Events
    <3> HIDE DEF k
    <3>2. bytes[k] = nibble[2 * k - 1] + 16 * nibble[i] BY <1>2, <3>1
    <3>3. nibble[i] \in 0..15 /\ nibble[2 * k - 1] \in 0..15 BY <1>1, <3>1
    <3>4. (nibble[2 * k - 1] + 16 * nibble[i]) \div 16 = nibble[i] BY <3>3
    <3> QED BY <2>2, <3>2, <3>4 DEF Nibble, k
  <2> QED BY <2>1, <2>2
<1> QED BY <1>4, <1>5

LEMMA EventRanges ==
  ASSUME NEW e \in Event
  PROVE  /\ e.alice \in 0..3 /\ e.bob \in 0..3 /\ e.decoy \in 0..1 /\ e.result \in 0..1
         /\ (e.alice % 4) + 4 * e.decoy \in 0..15 /\ e.bob % 4 = e.bob
         /\ ((e.alice % 4) + 4 * e.decoy) % 4 = e.alice
         /\ ((e.alice % 4) + 4 * e.decoy) \div 4 = e.decoy
<1>1. e.alice \in 0..3 /\ e.bob \in 0..3 /\ e.decoy \in 0..1 /\ e.result \in 0..1 BY DEF Event
<1> QED BY <1>1

\* The angles of a batch are found again at both nodes.
LEMMA AnglesUnpack ==
  ASSUME NEW b, b.events \in [Events -> Event]
  PROVE  /\ ToAliceFifo(b) \in Seq(0..255) /\ ToBobFifo(b) \in Seq(0..255)
         /\ \A i \in Events :
              /\ Nibble(ToAliceFifo(b), i) % 4 = b.events[i].alice
              /\ Nibble(ToAliceFifo(b), i) \div 4 = b.events[i].decoy
              /\ Nibble(ToBobFifo(b), i) = b.events[i].bob
<1> DEFINE na == [i \in Events |-> (b.events[i].alice % 4) + 4 * b.events[i].decoy]
<1> DEFINE nb == [i \in Events |-> b.events[i].bob % 4]
<1>1. \A i \in Events : b.events[i] \in Event OBVIOUS
<1>2. na \in [Events -> 0..15] BY <1>1, EventRanges
<1>3. nb \in [Events -> 0..15]
  <2>1. \A i \in Events : b.events[i].bob % 4 \in 0..15 BY <1>1, EventRanges
  <2> QED BY <2>1
<1>4. ToAliceFifo(b) = Pack(na) /\ ToBobFifo(b) = Pack(nb) BY DEF ToAliceFifo, ToBobFifo
<1>5. ASSUME NEW i \in Events
      PROVE  /\ na[i] % 4 = b.events[i].alice /\ na[i] \div 4 = b.events[i].decoy
             /\ nb[i] = b.events[i].bob
  BY <1>1, EventRanges
<1> HIDE DEF na, nb
<1> QED BY <1>2, <1>3, <1>4, <1>5, PackUnpacks

----------------------------------------------------------------------------
(* The records made of a batch: the session.                               *)

\* The batch in the FIFOs is encoded as it is; its counters lie between those
\* decoded before it and those that are to come.
Written ==
  /\ batch.events \in [Events -> Event] /\ batch.base_gc \in Nat
  /\ gcr = ToGcrBatch(batch, conf.padding)
  /\ alice = ToAliceFifo(batch) /\ bob = ToBobFifo(batch)
  /\ batch.gc_step = Step(conf.pulses)
  /\ heard <= batch.base_gc
  /\ batch.base_gc + conf.pulses = conf.offset + event_count

RecordsInv ==
  /\ RecordsTypeOK
  /\ session = "Idle" => Nothing
  /\ ~Nothing => Written
  /\ Nothing => heard <= conf.offset + event_count

\* The spacing of the counters: the last of a batch stays below the next batch.
LEMMA Steps ==
  ASSUME NEW p \in Pulses
  PROVE  /\ p \in Nat /\ Step(p) \in Nat \ {0}
         /\ (BATCH - 1) * Step(p) + 1 <= p
         /\ Step(p) <= p
<1>1. p \in Nat /\ p >= BATCH /\ BATCH \in Nat \ {0} OBVIOUS
<1>2. p \div BATCH \in Nat /\ BATCH * (p \div BATCH) <= p BY <1>1, Division
<1> DEFINE st == Step(p)
<1>3. st \in Nat \ {0} /\ BATCH * st <= p
  <2>1. CASE p \div BATCH > 1 BY <1>2, <2>1 DEF Step
  <2>2. CASE ~(p \div BATCH > 1) BY <1>1, <2>2 DEF Step
  <2> QED BY <2>1, <2>2
<1> HIDE DEF st
<1>4. BATCH * st = (BATCH - 1) * st + st /\ (BATCH - 1) * st \in Nat
  <2>1. BATCH - 1 \in Nat OBVIOUS
  <2>2. ((BATCH - 1) + 1) * st = (BATCH - 1) * st + st /\ (BATCH - 1) * st \in Nat
    BY <1>3, <2>1, Products
  <2>3. (BATCH - 1) + 1 = BATCH OBVIOUS
  <2> QED BY <2>2, <2>3
<1>5. (BATCH - 1) * st + 1 <= p /\ st <= p BY <1>1, <1>3, <1>4
<1> QED BY <1>1, <1>3, <1>5 DEF st

LEMMA RecordsTypes ==
  ASSUME RecordsTypeOK
  PROVE  /\ conf.pulses \in Pulses /\ conf.pulses \in Nat /\ conf.offset \in Nat
         /\ conf.padding \in BOOLEAN /\ event_count \in 0..MaxEvents /\ heard \in 0 .. 2 * LowWeight
         /\ event_count \in Nat /\ heard \in Nat
<1>1. conf \in Conf /\ event_count \in 0..MaxEvents /\ heard \in 0 .. 2 * LowWeight BY DEF RecordsTypeOK
<1>2. conf.pulses \in Pulses /\ conf.offset \in Offsets /\ conf.padding \in BOOLEAN BY <1>1 DEF Conf
<1>3. event_count \in Nat /\ heard \in Nat BY <1>1
<1> QED BY <1>1, <1>2, <1>3

CounterAt(b, i) == b.base_gc + (i - 1) * b.gc_step

LEMMA RecordsOfBatch ==
  ASSUME RecordsInv, ~Nothing
  PROVE  /\ Len(Records) = BATCH
         /\ \A i \in Events : Records[i] = Encode(CounterAt(batch, i), batch.events[i].result)
<1>1. Written /\ conf.padding \in BOOLEAN BY DEF RecordsInv, RecordsTypeOK, Conf
<1> DEFINE record(i) == Encode(CounterAt(batch, i), batch.events[i].result)
<1> DEFINE padded == [k \in 1 .. 2 * BATCH |-> IF k % 2 = 1 THEN record((k + 1) \div 2) ELSE Pad]
<1> DEFINE plain == [k \in Events |-> record(k)]
<1>2. gcr = IF conf.padding THEN padded ELSE plain
  BY <1>1 DEF Written, ToGcrBatch, CounterAt
<1>3. CASE conf.padding
  <2>1. gcr = padded BY <1>2, <1>3
  <2>2. Len(gcr) = 2 * BATCH
    <3> DEFINE S == {padded[k] : k \in 1 .. 2 * BATCH}
    <3>1. padded \in [1 .. 2 * BATCH -> S] OBVIOUS
    <3> HIDE DEF padded, S
    <3> QED BY <2>1, <3>1, FunctionIsSeq
  <2>3. Records = [i \in 1 .. Len(gcr) \div 2 |-> gcr[2 * i - 1]] BY <1>3 DEF Records
  <2>4. Len(gcr) \div 2 = BATCH BY <2>2
  <2>5. Records = [i \in Events |-> gcr[2 * i - 1]] BY <2>3, <2>4 DEF Events
  <2>6. ASSUME NEW i \in Events PROVE Records[i] = record(i)
    <3>1. 2 * i - 1 \in 1 .. 2 * BATCH /\ (2 * i - 1) % 2 = 1 /\ ((2 * i - 1) + 1) \div 2 = i
      BY DEF Events
    <3>2. gcr[2 * i - 1] = record(((2 * i - 1) + 1) \div 2) BY <2>1, <3>1
    <3> QED BY <2>5, <3>1, <3>2
  <2>7. Len(Records) = BATCH
    <3> DEFINE S == {gcr[2 * i - 1] : i \in Events}
    <3>1. Records \in [1 .. BATCH -> S] BY <2>5 DEF Events
    <3> HIDE DEF S
    <3> QED BY <3>1, FunctionIsSeq
  <2> QED BY <2>6, <2>7
<1>4. CASE ~conf.padding
  <2>1. Records = plain BY <1>2, <1>4 DEF Records
  <2>2. Len(Records) = BATCH
    <3> DEFINE S == {plain[k] : k \in Events}
    <3>1. plain \in [1 .. BATCH -> S] BY DEF Events
    <3> HIDE DEF plain, S
    <3> QED BY <2>1, <3>1, FunctionIsSeq
  <2> QED BY <2>1, <2>2
<1> QED BY <1>3, <1>4

LEMMA CounterBounds ==
  ASSUME RecordsInv, ~Nothing
  PROVE  /\ \A i \in Events : /\ CounterAt(batch, i) \in Nat
                              /\ CounterAt(batch, i) <= batch.base_gc + (BATCH - 1) * batch.gc_step
         /\ \A i \in 1 .. BATCH - 1 : CounterAt(batch, i) < CounterAt(batch, i + 1)
         /\ CounterAt(batch, 1) = batch.base_gc
         /\ batch.base_gc + (BATCH - 1) * batch.gc_step + 1 <= conf.offset + event_count
         /\ \A i \in Events : batch.events[i].result \in 0..1
<1> DEFINE st == batch.gc_step
<1> DEFINE base == batch.base_gc
<1>1. Written /\ conf.pulses \in Pulses /\ conf.offset \in Nat /\ event_count \in Nat
  BY RecordsTypes DEF RecordsInv
<1>2. /\ base \in Nat /\ st \in Nat \ {0} /\ (BATCH - 1) * st + 1 <= conf.pulses
      /\ base + conf.pulses = conf.offset + event_count /\ conf.pulses \in Nat
  BY <1>1, Steps DEF Written
<1>3. ASSUME NEW i \in Events
      PROVE  /\ (i - 1) * st \in Nat /\ (i - 1) * st <= (BATCH - 1) * st
             /\ i * st = (i - 1) * st + st
  <2>1. i - 1 \in Nat /\ BATCH - 1 \in Nat /\ i - 1 <= BATCH - 1 BY DEF Events
  <2>2. ((i - 1) + 1) * st = (i - 1) * st + st BY <1>2, <2>1, Products
  <2>3. (i - 1) + 1 = i BY DEF Events
  <2> QED BY <1>2, <2>1, <2>2, <2>3, Products
<1>4. (BATCH - 1) * st \in Nat BY <1>2, <1>3, HalfBatch
<1> HIDE DEF st, base
<1>5. \A i \in Events : CounterAt(batch, i) \in Nat /\ CounterAt(batch, i) <= base + (BATCH - 1) * st
  BY <1>2, <1>3, <1>4 DEF CounterAt, st, base
<1>6. ASSUME NEW i \in 1 .. BATCH - 1 PROVE CounterAt(batch, i) < CounterAt(batch, i + 1)
  <2>1. i \in Events /\ (i + 1) - 1 = i BY DEF Events
  <2>2. CounterAt(batch, i) = base + (i - 1) * st /\ CounterAt(batch, i + 1) = base + i * st
    BY <2>1 DEF CounterAt, st, base
  <2> QED BY <1>2, <1>3, <2>1, <2>2
<1>7. CounterAt(batch, 1) = base
  <2>1. (1 - 1) * st = 0 BY <1>2
  <2> QED BY <1>2, <2>1 DEF CounterAt, st, base
<1>8. base + (BATCH - 1) * st + 1 <= conf.offset + event_count BY <1>1, <1>2, <1>4
<1>9. \A i \in Events : batch.events[i].result \in 0..1
  BY <1>1, EventRanges DEF Written
<1> QED BY <1>5, <1>6, <1>7, <1>8, <1>9 DEF st, base

LEMMA RecordsInitInv == RecordsInit => RecordsInv
<1> SUFFICES ASSUME RecordsInit PROVE RecordsInv
  OBVIOUS
<1>1. conf \in Conf /\ conf.offset \in Nat BY DEF RecordsInit, Conf
<1>2. Nothing /\ heard = 0 /\ event_count = 0 /\ session = "Idle" BY DEF RecordsInit, Nothing
<1>3. alice \in Seq(0..255) /\ bob \in Seq(0..255) BY DEF RecordsInit
<1>4. RecordsTypeOK BY <1>1, <1>2, <1>3 DEF RecordsTypeOK, Nothing
<1> QED BY <1>1, <1>2, <1>4 DEF RecordsInv

LEMMA GenerateBatchKeeps ==
  ASSUME RecordsInv, GenerateBatch
  PROVE  RecordsInv'
<1>1. PICK events \in Contents :
        LET b == [base_gc |-> conf.offset + event_count,
                  gc_step |-> Step(conf.pulses), events |-> events] IN
        /\ batch' = b
        /\ gcr' = ToGcrBatch(b, conf.padding)
        /\ alice' = ToAliceFifo(b) /\ bob' = ToBobFifo(b)
  BY DEF GenerateBatch
<1> DEFINE b == [base_gc |-> conf.offset + event_count,
                 gc_step |-> Step(conf.pulses), events |-> events]
<1>2. /\ session = "Random" /\ Nothing /\ event_count + conf.pulses <= MaxEvents
      /\ event_count' = event_count + conf.pulses /\ UNCHANGED <<conf, session, heard>>
  BY DEF GenerateBatch
<1>3. /\ conf.pulses \in Pulses /\ conf.pulses \in Nat /\ conf.offset \in Nat
      /\ event_count \in Nat /\ heard \in Nat
  BY RecordsTypes DEF RecordsInv
<1>4. Step(conf.pulses) \in 1..MaxEvents /\ event_count + conf.pulses \in 0..MaxEvents
  <2> DEFINE st == Step(conf.pulses)
  <2>1. st \in Nat \ {0} /\ st <= conf.pulses BY <1>3, Steps
  <2> HIDE DEF st
  <2>2. st \in 1..MaxEvents BY <1>2, <1>3, <2>1
  <2> QED BY <1>2, <1>3, <2>2 DEF st
<1>5. b.events \in [Events -> Event] /\ b.base_gc \in Nat
      /\ b \in [base_gc : Nat, gc_step : 1..MaxEvents, events : [Events -> Event]]
  BY <1>3, <1>4
<1>6. batch' = b /\ gcr' = ToGcrBatch(b, conf.padding) /\ alice' = ToAliceFifo(b) /\ bob' = ToBobFifo(b)
  BY <1>1
<1>7. b # NoBatch BY <1>4 DEF NoBatch
<1>8. RecordsTypeOK'
  <2>1. ToAliceFifo(b) \in Seq(0..255) /\ ToBobFifo(b) \in Seq(0..255) BY <1>5, AnglesUnpack
  <2> HIDE DEF b
  <2> QED BY <1>2, <1>3, <1>4, <1>5, <1>6, <2>1 DEF RecordsInv, RecordsTypeOK, Conf
<1>9. Written'
  <2>1. heard <= conf.offset + event_count BY <1>2 DEF RecordsInv
  <2>2. b.base_gc + conf.pulses = conf.offset + (event_count + conf.pulses) BY <1>3, <1>4
  <2>3. b.gc_step = Step(conf.pulses) /\ b.base_gc = conf.offset + event_count OBVIOUS
  <2> HIDE DEF b
  <2> QED BY <1>2, <1>5, <1>6, <2>1, <2>2, <2>3
          DEF Written, ToGcrBatch, ToAliceFifo, ToBobFifo, Pack, Encode, Step, Pad
<1>10. ~Nothing' /\ session' = "Random" BY <1>2, <1>6, <1>7 DEF Nothing, NoBatch
<1> QED BY <1>8, <1>9, <1>10 DEF RecordsInv

LEMMA ReadBatchKeeps ==
  ASSUME RecordsInv, ReadBatch
  PROVE  RecordsInv'
<1>1. ~Nothing BY DEF ReadBatch
<1> DEFINE top == CounterAt(batch, BATCH)
<1>2. /\ Records[BATCH] = Encode(top, batch.events[BATCH].result)
      /\ top \in Nat /\ top + 1 <= conf.offset + event_count
      /\ batch.events[BATCH].result \in 0..1
  <2>1. top \in Nat /\ top <= batch.base_gc + (BATCH - 1) * batch.gc_step
    BY <1>1, CounterBounds, HalfBatch
  <2>2. top = batch.base_gc + (BATCH - 1) * batch.gc_step BY DEF CounterAt
  <2> HIDE DEF top
  <2>3. top + 1 <= conf.offset + event_count BY <1>1, <2>2, CounterBounds
  <2> QED BY <1>1, <2>1, <2>3, CounterBounds, RecordsOfBatch, HalfBatch DEF top
<1> HIDE DEF top
<1> DEFINE d == DecodeCounter(Records[BATCH])
<1>3. d \in 0..(2 * LowWeight - 1) /\ d <= top BY <1>2, EncodeDecodes
<1>4. /\ heard' = d + 1 /\ batch' = NoBatch /\ alice' = <<>> /\ bob' = <<>>
      /\ UNCHANGED <<conf, session, event_count>>
  BY DEF ReadBatch
<1> HIDE DEF d
<1>5. heard' \in 0 .. 2 * LowWeight /\ heard' <= conf.offset + event_count
  <2>1. conf.offset \in Nat /\ event_count \in Nat BY RecordsTypes DEF RecordsInv
  <2> QED BY <1>2, <1>3, <1>4, <2>1
<1>6. alice' \in Seq(0..255) /\ bob' \in Seq(0..255) BY <1>4
<1>7. RecordsTypeOK' BY <1>4, <1>5, <1>6 DEF RecordsInv, RecordsTypeOK, NoBatch
<1>8. Nothing' BY <1>4 DEF Nothing, NoBatch
<1> QED BY <1>4, <1>5, <1>7, <1>8 DEF RecordsInv

LEMMA RecordsStepInv == RecordsInv /\ [RecordsNext]_recordVars => RecordsInv'
<1> SUFFICES ASSUME RecordsInv, [RecordsNext]_recordVars PROVE RecordsInv'
  OBVIOUS
<1>1. CASE Start
  <2>1. conf.offset \in Nat /\ heard' = 0 /\ event_count' = 0 /\ session' = "Random" /\ Nothing
        /\ UNCHANGED <<conf, batch, gcr, alice, bob>>
    BY <1>1 DEF Start, RecordsInv, RecordsTypeOK, Conf
  <2>2. RecordsTypeOK' BY <2>1 DEF RecordsInv, RecordsTypeOK
  <2>3. Nothing' BY <2>1 DEF Nothing
  <2> QED BY <2>1, <2>2, <2>3 DEF RecordsInv
<1>2. CASE Stop
  BY <1>2 DEF Stop, RecordsInv, RecordsTypeOK, Nothing, Written
<1>3. CASE UNCHANGED recordVars
  <2>1. UNCHANGED <<conf, session, event_count, batch, gcr, alice, bob, heard>>
    BY <1>3 DEF recordVars
  <2>2. RecordsTypeOK' BY <2>1 DEF RecordsInv, RecordsTypeOK
  <2>3. Nothing' <=> Nothing BY <2>1 DEF Nothing
  <2>4. Written => Written'
    BY <2>1 DEF Written, ToGcrBatch, ToAliceFifo, ToBobFifo, Pack, Encode, Step, Pad
  <2> QED BY <2>1, <2>2, <2>3, <2>4 DEF RecordsInv
<1> QED BY <1>1, <1>2, <1>3, GenerateBatchKeeps, ReadBatchKeeps DEF RecordsNext

\* The inductive invariant: both FIFOs hold the records and the nibbles of the batch
\* generated last, or nothing (write of GcrBatch and of the angles).
THEOREM RecordsInvariance == RecordsSpec => []RecordsInv
BY RecordsInitInv, RecordsStepInv, PTL DEF RecordsSpec

\* The session's state and the FIFOs keep their types: bytes are bytes.
THEOREM RecordsTypeCorrect == RecordsSpec => []RecordsTypeOK
<1>1. RecordsInv => RecordsTypeOK BY DEF RecordsInv
<1> QED BY <1>1, RecordsInvariance, PTL

\* Results, settings and intensities are decoded as they were generated, for
\* every batch size, counter and width of the fields.
THEOREM DecodesAsSentAlways == RecordsSpec => []DecodesAsSent
<1>1. ASSUME RecordsInv PROVE DecodesAsSent
  <2> SUFFICES ASSUME ~Nothing, NEW i \in Events
               PROVE  /\ DecodeResult(Records[i]) = batch.events[i].result
                      /\ Nibble(alice, i) % 4 = batch.events[i].alice
                      /\ Nibble(alice, i) \div 4 = batch.events[i].decoy
                      /\ Nibble(bob, i) = batch.events[i].bob
    BY DEF DecodesAsSent
  <2>1. batch.events \in [Events -> Event] /\ alice = ToAliceFifo(batch) /\ bob = ToBobFifo(batch)
    BY <1>1 DEF RecordsInv, Written
  <2>2. /\ Records[i] = Encode(CounterAt(batch, i), batch.events[i].result)
        /\ CounterAt(batch, i) \in Nat /\ batch.events[i].result \in 0..1
    BY <1>1, RecordsOfBatch, CounterBounds
  <2>3. DecodeResult(Records[i]) = batch.events[i].result BY <2>2, EncodeDecodes
  <2> QED BY <2>1, <2>3, AnglesUnpack
<1> QED BY <1>1, RecordsInvariance, PTL

\* Counters rise within a batch and from one batch of a session to the next.
THEOREM CountersRiseAlways == RecordsSpec => []CountersRise
<1>1. ASSUME RecordsInv PROVE CountersRise
  <2> DEFINE top == batch.base_gc + (BATCH - 1) * batch.gc_step
  <2> SUFFICES ASSUME ~Nothing, top < 2 * LowWeight
               PROVE  /\ heard <= DecodeCounter(Records[1])
                      /\ \A i \in 1 .. Len(Records) - 1 :
                           DecodeCounter(Records[i]) < DecodeCounter(Records[i + 1])
    BY DEF CountersRise
  <2>1. \A i \in Events : DecodeCounter(Records[i]) = CounterAt(batch, i)
    <3> TAKE i \in Events
    <3>1. /\ Records[i] = Encode(CounterAt(batch, i), batch.events[i].result)
          /\ CounterAt(batch, i) \in Nat /\ batch.events[i].result \in 0..1
          /\ CounterAt(batch, i) <= top
      BY <1>1, RecordsOfBatch, CounterBounds
    <3>2. top \in Nat
      <4>1. batch.gc_step \in Nat /\ batch.base_gc \in Nat /\ BATCH - 1 \in Nat
        <5>1. Written /\ conf.pulses \in Pulses BY <1>1, RecordsTypes DEF RecordsInv
        <5>2. Step(conf.pulses) \in Nat \ {0} BY <5>1, Steps
        <5> QED BY <5>1, <5>2 DEF Written
      <4> QED BY <4>1, Products
    <3> HIDE DEF top
    <3>3. CounterAt(batch, i) < 2 * LowWeight BY <3>1, <3>2
    <3> QED BY <3>1, <3>3, EncodeDecodes
  <2>2. heard <= DecodeCounter(Records[1])
    BY <1>1, <2>1, CounterBounds, HalfBatch DEF RecordsInv, Written
  <2>3. ASSUME NEW i \in 1 .. Len(Records) - 1
        PROVE  DecodeCounter(Records[i]) < DecodeCounter(Records[i + 1])
    <3>1. i \in 1 .. BATCH - 1 BY <1>1, RecordsOfBatch
    <3>2. i \in Events /\ i + 1 \in Events BY <3>1 DEF Events
    <3> QED BY <1>1, <2>1, <3>1, <3>2, CounterBounds
  <2> QED BY <2>2, <2>3
<1> QED BY <1>1, RecordsInvariance, PTL

----------------------------------------------------------------------------
(* The actor: the inductive invariant.                                     *)

Request(m) == [op |-> m.op, count |-> m.count]

\* The caller of a message waits for it and has not been answered.
Owed(m) ==
  m \in Messages /\ call[m.from] = Request(m) /\ answer[m.from] = Atomic!Pending

\* Every message in the actor's hands or its channel is owed an answer, and no
\* caller has two.
Messaging ==
  /\ hand # NoMessage =>
       Owed(hand) /\ \A i \in 1..Len(channel) : channel[i].from # hand.from
  /\ \A i \in 1..Len(channel) : Owed(channel[i])
  /\ \A i, j \in 1..Len(channel) : channel[i].from = channel[j].from => i = j
  /\ \A c \in Callers : call[c] = Atomic!NoCall => answer[c] = Atomic!Pending
  /\ thread = "gone" => hand = NoMessage /\ channel = <<>>
  /\ thread = "running" => \A c \in Callers : answer[c] # Atomic!Lost

\* A discard under way: left counts down from its count, in a session that
\* nothing can end before it is done.
Discarding ==
  /\ left <= hand.count
  /\ thread = "running" /\ hand.op = "discard" /\ left < hand.count => CanGenerate(sim)

MainOps ==
  CASE at = "closed" -> {"start"}
    [] at = "session" -> {"generate", "stop"}
    [] at \in {"failing", "realigned"} -> {"stop"}
    [] at = "paused" -> {"progress"}
    [] at = "measured" -> {"discard"}
    [] at = "exited" -> {}

Calling ==
  /\ call["main"] = Atomic!NoCall \/ call["main"].op \in MainOps
  /\ call["control"] = Atomic!NoCall \/ call["control"].op \in {"start_attack", "stop_attack"}

\* Batches the actor has generated for a call it has not answered.
Generated == IF hand.op = "discard" THEN hand.count - left ELSE 0

\* What taken is once the main thread has returned from request r with an
\* answer of kind k.
Outcome(r, k) ==
  CASE r.op = "start" /\ k = "ok" -> 0
    [] r.op = "generate" /\ k = "batch" -> Advance(taken, 1)
    [] r.op = "discard" /\ k = "ok" -> Advance(taken, r.count)
    [] OTHER -> taken

Accounted ==
  thread = "running" =>
    sim.events = IF answer["main"] = Atomic!Pending
                 THEN Advance(taken, Generated) ELSE Outcome(call["main"], Kind("main"))

ActorInv == TypeOK /\ Messaging /\ Discarding /\ Calling /\ Accounted

----------------------------------------------------------------------------
(* The actor: lemmas about the counters, messages and answers.             *)

LEMMA ModDivides ==
  ASSUME NEW m \in Nat \ {0}, NEW a \in Int
  PROVE  a \div m \in Int /\ a % m \in 0..(m - 1) /\ a = m * (a \div m) + (a % m)
OBVIOUS

LEMMA ModUnique ==
  ASSUME NEW m \in Nat \ {0}, NEW q \in Int, NEW r \in 0..(m - 1)
  PROVE  (m * q + r) % m = r
OBVIOUS

LEMMA ModShift ==
  ASSUME NEW m \in Nat \ {0}, NEW a \in Int, NEW k \in Int
  PROVE  ((a % m) + k) % m = (a + k) % m
<1> DEFINE p == a \div m
<1> DEFINE q == (a + k) \div m
<1> DEFINE r == (a + k) % m
<1> DEFINE s == a % m
<1>1. p \in Int /\ s \in 0..(m - 1) /\ a = m * p + s BY ModDivides
<1>2. q \in Int /\ r \in 0..(m - 1) /\ a + k = m * q + r
  <2>1. a + k \in Int OBVIOUS
  <2> QED BY <2>1, ModDivides
<1> HIDE DEF p, q, r
<1>3. s + k = m * (q - p) + r
  <2>1. s \in Int /\ a = m * p + s BY <1>1
  <2> HIDE DEF s
  <2>2. m * p \in Int /\ m * q \in Int /\ m * (q - p) = m * q - m * p BY <1>1, <1>2
  <2>3. s = a - m * p BY <2>1, <2>2
  <2>4. r = a + k - m * q BY <1>2, <2>2
  <2> QED BY <2>1, <2>2, <2>3, <2>4
<1>4. (m * (q - p) + r) % m = r
  <2>1. q - p \in Int BY <1>1, <1>2
  <2> QED BY <1>2, <2>1, ModUnique
<1> QED BY <1>3, <1>4 DEF r

\* Counting on, and back again.
LEMMA Counting ==
  ASSUME NEW x \in Counter, NEW k \in Nat
  PROVE  /\ Advance(x, k) \in Counter
         /\ Advance(x, 0) = x /\ (x - 0) % Modulus = x
         /\ Advance(Advance(x, k), 1) = Advance(x, k + 1)
         /\ (x - k) % Modulus \in Counter
         /\ Advance((x - k) % Modulus, k) = x
         /\ (Advance(x, 1) - (k + 1)) % Modulus = (x - k) % Modulus
<1>1. x \in Int /\ Modulus \in Nat \ {0} /\ x \in 0..(Modulus - 1) BY DEF Counter
<1>2. \A a \in Int : a % Modulus \in Counter BY <1>1, ModDivides DEF Counter
<1>3. x % Modulus = x
  <2>1. (Modulus * 0 + x) % Modulus = x BY <1>1, ModUnique
  <2>2. Modulus * 0 + x = x BY <1>1
  <2> QED BY <2>1, <2>2
<1>4. x + k \in Int /\ x - k \in Int /\ x + 1 \in Int /\ k \in Int /\ 1 \in Int BY <1>1
<1>5. Advance(Advance(x, k), 1) = Advance(x, k + 1)
  <2>1. (((x + k) % Modulus) + 1) % Modulus = ((x + k) + 1) % Modulus BY <1>1, <1>4, ModShift, Zenon
  <2>2. (x + k) + 1 = x + (k + 1) BY <1>1
  <2> QED BY <2>1, <2>2 DEF Advance
<1>6. Advance((x - k) % Modulus, k) = x
  <2>1. (((x - k) % Modulus) + k) % Modulus = ((x - k) + k) % Modulus BY <1>1, <1>4, ModShift, Zenon
  <2>2. (x - k) + k = x BY <1>1
  <2> QED BY <1>3, <2>1, <2>2 DEF Advance
<1>7. (Advance(x, 1) - (k + 1)) % Modulus = (x - k) % Modulus
  <2>1. (((x + 1) % Modulus) + (0 - (k + 1))) % Modulus = ((x + 1) + (0 - (k + 1))) % Modulus
    <3>1. 0 - (k + 1) \in Int OBVIOUS
    <3> QED BY <1>1, <1>4, <3>1, ModShift
  <2>2. (x + 1) + (0 - (k + 1)) = x - k BY <1>1
  <2>3. (x + 1) % Modulus \in Int BY <1>2, <1>4 DEF Counter
  <2>4. ((x + 1) % Modulus) + (0 - (k + 1)) = ((x + 1) % Modulus) - (k + 1) BY <2>3
  <2> QED BY <2>1, <2>2, <2>4 DEF Advance
<1>8. x + 0 = x /\ x - 0 = x BY <1>1
<1> QED BY <1>2, <1>3, <1>4, <1>5, <1>6, <1>7, <1>8 DEF Advance

LEMMA SimulatorSteps ==
  ASSUME NEW s \in Simulators
  PROVE  /\ Initialize(s) \in Simulators /\ Initialize(s).events = 0
         /\ End(s) \in Simulators /\ End(s).events = s.events
         /\ Generate(s) \in Simulators /\ Generate(s).events = Advance(s.events, 1)
         /\ Generate(s).stream = Advance(s.stream, 1) /\ Generate(s).modulator = s.modulator
         /\ s.events \in Counter /\ s.stream \in Counter /\ s.modulator \in {"Idle", "Random"}
<1>1. s.events \in Counter /\ s.stream \in Counter /\ s.modulator \in {"Idle", "Random"} BY DEF Simulators
<1>2. Advance(s.events, 1) \in Counter /\ Advance(s.stream, 1) \in Counter BY <1>1, Counting
<1>3. Initialize(s) \in Simulators /\ Initialize(s).events = 0
  <2>1. 0 \in Counter BY DEF Counter
  <2> QED BY <2>1 DEF Simulators, Initialize
<1>4. End(s) \in Simulators /\ End(s).events = s.events BY DEF Simulators, End
<1>5. /\ Generate(s) \in Simulators /\ Generate(s).events = Advance(s.events, 1)
      /\ Generate(s).stream = Advance(s.stream, 1) /\ Generate(s).modulator = s.modulator
  BY <1>1, <1>2 DEF Simulators, Generate
<1> QED BY <1>1, <1>3, <1>4, <1>5

LEMMA RequestFacts ==
  ASSUME NEW r \in Atomic!Calls
  PROVE  /\ r.op \in Atomic!Plain \cup {"discard"} /\ r.count \in 0..MaxCount
         /\ r.op # "discard" => r.count = 0
         /\ r = [op |-> r.op, count |-> r.count] /\ r # Atomic!NoCall
BY DEF Atomic!Calls, Atomic!Plain, Atomic!NoCall

LEMMA MessageFacts ==
  ASSUME NEW m \in Messages
  PROVE  /\ m.from \in Callers /\ Request(m) \in Atomic!Calls /\ Request(m) # Atomic!NoCall
         /\ m.op \in Atomic!Plain \cup {"discard"} /\ m.count \in 0..MaxCount
         /\ m.op # "discard" => m.count = 0
         /\ m # NoMessage
<1>1. PICK c \in Callers, r \in Atomic!Calls : m = [from |-> c, op |-> r.op, count |-> r.count]
  BY DEF Messages
<1>2. Request(m) = r BY <1>1, RequestFacts DEF Request
<1>3. m.op = r.op /\ m.count = r.count /\ m.from = c BY <1>1
<1>4. m # NoMessage
  <2>1. m.op # "none" BY <1>3, RequestFacts DEF Atomic!Plain
  <2> QED BY <2>1 DEF NoMessage
<1> QED BY <1>2, <1>3, <1>4, RequestFacts

LEMMA AnswerFacts ==
  /\ \A a \in Answers : a.kind \in {"pending", "ok", "refused", "lost", "progress", "batch"}
  /\ \A a \in Answers : a = Atomic!Pending <=> a.kind = "pending"
  /\ \A a \in Answers : a = Atomic!Lost <=> a.kind = "lost"
  /\ Atomic!Pending \in Answers /\ Atomic!Ok \in Answers /\ Atomic!Refused \in Answers /\ Atomic!Lost \in Answers
  /\ Atomic!Pending.kind = "pending" /\ Atomic!Ok.kind = "ok"
  /\ Atomic!Refused.kind = "refused" /\ Atomic!Lost.kind = "lost"
BY DEF Answers, Atomic!Pending, Atomic!Ok, Atomic!Refused, Atomic!Lost

LEMMA AnswersOfSimulator ==
  ASSUME NEW s \in Simulators, NEW b \in BOOLEAN
  PROVE  /\ Atomic!Progress(s) \in Answers /\ Atomic!Progress(s).kind = "progress"
         /\ Atomic!Batch(s, b) \in Answers /\ Atomic!Batch(s, b).kind = "batch"
BY SimulatorSteps DEF Answers, Atomic!Progress, Atomic!Batch

LEMMA SeqFacts ==
  ASSUME NEW S, NEW s \in Seq(S)
  PROVE  /\ Len(s) \in Nat /\ DOMAIN s = 1..Len(s)
         /\ \A i \in 1..Len(s) : s[i] \in S
         /\ s # <<>> => /\ Len(s) > 0 /\ Head(s) = s[1] /\ Tail(s) \in Seq(S)
                        /\ Len(Tail(s)) = Len(s) - 1
                        /\ \A i \in 1..(Len(s) - 1) : Tail(s)[i] = s[i + 1]
         /\ \A x \in S : /\ Append(s, x) \in Seq(S)
                         /\ Len(Append(s, x)) = Len(s) + 1
                         /\ Append(s, x)[Len(s) + 1] = x
                         /\ \A i \in 1..Len(s) : Append(s, x)[i] = s[i]
OBVIOUS

----------------------------------------------------------------------------
(* The actor: its steps preserve the invariant.                            *)

LEMMA ActorInitInv == Init => ActorInv
<1> SUFFICES ASSUME Init PROVE ActorInv
  OBVIOUS
<1>1. sim \in Simulators /\ sim.events = 0 /\ 0 \in Counter BY DEF Init, Fresh, Simulators, Counter
<1>2. channel \in Seq(Messages) /\ Len(channel) = 0 BY DEF Init
<1>3. call \in [Callers -> Atomic!Calls \cup {Atomic!NoCall}] /\ answer \in [Callers -> Answers]
  BY AnswerFacts DEF Init
<1>4. TypeOK
  <2>1. /\ attack = FALSE /\ thread = "running" /\ hand = NoMessage /\ left = 0
        /\ at = "closed" /\ taken = 0
    BY DEF Init
  <2>2. hand \in Messages \cup {NoMessage} /\ left \in 0..MaxCount /\ Len(channel) <= 2
    BY <1>2, <2>1
  <2> QED BY <1>1, <1>2, <1>3, <2>1, <2>2 DEF TypeOK
<1>5. Messaging BY <1>2, AnswerFacts DEF Init, Messaging
<1>6. Discarding BY DEF Init, Discarding, NoMessage
<1>7. Calling BY DEF Init, Calling, Callers
<1>8. Accounted
  <2>1. answer["main"] = Atomic!Pending /\ Generated = 0 /\ taken = 0
    BY DEF Init, Callers, Generated, NoMessage
  <2> QED BY <1>1, <2>1, Counting DEF Accounted
<1> QED BY <1>4, <1>5, <1>6, <1>7, <1>8 DEF ActorInv

\* Whose message the actor handles follows from what it asks.
LEMMA HandOps ==
  ASSUME ActorInv, hand # NoMessage
  PROVE  /\ hand \in Messages /\ Owed(hand)
         /\ hand.from \in {"main", "control"}
         /\ hand.from = "main" => hand.op \in {"start", "generate", "stop", "progress", "discard"}
         /\ hand.from = "control" => hand.op \in {"start_attack", "stop_attack"}
<1>1. Owed(hand) /\ hand \in Messages BY DEF ActorInv, Messaging, Owed
<1>2. hand.from \in {"main", "control"} BY <1>1, MessageFacts DEF Callers
<1>3. call[hand.from] # Atomic!NoCall /\ call[hand.from].op = hand.op
  BY <1>1, MessageFacts DEF Owed, Request
<1>4. MainOps \subseteq {"start", "generate", "stop", "progress", "discard"}
  BY DEF ActorInv, TypeOK, MainOps
<1> QED BY <1>1, <1>2, <1>3, <1>4 DEF ActorInv, Calling

\* A caller that waits for nothing, or has its answer, has no message anywhere.
LEMMA NowhereElse ==
  ASSUME ActorInv, NEW c \in Callers, call[c] = Atomic!NoCall \/ answer[c] # Atomic!Pending
  PROVE  /\ hand # NoMessage => hand.from # c
         /\ \A i \in 1..Len(channel) : channel[i].from # c
BY MessageFacts DEF ActorInv, Messaging, Owed

LEMMA SendKeeps ==
  ASSUME ActorInv, NEW c \in Callers, NEW r \in Atomic!Calls, Send(c, r.op, r.count)
  PROVE  /\ TypeOK' /\ Messaging' /\ Discarding' /\ Accounted'
         /\ call' = [call EXCEPT ![c] = r] /\ at' = at
<1> DEFINE m == [from |-> c, op |-> r.op, count |-> r.count]
<1>1. m \in Messages /\ Request(m) = r /\ m.from = c /\ r # Atomic!NoCall
  BY RequestFacts DEF Messages, Request
<1>2. /\ call[c] = Atomic!NoCall /\ call' = [call EXCEPT ![c] = r]
      /\ UNCHANGED <<sim, attack, thread, hand, left, at, taken>>
      /\ \/ thread = "gone" /\ answer' = [answer EXCEPT ![c] = Atomic!Lost] /\ channel' = channel
         \/ thread # "gone" /\ answer' = answer /\ channel' = Append(channel, m)
  BY RequestFacts DEF Send
<1>3. TypeOK /\ Messaging /\ answer[c] = Atomic!Pending BY <1>2 DEF ActorInv, Messaging
<1>4. \A i \in 1..Len(channel) : channel[i].from # c BY <1>2, NowhereElse
<1>5. hand # NoMessage => hand.from # c BY <1>2, NowhereElse
<1>6. call' \in [Callers -> Atomic!Calls \cup {Atomic!NoCall}] BY <1>2, <1>3 DEF TypeOK
<1>7. \A d \in Callers : d # c => call'[d] = call[d] /\ answer'[d] = answer[d]
  BY <1>2, <1>3 DEF TypeOK
<1>8. call'[c] = r BY <1>2, <1>3 DEF TypeOK
<1>9. Discarding' BY <1>2 DEF ActorInv, Discarding
<1>10. CASE thread = "gone"
  <2>1. /\ answer' = [answer EXCEPT ![c] = Atomic!Lost] /\ channel' = channel
        /\ hand = NoMessage /\ channel = <<>>
    BY <1>2, <1>3, <1>10 DEF Messaging
  <2>2. TypeOK' BY <1>2, <1>3, <1>6, <2>1, AnswerFacts DEF TypeOK
  <2>3. Messaging' BY <1>1, <1>2, <1>3, <1>7, <1>8, <1>10, <2>1 DEF Messaging
  <2>4. Accounted' BY <1>2, <1>10 DEF Accounted
  <2> QED BY <1>2, <1>9, <2>2, <2>3, <2>4
<1>11. CASE thread # "gone"
  <2>1. answer' = answer /\ channel' = Append(channel, m) BY <1>2, <1>11
  <2>2. /\ channel \in Seq(Messages) /\ Len(channel) \in Nat
        /\ channel' \in Seq(Messages) /\ Len(channel') = Len(channel) + 1
        /\ channel'[Len(channel) + 1] = m /\ \A i \in 1..Len(channel) : channel'[i] = channel[i]
    BY <1>1, <1>3, <2>1, SeqFacts DEF TypeOK
  <2>3. Len(channel) <= 1
    <3> SUFFICES ASSUME Len(channel) >= 2 PROVE FALSE
      BY <2>2
    <3>1. 1 \in 1..Len(channel) /\ 2 \in 1..Len(channel) BY <2>2
    <3>2. channel[1].from \in Callers /\ channel[2].from \in Callers
      BY <2>2, <3>1, SeqFacts, MessageFacts
    <3>3. channel[1].from # channel[2].from BY <1>3, <3>1 DEF Messaging
    <3> QED BY <1>4, <3>1, <3>2, <3>3 DEF Callers
  <2>4. TypeOK' BY <1>2, <1>3, <1>6, <2>1, <2>2, <2>3 DEF TypeOK
  <2>5. \A i \in 1..Len(channel) : channel[i].from \in Callers /\ channel[i] \in Messages
    BY <2>2, SeqFacts, MessageFacts
  <2>6. \A i \in 1..Len(channel') : i \in 1..Len(channel) \/ i = Len(channel) + 1 BY <2>2
  <2>7. hand # NoMessage => Owed(hand)' /\ \A i \in 1..Len(channel') : channel'[i].from # hand.from
    <3> SUFFICES ASSUME hand # NoMessage
                 PROVE  Owed(hand)' /\ \A i \in 1..Len(channel') : channel'[i].from # hand.from
      OBVIOUS
    <3>1. Owed(hand) /\ hand.from \in Callers BY <1>3, MessageFacts DEF Messaging, Owed
    <3>2. Owed(hand)' BY <1>2, <1>5, <1>7, <2>1, <3>1 DEF Owed, Request
    <3> QED BY <1>1, <1>3, <1>5, <2>2, <2>6, <3>2 DEF Messaging
  <2>8. Owed(m)' BY <1>1, <1>3, <1>8, <2>1 DEF Owed, Request
  <2>9. \A i \in 1..Len(channel') : Owed(channel[i])'
    <3> TAKE i \in 1..Len(channel')
    <3>1. CASE i \in 1..Len(channel)
      <4>1. Owed(channel[i]) /\ channel[i].from # c /\ channel[i].from \in Callers
        BY <1>3, <1>4, <2>5, <3>1 DEF Messaging
      <4>2. /\ channel'[i] = channel[i] /\ answer'[channel[i].from] = answer[channel[i].from]
            /\ call'[channel[i].from] = call[channel[i].from]
        BY <1>7, <2>1, <2>2, <3>1, <4>1
      <4> QED BY <4>1, <4>2 DEF Owed, Request
    <3>2. CASE i = Len(channel) + 1 BY <2>2, <2>8, <3>2 DEF Owed, Request
    <3> QED BY <2>6, <3>1, <3>2
  <2>10. \A i, j \in 1..Len(channel') : channel'[i].from = channel'[j].from => i = j
    BY <1>1, <1>3, <1>4, <2>2, <2>6 DEF Messaging
  <2>11. Messaging'
    <3>1. \A d \in Callers : call'[d] = Atomic!NoCall => answer'[d] = Atomic!Pending
      BY <1>1, <1>3, <1>7, <1>8 DEF Messaging
    <3>2. thread' = "running" => \A d \in Callers : answer'[d] # Atomic!Lost
      BY <1>2, <1>3, <2>1 DEF Messaging
    <3> QED BY <1>2, <1>11, <2>7, <2>9, <2>10, <3>1, <3>2 DEF Messaging
  <2>12. Accounted'
    <3>1. Generated' = Generated BY <1>2 DEF Generated
    <3>2. answer["main"] # Atomic!Pending => call'["main"] = call["main"]
      BY <1>3, <1>7 DEF Callers
    <3> QED BY <1>2, <2>1, <3>1, <3>2 DEF ActorInv, Accounted, Outcome, Kind
  <2> QED BY <1>2, <1>9, <2>4, <2>11, <2>12
<1> QED BY <1>10, <1>11

\* A caller takes its answer; for the main thread, taken is then what the answer
\* makes of it.
LEMMA ReturnKeeps ==
  ASSUME ActorInv, NEW c \in Callers, call[c] # Atomic!NoCall, answer[c] # Atomic!Pending,
         Return(c), taken' \in Counter,
         at' \in {"closed", "session", "failing", "paused", "measured", "realigned", "exited"},
         taken' = IF c = "main" THEN Outcome(call[c], Kind(c)) ELSE taken,
         c = "control" => at' = at
  PROVE  ActorInv'
<1>1. TypeOK /\ Messaging /\ Discarding /\ Calling /\ Accounted BY DEF ActorInv
<1>2. /\ call' = [call EXCEPT ![c] = Atomic!NoCall] /\ answer' = [answer EXCEPT ![c] = Atomic!Pending]
      /\ UNCHANGED <<sim, attack, thread, hand, left, channel>>
  BY DEF Return
<1>3. /\ call'[c] = Atomic!NoCall /\ answer'[c] = Atomic!Pending
      /\ \A d \in Callers : d # c => call'[d] = call[d] /\ answer'[d] = answer[d]
  BY <1>1, <1>2 DEF TypeOK
<1>4. /\ hand # NoMessage => hand.from # c
      /\ \A i \in 1..Len(channel) : channel[i].from # c
  BY NowhereElse
<1>5. TypeOK' BY <1>1, <1>2, AnswerFacts DEF TypeOK
<1>6. Messaging'
  <2>1. \A i \in 1..Len(channel) : channel[i] \in Messages BY <1>1, SeqFacts DEF TypeOK
  <2>2. ASSUME NEW m \in Messages, Owed(m), m.from # c
        PROVE  call'[m.from] = Request(m) /\ answer'[m.from] = Atomic!Pending
    BY <1>3, <2>2, MessageFacts DEF Owed
  <2>3. hand # NoMessage => Owed(hand)' BY <1>1, <1>2, <1>4, <2>2 DEF Messaging, Owed, Request
  <2>4. \A i \in 1..Len(channel) : Owed(channel[i])'
    BY <1>1, <1>2, <1>4, <2>1, <2>2 DEF Messaging, Owed, Request
  <2>5. \A d \in Callers : call'[d] = Atomic!NoCall => answer'[d] = Atomic!Pending
    BY <1>1, <1>3 DEF Messaging
  <2>6. thread' = "running" => \A d \in Callers : answer'[d] # Atomic!Lost
    BY <1>1, <1>2, <1>3, AnswerFacts DEF Messaging
  <2> QED BY <1>1, <1>2, <2>3, <2>4, <2>5, <2>6 DEF Messaging
<1>7. Discarding' BY <1>1, <1>2 DEF Discarding
<1>8. Calling'
  <2>1. CASE c = "main" BY <1>1, <1>3, <2>1 DEF Calling, Callers
  <2>2. CASE c = "control" BY <1>1, <1>3, <2>2 DEF Calling, Callers, MainOps
  <2> QED BY <2>1, <2>2 DEF Callers
<1>9. Accounted'
  <2>1. Generated' = Generated BY <1>2 DEF Generated
  <2>2. CASE c = "main"
    <3>1. hand.op # "discard" BY <1>4, <2>2, HandOps DEF NoMessage
    <3>2. Generated = 0 BY <3>1 DEF Generated
    <3>3. thread = "running" => sim.events = taken' BY <1>1, <2>2 DEF Accounted
    <3>4. Advance(taken', 0) = taken' BY Counting
    <3> QED BY <1>2, <1>3, <2>1, <2>2, <3>2, <3>3, <3>4 DEF Accounted
  <2>3. CASE c = "control"
    <3>1. call'["main"] = call["main"] /\ answer'["main"] = answer["main"] /\ taken' = taken
      BY <1>3, <2>3 DEF Callers
    <3> QED BY <1>1, <1>2, <2>1, <3>1 DEF Accounted, Outcome, Kind
  <2> QED BY <2>2, <2>3 DEF Callers
<1> QED BY <1>5, <1>6, <1>7, <1>8, <1>9 DEF ActorInv

LEMMA MainReturnsKeeps ==
  ASSUME ActorInv, MainReturns
  PROVE  ActorInv'
<1>1. /\ "main" \in Callers /\ taken \in Counter /\ Advance(taken, 1) \in Counter /\ 0 \in Counter
      /\ answer["main"] \in Answers /\ call["main"] \in Atomic!Calls \cup {Atomic!NoCall}
  <2>1. taken \in Counter /\ answer["main"] \in Answers /\ call["main"] \in Atomic!Calls \cup {Atomic!NoCall}
    BY DEF ActorInv, TypeOK, Callers
  <2>2. 0 \in Counter BY DEF Counter
  <2> QED BY <2>1, <2>2, Counting DEF Callers
<1>2. ASSUME call["main"] # Atomic!NoCall PROVE call["main"].count \in Nat /\ Advance(taken, call["main"].count) \in Counter
  <2>1. call["main"].count \in Nat BY <1>1, <1>2, RequestFacts
  <2> QED BY <1>1, <2>1, Counting
<1>3. call["main"].op # "none" => call["main"] # Atomic!NoCall BY DEF Atomic!NoCall
<1>4. CASE StartReturns
  BY <1>1, <1>3, <1>4, ReturnKeeps DEF StartReturns, Answered, Outcome
<1>5. CASE BatchReturns
  BY <1>1, <1>3, <1>5, ReturnKeeps DEF BatchReturns, Answered, Outcome
<1>6. CASE StopReturns
  BY <1>1, <1>3, <1>6, ReturnKeeps DEF StopReturns, Answered, Outcome
<1>7. CASE ProgressReturns
  BY <1>1, <1>3, <1>7, ReturnKeeps DEF ProgressReturns, Answered, Outcome
<1>8. CASE DiscardReturns
  BY <1>1, <1>2, <1>3, <1>8, ReturnKeeps DEF DiscardReturns, Answered, Outcome
<1> QED BY <1>4, <1>5, <1>6, <1>7, <1>8 DEF MainReturns

LEMMA ControlReturnsKeeps ==
  ASSUME ActorInv, ControlReturns
  PROVE  ActorInv'
<1>1. at \in {"closed", "session", "failing", "paused", "measured", "realigned", "exited"} /\ taken \in Counter
  BY DEF ActorInv, TypeOK
<1> QED BY <1>1, ReturnKeeps DEF ControlReturns, Callers

LEMMA CallsKeep ==
  ASSUME ActorInv, MainCalls \/ ControlCalls \/ TakePause
  PROVE  ActorInv'
<1>1. ASSUME NEW op \in Atomic!Plain \cup {"discard"}, NEW n \in 0..MaxCount, op # "discard" => n = 0,
             Send("main", op, n), op \in MainOps
      PROVE  ActorInv'
  <2> DEFINE r == [op |-> op, count |-> n]
  <2>1. r \in Atomic!Calls /\ r.op = op /\ r.count = n BY <1>1 DEF Atomic!Calls
  <2>2. /\ TypeOK' /\ Messaging' /\ Discarding' /\ Accounted'
        /\ call' = [call EXCEPT !["main"] = r] /\ at' = at
    BY <1>1, <2>1, SendKeeps DEF Callers
  <2>3. call'["main"].op = op /\ call'["control"] = call["control"] /\ MainOps' = MainOps
    BY <2>1, <2>2 DEF ActorInv, TypeOK, Callers, MainOps
  <2>4. Calling' BY <1>1, <2>3 DEF ActorInv, Calling
  <2> QED BY <2>2, <2>4 DEF ActorInv
<1>2. CASE MainCalls
  <2>1. 0 \in 0..MaxCount OBVIOUS
  <2> QED BY <1>1, <1>2, <2>1 DEF MainCalls, MainOps, Atomic!Plain
<1>3. CASE ControlCalls
  <2>1. PICK op \in {"start_attack", "stop_attack"} : Send("control", op, 0) BY <1>3 DEF ControlCalls
  <2> DEFINE r == [op |-> op, count |-> 0]
  <2>2. r \in Atomic!Calls /\ r.op = op /\ r.count = 0 BY DEF Atomic!Calls, Atomic!Plain
  <2>3. /\ TypeOK' /\ Messaging' /\ Discarding' /\ Accounted'
        /\ call' = [call EXCEPT !["control"] = r] /\ at' = at
    BY <2>1, <2>2, SendKeeps DEF Callers
  <2>4. call'["control"].op = op /\ call'["main"] = call["main"] /\ MainOps' = MainOps
    BY <2>2, <2>3 DEF ActorInv, TypeOK, Callers, MainOps
  <2>5. Calling' BY <2>4 DEF ActorInv, Calling
  <2> QED BY <2>3, <2>5 DEF ActorInv
<1>4. CASE TakePause
  <2>1. /\ UNCHANGED <<sim, attack, thread, hand, left, channel, call, answer, taken>>
        /\ at' = "paused" /\ call["main"] = Atomic!NoCall
    BY <1>4 DEF TakePause, callers
  <2>2. TypeOK' BY <2>1 DEF ActorInv, TypeOK
  <2>3. Messaging' /\ Discarding' BY <2>1 DEF ActorInv, Messaging, Owed, Request, Discarding
  <2>4. Calling' BY <2>1 DEF ActorInv, Calling
  <2>5. Accounted' BY <2>1 DEF ActorInv, Accounted, Generated, Outcome, Kind
  <2> QED BY <2>2, <2>3, <2>4, <2>5 DEF ActorInv
<1> QED BY <1>2, <1>3, <1>4

LEMMA ReceiveKeeps ==
  ASSUME ActorInv, Receive
  PROVE  ActorInv'
<1>1. TypeOK /\ Messaging /\ Calling /\ Accounted BY DEF ActorInv
<1>2. /\ thread = "running" /\ hand = NoMessage /\ hand' = channel[1] /\ channel' = Tail(channel)
      /\ left' = hand'.count /\ UNCHANGED <<sim, attack, thread, call, answer, at, taken>>
      /\ channel \in Seq(Messages) /\ channel # <<>>
  BY <1>1, SeqFacts DEF Receive, callers, TypeOK
<1>3. /\ Len(channel) \in Nat /\ Len(channel) > 0 /\ channel' \in Seq(Messages)
      /\ Len(channel') = Len(channel) - 1
      /\ \A i \in 1..(Len(channel) - 1) : channel'[i] = channel[i + 1]
      /\ hand' \in Messages /\ 1 \in 1..Len(channel)
  BY <1>2, SeqFacts
<1>4. hand'.count \in 0..MaxCount BY <1>3, MessageFacts
<1>5. TypeOK'
  <2>1. Len(channel') <= 2 BY <1>1, <1>3 DEF TypeOK
  <2> QED BY <1>1, <1>2, <1>3, <1>4, <2>1 DEF TypeOK
<1>6. Messaging'
  <2>1. \A i \in 1..Len(channel') : i + 1 \in 1..Len(channel) /\ channel'[i] = channel[i + 1] /\ i + 1 # 1
    BY <1>3
  <2>2. Owed(hand)' BY <1>1, <1>2, <1>3 DEF Messaging, Owed, Request
  <2>3. \A i \in 1..Len(channel') : Owed(channel[i])'
    BY <1>1, <1>2, <2>1 DEF Messaging, Owed, Request
  <2>4. \A i \in 1..Len(channel') : channel'[i].from # hand'.from
    BY <1>1, <1>2, <1>3, <2>1 DEF Messaging
  <2>5. \A i, j \in 1..Len(channel') : channel'[i].from = channel'[j].from => i = j
    <3> TAKE i, j \in 1..Len(channel')
    <3>1. i + 1 = j + 1 => i = j OBVIOUS
    <3> QED BY <1>1, <2>1, <3>1 DEF Messaging
  <2> QED BY <1>1, <1>2, <2>2, <2>3, <2>4, <2>5 DEF Messaging
<1>7. Discarding' BY <1>2, <1>4 DEF Discarding
<1>8. Calling' BY <1>1, <1>2 DEF Calling, MainOps
<1>9. Accounted'
  <2>1. Generated = 0 BY <1>2 DEF Generated, NoMessage
  <2>2. Generated' = 0 BY <1>2, <1>4 DEF Generated
  <2> QED BY <1>1, <1>2, <2>1, <2>2 DEF Accounted, Outcome, Kind
<1> QED BY <1>5, <1>6, <1>7, <1>8, <1>9 DEF ActorInv

\* The actor answers the message in its hands.
LEMMA ReplyKeeps ==
  ASSUME ActorInv, hand # NoMessage, NEW a \in Answers, a # Atomic!Pending,
         thread = "running" => a # Atomic!Lost,
         Reply(a), sim' \in Simulators, attack' \in BOOLEAN,
         thread = "running" =>
           sim'.events = IF hand.from = "main" THEN Outcome(Request(hand), a.kind) ELSE sim.events
  PROVE  ActorInv'
<1>1. TypeOK /\ Messaging /\ Discarding /\ Calling /\ Accounted BY DEF ActorInv
<1>2. /\ answer' = [answer EXCEPT ![hand.from] = a] /\ hand' = NoMessage /\ left' = 0
      /\ UNCHANGED <<thread, channel, call, at, taken>>
  BY DEF Reply
<1>3. /\ hand \in Messages /\ Owed(hand) /\ hand.from \in Callers
      /\ call[hand.from] = Request(hand) /\ Request(hand) # Atomic!NoCall
  BY HandOps, MessageFacts DEF Owed
<1>4. /\ answer'[hand.from] = a
      /\ \A d \in Callers : d # hand.from => answer'[d] = answer[d]
  BY <1>1, <1>2, <1>3 DEF TypeOK
<1>5. TypeOK'
  <2>1. 0 \in 0..MaxCount BY MaxCountAssumption
  <2>2. answer' \in [Callers -> Answers] BY <1>1, <1>2 DEF TypeOK
  <2> QED BY <1>1, <1>2, <2>1, <2>2 DEF TypeOK
<1>6. Messaging'
  <2>1. \A i \in 1..Len(channel) : channel[i] \in Messages BY <1>1, SeqFacts DEF TypeOK
  <2>2. \A i \in 1..Len(channel) : channel[i].from # hand.from BY <1>1 DEF Messaging
  <2>3. \A i \in 1..Len(channel) : Owed(channel[i])'
    BY <1>1, <1>2, <1>4, <2>1, <2>2, MessageFacts DEF Messaging, Owed, Request
  <2>4. \A d \in Callers : call'[d] = Atomic!NoCall => answer'[d] = Atomic!Pending
    BY <1>1, <1>2, <1>3, <1>4 DEF Messaging
  <2>5. thread' = "running" => \A d \in Callers : answer'[d] # Atomic!Lost
    BY <1>1, <1>2, <1>4 DEF Messaging
  <2>6. thread # "gone" BY <1>1 DEF Messaging
  <2>7. \A i, j \in 1..Len(channel') : channel'[i].from = channel'[j].from => i = j
    BY <1>1, <1>2 DEF Messaging
  <2> QED BY <1>2, <2>3, <2>4, <2>5, <2>6, <2>7 DEF Messaging
<1>7. Discarding' BY <1>2 DEF Discarding, NoMessage
<1>8. Calling' BY <1>1, <1>2 DEF Calling, MainOps
<1>9. Accounted'
  <2>1. Generated' = 0 BY <1>2 DEF Generated, NoMessage
  <2>2. CASE hand.from = "main"
    <3>1. /\ answer'["main"] # Atomic!Pending /\ Kind("main")' = a.kind
          /\ call'["main"] = Request(hand)
      BY <1>2, <1>3, <1>4, <2>2 DEF Kind
    <3> QED BY <1>2, <2>2, <3>1 DEF Accounted, Outcome
  <2>3. CASE hand.from = "control"
    <3>1. answer'["main"] = answer["main"] /\ Kind("main")' = Kind("main") /\ call'["main"] = call["main"]
      BY <1>2, <1>4, <2>3 DEF Kind, Callers
    <3>2. Generated = 0 BY <2>3, HandOps DEF Generated
    <3>3. thread = "running" => sim'.events = sim.events BY <2>3
    <3> QED BY <1>1, <1>2, <2>1, <3>1, <3>2, <3>3 DEF Accounted, Outcome
  <2> QED BY <1>3, <2>2, <2>3 DEF Callers
<1> QED BY <1>5, <1>6, <1>7, <1>8, <1>9 DEF ActorInv

\* What the counter is when the actor turns to a message of the main thread.
LEMMA InHandFacts ==
  ASSUME ActorInv, NEW op \in Atomic!Plain \cup {"discard"}, InHand(op)
  PROVE  /\ hand # NoMessage /\ hand \in Messages /\ thread = "running"
         /\ hand.from \in {"main", "control"} /\ hand.op = op
         /\ hand.from = "control" <=> op \in {"start_attack", "stop_attack"}
         /\ hand.from = "main" => sim.events = Advance(taken, Generated)
         /\ sim \in Simulators /\ attack \in BOOLEAN /\ taken \in Counter
         /\ hand.count \in Nat /\ left \in Nat /\ left <= hand.count
         /\ op # "discard" => Generated = 0 /\ left = 0 /\ hand.count = 0
<1>1. hand.op = op /\ thread = "running" /\ hand # NoMessage BY DEF InHand, NoMessage, Atomic!Plain
<1>2. /\ hand \in Messages /\ Owed(hand) /\ hand.from \in {"main", "control"}
      /\ hand.from = "main" => op \in {"start", "generate", "stop", "progress", "discard"}
      /\ hand.from = "control" => op \in {"start_attack", "stop_attack"}
  BY <1>1, HandOps
<1>3. hand.count \in 0..MaxCount /\ (op # "discard" => hand.count = 0) BY <1>1, <1>2, MessageFacts
<1>4. left \in 0..MaxCount /\ left <= hand.count /\ sim \in Simulators /\ attack \in BOOLEAN /\ taken \in Counter
  BY DEF ActorInv, TypeOK, Discarding
<1>5. hand.from = "main" => answer["main"] = Atomic!Pending BY <1>2 DEF Owed
<1>6. hand.from = "main" => sim.events = Advance(taken, Generated)
  BY <1>1, <1>5 DEF ActorInv, Accounted
<1>7. op # "discard" => Generated = 0 BY <1>1 DEF Generated
<1> QED BY <1>1, <1>2, <1>3, <1>4, <1>6, <1>7, MaxCountAssumption

LEMMA HandlersKeep ==
  ASSUME ActorInv,
         \/ HandleStartSession \/ HandleStopSession \/ HandleProgress \/ HandleAttack
         \/ HandleGenerate \/ HandleRefused \/ Discarded
  PROVE  ActorInv'
<1>1. taken \in Counter /\ Advance(taken, 0) = taken
  <2>1. taken \in Counter BY DEF ActorInv, TypeOK
  <2> QED BY <2>1, Counting
<1>2. /\ Atomic!Ok # Atomic!Pending /\ Atomic!Refused # Atomic!Pending
      /\ Atomic!Ok # Atomic!Lost /\ Atomic!Refused # Atomic!Lost
      /\ Atomic!Ok \in Answers /\ Atomic!Refused \in Answers
  BY AnswerFacts
<1>3. CASE HandleStartSession
  <2>1. InHand("start") /\ sim' = Initialize(sim) /\ Reply(Atomic!Ok) /\ attack' = attack
    BY <1>3 DEF HandleStartSession
  <2>2. hand # NoMessage /\ thread = "running" /\ hand.op = "start" /\ hand.from # "control"
        /\ hand.from \in {"main", "control"} /\ sim \in Simulators /\ attack \in BOOLEAN
    BY <2>1, InHandFacts DEF Atomic!Plain
  <2>3. sim' \in Simulators /\ sim'.events = 0 BY <2>1, <2>2, SimulatorSteps
  <2>4. Outcome(Request(hand), Atomic!Ok.kind) = 0 BY <2>2, AnswerFacts DEF Outcome, Request
  <2> QED BY <1>2, <2>1, <2>2, <2>3, <2>4, ReplyKeeps
<1>4. CASE HandleStopSession
  <2>1. InHand("stop") /\ sim' = End(sim) /\ Reply(Atomic!Ok) /\ attack' = attack
    BY <1>4 DEF HandleStopSession
  <2>2. hand # NoMessage /\ thread = "running" /\ hand.op = "stop" /\ hand.from # "control"
        /\ hand.from \in {"main", "control"} /\ sim \in Simulators /\ attack \in BOOLEAN
        /\ (hand.from = "main" => sim.events = Advance(taken, Generated)) /\ Generated = 0
    BY <2>1, InHandFacts DEF Atomic!Plain
  <2>3. sim' \in Simulators /\ sim'.events = taken BY <1>1, <2>1, <2>2, SimulatorSteps
  <2>4. Outcome(Request(hand), Atomic!Ok.kind) = taken BY <2>2, AnswerFacts DEF Outcome, Request
  <2> QED BY <1>2, <2>1, <2>2, <2>3, <2>4, ReplyKeeps
<1>5. CASE HandleProgress
  <2>1. InHand("progress") /\ Reply(Atomic!Progress(sim)) /\ sim' = sim /\ attack' = attack
    BY <1>5 DEF HandleProgress
  <2>2. hand # NoMessage /\ thread = "running" /\ hand.op = "progress" /\ hand.from # "control"
        /\ hand.from \in {"main", "control"} /\ sim \in Simulators /\ attack \in BOOLEAN
        /\ (hand.from = "main" => sim.events = Advance(taken, Generated)) /\ Generated = 0
    BY <2>1, InHandFacts DEF Atomic!Plain
  <2>3. /\ Atomic!Progress(sim) \in Answers /\ Atomic!Progress(sim) # Atomic!Pending
        /\ Atomic!Progress(sim) # Atomic!Lost
    BY <2>2, AnswersOfSimulator, AnswerFacts
  <2>4. Outcome(Request(hand), Atomic!Progress(sim).kind) = taken BY <2>2 DEF Outcome, Request
  <2> QED BY <1>1, <2>1, <2>2, <2>3, <2>4, ReplyKeeps
<1>6. CASE HandleAttack
  <2>1. PICK op \in {"start_attack", "stop_attack"} :
          InHand(op) /\ Reply(Atomic!Ok) /\ sim' = sim /\ attack' \in BOOLEAN
    BY <1>6 DEF HandleAttack
  <2>2. hand # NoMessage /\ thread = "running" /\ hand.from = "control" /\ sim \in Simulators
    BY <2>1, InHandFacts DEF Atomic!Plain
  <2> QED BY <1>2, <2>1, <2>2, ReplyKeeps
<1>7. CASE HandleGenerate
  <2>1. InHand("generate") /\ sim' = Generate(sim) /\ Reply(Atomic!Batch(sim, attack)) /\ attack' = attack
    BY <1>7 DEF HandleGenerate, NextBatch
  <2>2. hand # NoMessage /\ thread = "running" /\ hand.op = "generate" /\ hand.from # "control"
        /\ hand.from \in {"main", "control"} /\ sim \in Simulators /\ attack \in BOOLEAN
        /\ (hand.from = "main" => sim.events = Advance(taken, Generated)) /\ Generated = 0
    BY <2>1, InHandFacts DEF Atomic!Plain
  <2>3. /\ Atomic!Batch(sim, attack) \in Answers /\ Atomic!Batch(sim, attack).kind = "batch"
        /\ Atomic!Batch(sim, attack) # Atomic!Pending /\ Atomic!Batch(sim, attack) # Atomic!Lost
    BY <2>2, AnswersOfSimulator, AnswerFacts
  <2>4. Outcome(Request(hand), Atomic!Batch(sim, attack).kind) = Advance(taken, 1)
    BY <2>2, <2>3 DEF Outcome, Request
  <2>5. sim' \in Simulators /\ sim'.events = Advance(taken, 1)
    BY <1>1, <2>1, <2>2, SimulatorSteps
  <2> QED BY <2>1, <2>2, <2>3, <2>4, <2>5, ReplyKeeps
<1>8. CASE HandleRefused
  <2>1. /\ InHand("generate") \/ InHand("discard")
        /\ ~CanGenerate(sim) /\ Reply(Atomic!Refused) /\ sim' = sim /\ attack' = attack
    BY <1>8 DEF HandleRefused
  <2>2. hand # NoMessage /\ thread = "running" /\ hand.op \in {"generate", "discard"} /\ hand.from # "control"
        /\ hand.from \in {"main", "control"} /\ sim \in Simulators /\ attack \in BOOLEAN
        /\ (hand.from = "main" => sim.events = Advance(taken, Generated))
        /\ hand.count \in Nat /\ left \in Nat /\ left <= hand.count
    BY <2>1, InHandFacts DEF Atomic!Plain
  <2>3. hand.op = "discard" => left = hand.count BY <2>1, <2>2 DEF ActorInv, Discarding
  <2>4. Generated = 0 BY <2>2, <2>3 DEF Generated
  <2>5. Outcome(Request(hand), Atomic!Refused.kind) = taken BY <2>2, AnswerFacts DEF Outcome, Request
  <2> QED BY <1>1, <1>2, <2>1, <2>2, <2>4, <2>5, ReplyKeeps
<1>9. CASE Discarded
  <2>1. InHand("discard") /\ left = 0 /\ Reply(Atomic!Ok) /\ sim' = sim /\ attack' = attack
    BY <1>9 DEF Discarded
  <2>2. hand # NoMessage /\ thread = "running" /\ hand.op = "discard" /\ hand.from # "control"
        /\ hand.from \in {"main", "control"} /\ sim \in Simulators /\ attack \in BOOLEAN
        /\ (hand.from = "main" => sim.events = Advance(taken, Generated)) /\ hand.count \in Nat
    BY <2>1, InHandFacts DEF Atomic!Plain
  <2>3. Generated = hand.count BY <2>1, <2>2 DEF Generated
  <2>4. Outcome(Request(hand), Atomic!Ok.kind) = Advance(taken, hand.count)
    BY <2>2, AnswerFacts DEF Outcome, Request
  <2> QED BY <1>2, <2>1, <2>2, <2>3, <2>4, ReplyKeeps
<1> QED BY <1>3, <1>4, <1>5, <1>6, <1>7, <1>8, <1>9

LEMMA DiscardOneKeeps ==
  ASSUME ActorInv, DiscardOne
  PROVE  ActorInv'
<1>1. TypeOK /\ Messaging /\ Discarding /\ Calling /\ Accounted BY DEF ActorInv
<1>2. /\ InHand("discard") /\ left > 0 /\ CanGenerate(sim) /\ sim' = Generate(sim) /\ left' = left - 1
      /\ UNCHANGED <<attack, thread, hand, channel, call, answer, at, taken>>
  BY DEF DiscardOne, NextBatch, callers
<1>3. /\ hand # NoMessage /\ hand \in Messages /\ thread = "running" /\ hand.op = "discard"
      /\ hand.from \in {"main", "control"} /\ hand.from # "control"
      /\ sim.events = Advance(taken, Generated) /\ taken \in Counter
      /\ sim \in Simulators /\ hand.count \in Nat /\ left \in Nat /\ left <= hand.count
  BY <1>2, InHandFacts DEF Atomic!Plain
<1>4. sim' \in Simulators /\ sim'.events = Advance(sim.events, 1) /\ sim'.modulator = sim.modulator
  BY <1>2, <1>3, SimulatorSteps
<1>5. left' \in 0..MaxCount BY <1>1, <1>2, <1>3, MaxCountAssumption DEF TypeOK
<1>6. TypeOK' BY <1>1, <1>2, <1>4, <1>5 DEF TypeOK
<1>7. Messaging' BY <1>1, <1>2 DEF Messaging, Owed, Request
<1>8. Discarding' BY <1>2, <1>3, <1>4 DEF Discarding, CanGenerate
<1>9. Calling' BY <1>1, <1>2 DEF Calling, MainOps
<1>10. Accounted'
  <2>1. Generated \in Nat /\ Generated' = Generated + 1 BY <1>2, <1>3 DEF Generated
  <2>2. Advance(Advance(taken, Generated), 1) = Advance(taken, Generated + 1) BY <1>3, <2>1, Counting
  <2>3. answer["main"] = Atomic!Pending BY <1>1, <1>3 DEF Messaging, Owed
  <2>4. sim'.events = Advance(taken, Generated') BY <1>3, <1>4, <2>1, <2>2
  <2> QED BY <1>2, <2>3, <2>4 DEF Accounted
<1> QED BY <1>6, <1>7, <1>8, <1>9, <1>10 DEF ActorInv

LEMMA BreakingKeeps ==
  ASSUME ActorInv, Panic \/ DropHand \/ DropChannel
  PROVE  ActorInv'
<1>1. TypeOK /\ Messaging /\ Discarding /\ Calling /\ Accounted BY DEF ActorInv
<1>2. CASE Panic
  <2>1. /\ thread = "running" /\ thread' = "unwinding"
        /\ UNCHANGED <<sim, attack, hand, left, channel, call, answer, at, taken>>
    BY <1>2 DEF Panic, InHand, callers
  <2>2. TypeOK' BY <1>1, <2>1 DEF TypeOK
  <2>3. Messaging' BY <1>1, <2>1 DEF Messaging, Owed, Request
  <2>4. Discarding' /\ Calling' /\ Accounted' BY <1>1, <2>1 DEF Discarding, Calling, MainOps, Accounted
  <2> QED BY <2>2, <2>3, <2>4 DEF ActorInv
<1>3. CASE DropHand
  <2>1. thread = "unwinding" /\ hand # NoMessage /\ Reply(Atomic!Lost) /\ sim' = sim /\ attack' = attack
    BY <1>3 DEF DropHand
  <2>2. sim \in Simulators /\ attack \in BOOLEAN BY <1>1 DEF TypeOK
  <2>3. Atomic!Lost \in Answers /\ Atomic!Lost # Atomic!Pending BY AnswerFacts
  <2> QED BY <2>1, <2>2, <2>3, ReplyKeeps
<1>4. CASE DropChannel
  <2>1. /\ thread = "unwinding" /\ hand = NoMessage /\ thread' = "gone" /\ channel' = <<>>
        /\ UNCHANGED <<sim, attack, hand, left, call, at, taken>>
        /\ answer' = [c \in Callers |->
             IF \E i \in DOMAIN channel : channel[i].from = c THEN Atomic!Lost ELSE answer[c]]
    BY <1>4 DEF DropChannel
  <2>2. DOMAIN channel = 1..Len(channel) /\ \A i \in 1..Len(channel) : channel[i] \in Messages
    BY <1>1, SeqFacts DEF TypeOK
  <2>3. answer' \in [Callers -> Answers] BY <1>1, <2>1, AnswerFacts DEF TypeOK
  <2>4. channel' \in Seq(Messages) /\ Len(channel') = 0 BY <2>1
  <2>5. TypeOK' BY <1>1, <2>1, <2>3, <2>4 DEF TypeOK
  <2>6. Messaging'
    <3>1. ASSUME NEW d \in Callers, call'[d] = Atomic!NoCall
          PROVE  answer'[d] = Atomic!Pending
      <4>1. call[d] = Atomic!NoCall /\ answer[d] = Atomic!Pending BY <1>1, <2>1, <3>1 DEF Messaging
      <4>2. \A i \in 1..Len(channel) : channel[i].from # d BY <4>1, NowhereElse
      <4> QED BY <2>1, <2>2, <4>1, <4>2
    <3> QED BY <2>1, <2>4, <3>1 DEF Messaging
  <2>7. Discarding' /\ Calling' /\ Accounted' BY <1>1, <2>1 DEF Discarding, Calling, MainOps, Accounted
  <2> QED BY <2>5, <2>6, <2>7 DEF ActorInv
<1> QED BY <1>2, <1>3, <1>4

LEMMA ActorStepInv == ActorInv /\ [Next]_actorVars => ActorInv'
<1> SUFFICES ASSUME ActorInv, [Next]_actorVars PROVE ActorInv'
  OBVIOUS
<1>1. CASE ActorStep
  BY <1>1, ReceiveKeeps, HandlersKeep, DiscardOneKeeps, BreakingKeeps DEF ActorStep
<1>2. CASE Panic BY <1>2, BreakingKeeps
<1>3. CASE MainCalls \/ TakePause \/ ControlCalls BY <1>3, CallsKeep
<1>4. CASE MainReturns BY <1>4, MainReturnsKeeps
<1>5. CASE ControlReturns BY <1>5, ControlReturnsKeeps
<1>6. CASE UNCHANGED actorVars
  <2>1. UNCHANGED <<sim, attack, thread, hand, left, channel, call, answer, at, taken>>
    BY <1>6 DEF actorVars, callers
  <2>2. TypeOK' BY <2>1 DEF ActorInv, TypeOK
  <2>3. Messaging' BY <2>1 DEF ActorInv, Messaging, Owed, Request
  <2>4. Discarding' /\ Calling' BY <2>1 DEF ActorInv, Discarding, Calling, MainOps
  <2>5. Accounted' BY <2>1 DEF ActorInv, Accounted, Generated, Outcome, Kind
  <2> QED BY <2>2, <2>3, <2>4, <2>5 DEF ActorInv
<1> QED BY <1>1, <1>2, <1>3, <1>4, <1>5, <1>6 DEF Next

\* Whatever order the two threads call in and wherever the actor panics, every
\* message is owed one answer, a discard under way keeps its session, and the
\* counter is what the main thread has taken and what it will be given.
THEOREM ActorInvariance == Spec => []ActorInv
<1> QED BY ActorInitInv, ActorStepInv, PTL DEF Spec

\* The actor, its channel and its callers stay well typed; the channel never
\* holds more than one message of each of the two threads.
THEOREM ActorTypeCorrect == Spec => []TypeOK
<1>1. ActorInv => TypeOK BY DEF ActorInv
<1> QED BY <1>1, ActorInvariance, PTL

\* The counter a recalibration compares (last_event_count) counts exactly the
\* batches the runner was given and those discarded for it in its session.
THEOREM NothingUnaccountedAlways == Spec => []NothingUnaccounted
<1>1. ASSUME ActorInv, thread = "running", call["main"] = Atomic!NoCall
      PROVE  sim.events = taken
  <2>1. answer["main"] = Atomic!Pending /\ taken \in Counter
    BY <1>1 DEF ActorInv, Messaging, TypeOK, Callers
  <2>2. hand # NoMessage => hand.from # "main" BY <1>1, NowhereElse DEF Callers
  <2>3. hand.op # "discard" BY <1>1, <2>2, HandOps DEF NoMessage
  <2>4. Generated = 0 /\ Advance(taken, 0) = taken BY <2>1, <2>3, Counting DEF Generated
  <2> QED BY <1>1, <2>1, <2>4 DEF ActorInv, Accounted
<1>2. ActorInv => NothingUnaccounted BY <1>1 DEF NothingUnaccounted
<1> QED BY <1>2, ActorInvariance, PTL

----------------------------------------------------------------------------
(* The actor implements the atomic simulator.                              *)

\* The simulator as the callers may think of it: without the batches of a
\* discard that is not over.
Seen ==
  IF hand.op # "discard" \/ thread # "running" THEN sim
  ELSE [sim EXCEPT !.events = (@ - (hand.count - left)) % Modulus,
                   !.stream = (@ - (hand.count - left)) % Modulus]

LEMMA AtomicOperators ==
  /\ Atomic!Simulators = Simulators /\ Atomic!Fresh = Fresh
  /\ \A s : Atomic!Initialize(s) = Initialize(s) /\ Atomic!End(s) = End(s) /\ Atomic!Generate(s) = Generate(s)
  /\ \A s : Atomic!CanGenerate(s) <=> CanGenerate(s)
  /\ \A s, n : Atomic!CanDiscard(s, n) <=> n = 0 \/ CanGenerate(s)
  /\ \A s, n : Atomic!Discard(s, n) =
       [s EXCEPT !.events = Advance(@, n), !.stream = Advance(@, n)]
BY DEF Atomic!Simulators, Simulators, Atomic!Counter, Counter, Atomic!Fresh, Fresh,
       Atomic!Initialize, Initialize, Atomic!End, End, Atomic!Generate, Generate,
       Atomic!CanGenerate, CanGenerate, Atomic!CanDiscard, Atomic!Discard, Atomic!Advance, Advance

LEMMA SameSimulator ==
  ASSUME NEW s \in Simulators, NEW t \in Simulators,
         s.modulator = t.modulator, s.events = t.events, s.stream = t.stream
  PROVE  s = t
BY DEF Simulators

LEMMA SeenFacts ==
  ASSUME ActorInv
  PROVE  /\ sim \in Simulators /\ Seen \in Simulators /\ Seen.modulator = sim.modulator
         /\ hand.op # "discard" \/ thread # "running" => Seen = sim
         /\ hand.op = "discard" /\ thread = "running" =>
              /\ Generated \in Nat
              /\ Seen.events = (sim.events - Generated) % Modulus
              /\ Seen.stream = (sim.stream - Generated) % Modulus
              /\ Generated = 0 => Seen = sim
<1>1. sim \in Simulators BY DEF ActorInv, TypeOK
<1>2. sim.events \in Counter /\ sim.stream \in Counter /\ sim.modulator \in {"Idle", "Random"}
  BY <1>1, SimulatorSteps
<1>3. CASE hand.op # "discard" \/ thread # "running" BY <1>1, <1>3 DEF Seen
<1>4. CASE hand.op = "discard" /\ thread = "running"
  <2>1. InHand("discard") BY <1>4 DEF InHand
  <2>2. hand.count \in Nat /\ left \in Nat /\ left <= hand.count
    BY <2>1, InHandFacts DEF Atomic!Plain
  <2>3. Generated = hand.count - left /\ Generated \in Nat BY <1>4, <2>2 DEF Generated
  <2>4. (sim.events - Generated) % Modulus \in Counter /\ (sim.stream - Generated) % Modulus \in Counter
    BY <1>2, <2>3, Counting
  <2>5. Seen = [sim EXCEPT !.events = (sim.events - Generated) % Modulus,
                           !.stream = (sim.stream - Generated) % Modulus]
    BY <1>4, <2>3 DEF Seen
  <2>6. /\ Seen \in Simulators /\ Seen.modulator = sim.modulator
        /\ Seen.events = (sim.events - Generated) % Modulus
        /\ Seen.stream = (sim.stream - Generated) % Modulus
    BY <1>1, <2>4, <2>5 DEF Simulators
  <2>7. ASSUME Generated = 0 PROVE Seen = sim
    <3>1. Seen.events = sim.events /\ Seen.stream = sim.stream BY <1>2, <2>6, <2>7, Counting
    <3> QED BY <1>1, <2>6, <3>1, SameSimulator
  <2> QED BY <1>1, <1>4, <2>3, <2>6, <2>7
<1> QED BY <1>3, <1>4

LEMMA AtomicInit == Init => Atomic!Init
<1> SUFFICES ASSUME Init PROVE Atomic!Init
  OBVIOUS
<1>1. hand.op # "discard" BY DEF Init, NoMessage
<1>2. sim = Atomic!Fresh BY AtomicOperators DEF Init
<1>3. attack = FALSE /\ thread = "running" BY DEF Init
<1>4. call = [c \in Callers |-> Atomic!NoCall] /\ answer = [c \in Callers |-> Atomic!Pending]
  BY DEF Init
<1> QED BY <1>1, <1>2, <1>3, <1>4 DEF Atomic!Init

\* A reply is the step in which its call takes effect.
LEMMA RepliesTakeEffect ==
  ASSUME ActorInv, hand # NoMessage, thread = "running", NEW a, a # Atomic!Pending,
         Reply(a), Atomic!Effect(Request(hand), a)
  PROVE  Atomic!Next
<1> DEFINE c == hand.from
<1>1. c \in Callers /\ call[c] = Request(hand) /\ answer[c] = Atomic!Pending
  BY HandOps DEF Owed, Callers
<1>2. /\ answer' = [answer EXCEPT ![c] = a] /\ answer'[c] = a
      /\ thread' = thread /\ call' = call
  BY <1>1 DEF Reply, ActorInv, TypeOK
<1>3. Atomic!Effect(call[c], answer'[c]) BY <1>1, <1>2
<1>4. Atomic!TakeEffect(c) BY <1>1, <1>2, <1>3 DEF Atomic!TakeEffect
<1> QED BY <1>1, <1>4 DEF Atomic!Next

LEMMA HandlersTakeEffect ==
  ASSUME ActorInv,
         \/ HandleStartSession \/ HandleStopSession \/ HandleProgress \/ HandleAttack
         \/ HandleGenerate \/ HandleRefused \/ Discarded
  PROVE  Atomic!Next
<1>1. ASSUME NEW a, Reply(a) PROVE Seen' = sim'
  BY <1>1 DEF Reply, Seen, NoMessage
<1>2. /\ Atomic!Ok # Atomic!Pending /\ Atomic!Refused # Atomic!Pending
      /\ Atomic!Ok \in Answers /\ Atomic!Refused \in Answers
  BY AnswerFacts
<1>3. sim \in Simulators /\ attack \in BOOLEAN BY DEF ActorInv, TypeOK
<1>4. CASE HandleStartSession
  <2>1. InHand("start") /\ sim' = Initialize(sim) /\ Reply(Atomic!Ok) /\ attack' = attack
    BY <1>4 DEF HandleStartSession
  <2>2. hand # NoMessage /\ thread = "running" /\ Request(hand).op = "start" /\ Seen = sim
    BY <2>1, InHandFacts, SeenFacts DEF Atomic!Plain, Request
  <2>3. Seen' = Atomic!Initialize(Seen) BY <1>1, <2>1, <2>2, AtomicOperators
  <2>4. Atomic!Effect(Request(hand), Atomic!Ok) BY <2>1, <2>2, <2>3 DEF Atomic!Effect, Seen
  <2> QED BY <1>2, <2>1, <2>2, <2>4, RepliesTakeEffect
<1>5. CASE HandleStopSession
  <2>1. InHand("stop") /\ sim' = End(sim) /\ Reply(Atomic!Ok) /\ attack' = attack
    BY <1>5 DEF HandleStopSession
  <2>2. hand # NoMessage /\ thread = "running" /\ Request(hand).op = "stop" /\ Seen = sim
    BY <2>1, InHandFacts, SeenFacts DEF Atomic!Plain, Request
  <2>3. Seen' = Atomic!End(Seen) BY <1>1, <2>1, <2>2, AtomicOperators
  <2>4. Atomic!Effect(Request(hand), Atomic!Ok) BY <2>1, <2>2, <2>3 DEF Atomic!Effect, Seen
  <2> QED BY <1>2, <2>1, <2>2, <2>4, RepliesTakeEffect
<1>6. CASE HandleProgress
  <2>1. InHand("progress") /\ Reply(Atomic!Progress(sim)) /\ sim' = sim /\ attack' = attack
    BY <1>6 DEF HandleProgress
  <2>2. hand # NoMessage /\ thread = "running" /\ Request(hand).op = "progress" /\ Seen = sim
    BY <2>1, InHandFacts, SeenFacts DEF Atomic!Plain, Request
  <2>3. Seen' = Seen /\ Atomic!Progress(Seen) = Atomic!Progress(sim) BY <1>1, <2>1, <2>2
  <2>4. Atomic!Effect(Request(hand), Atomic!Progress(sim)) BY <2>1, <2>2, <2>3 DEF Atomic!Effect, Seen
  <2>5. Atomic!Progress(sim) # Atomic!Pending BY <1>3, AnswersOfSimulator, AnswerFacts
  <2> QED BY <2>1, <2>2, <2>4, <2>5, RepliesTakeEffect
<1>7. CASE HandleAttack
  <2>1. PICK op \in {"start_attack", "stop_attack"} :
          InHand(op) /\ Reply(Atomic!Ok) /\ sim' = sim /\ attack' = (op = "start_attack")
    BY <1>7 DEF HandleAttack, InHand
  <2>2. hand # NoMessage /\ thread = "running" /\ Request(hand).op = op /\ Seen = sim
    BY <2>1, InHandFacts, SeenFacts DEF Atomic!Plain, Request
  <2>3. Seen' = Seen BY <1>1, <2>1, <2>2
  <2>4. Atomic!Effect(Request(hand), Atomic!Ok) BY <2>1, <2>2, <2>3 DEF Atomic!Effect, Seen
  <2> QED BY <1>2, <2>1, <2>2, <2>4, RepliesTakeEffect
<1>8. CASE HandleGenerate
  <2>1. /\ InHand("generate") /\ CanGenerate(sim) /\ sim' = Generate(sim)
        /\ Reply(Atomic!Batch(sim, attack)) /\ attack' = attack
    BY <1>8 DEF HandleGenerate, NextBatch
  <2>2. hand # NoMessage /\ thread = "running" /\ Request(hand).op = "generate" /\ Seen = sim
    BY <2>1, InHandFacts, SeenFacts DEF Atomic!Plain, Request
  <2>3. /\ Seen' = Atomic!Generate(Seen) /\ Atomic!CanGenerate(Seen)
        /\ Atomic!Batch(Seen, attack) = Atomic!Batch(sim, attack)
    BY <1>1, <2>1, <2>2, AtomicOperators
  <2>4. Atomic!Effect(Request(hand), Atomic!Batch(sim, attack))
    BY <2>1, <2>2, <2>3 DEF Atomic!Effect, Seen
  <2>5. Atomic!Batch(sim, attack) # Atomic!Pending BY <1>3, AnswersOfSimulator, AnswerFacts
  <2> QED BY <2>1, <2>2, <2>4, <2>5, RepliesTakeEffect
<1>9. CASE HandleRefused
  <2>1. /\ InHand("generate") \/ (InHand("discard") /\ left > 0)
        /\ ~CanGenerate(sim) /\ Reply(Atomic!Refused) /\ sim' = sim /\ attack' = attack
    BY <1>9 DEF HandleRefused
  <2>2. /\ hand # NoMessage /\ thread = "running" /\ Request(hand).op = hand.op /\ Request(hand).count = hand.count
        /\ hand.op \in {"generate", "discard"} /\ hand.count \in Nat /\ left \in Nat /\ left <= hand.count
    BY <2>1, InHandFacts DEF Atomic!Plain, Request
  <2>3. hand.op = "discard" => left = hand.count /\ hand.count # 0
    BY <2>1, <2>2 DEF ActorInv, Discarding, InHand
  <2>4. Generated = 0 BY <2>2, <2>3 DEF Generated
  <2>5. Seen = sim BY <2>4, SeenFacts
  <2>6. /\ Seen' = Seen /\ ~Atomic!CanGenerate(Seen)
        /\ hand.op = "discard" => ~Atomic!CanDiscard(Seen, hand.count)
    BY <1>1, <2>1, <2>3, <2>5, AtomicOperators
  <2>7. Atomic!Effect(Request(hand), Atomic!Refused)
    BY <2>1, <2>2, <2>6 DEF Atomic!Effect, Seen
  <2> QED BY <1>2, <2>1, <2>2, <2>7, RepliesTakeEffect
<1>10. CASE Discarded
  <2>1. InHand("discard") /\ left = 0 /\ Reply(Atomic!Ok) /\ sim' = sim /\ attack' = attack
    BY <1>10 DEF Discarded
  <2>2. /\ hand # NoMessage /\ thread = "running" /\ Request(hand).op = "discard"
        /\ Request(hand).count = hand.count /\ hand.op = "discard" /\ hand.count \in Nat
    BY <2>1, InHandFacts DEF Atomic!Plain, Request
  <2>3. Generated = hand.count BY <2>1, <2>2 DEF Generated
  <2>4. /\ Seen \in Simulators /\ Seen.modulator = sim.modulator
        /\ Seen.events = (sim.events - hand.count) % Modulus
        /\ Seen.stream = (sim.stream - hand.count) % Modulus
    BY <2>2, <2>3, SeenFacts
  <2>5. Atomic!CanDiscard(Seen, hand.count)
    <3>1. hand.count = 0 \/ CanGenerate(sim) BY <2>1, <2>2 DEF ActorInv, Discarding
    <3> QED BY <2>4, <3>1, AtomicOperators DEF CanGenerate
  <2>6. Seen' = Atomic!Discard(Seen, hand.count)
    <3>1. sim.events \in Counter /\ sim.stream \in Counter BY <1>3, SimulatorSteps
    <3>2. Advance(Seen.events, hand.count) = sim.events /\ Advance(Seen.stream, hand.count) = sim.stream
      <4>1. \A x \in Counter : Advance((x - hand.count) % Modulus, hand.count) = x BY <2>2, Counting
      <4> QED BY <2>4, <3>1, <4>1
    <3> DEFINE t == [Seen EXCEPT !.events = Advance(@, hand.count), !.stream = Advance(@, hand.count)]
    <3>3. t = [Seen EXCEPT !.events = sim.events, !.stream = sim.stream] BY <3>2
    <3>4. /\ t \in Simulators /\ t.modulator = sim.modulator
          /\ t.events = sim.events /\ t.stream = sim.stream
      BY <2>4, <3>1, <3>3 DEF Simulators
    <3>5. t = sim BY <1>3, <3>4, SameSimulator
    <3> QED BY <1>1, <2>1, <3>5, AtomicOperators
  <2>7. Atomic!Effect(Request(hand), Atomic!Ok)
    BY <2>1, <2>2, <2>5, <2>6 DEF Atomic!Effect, Seen
  <2> QED BY <1>2, <2>1, <2>2, <2>7, RepliesTakeEffect
<1> QED BY <1>4, <1>5, <1>6, <1>7, <1>8, <1>9, <1>10

LEMMA SendAsks ==
  ASSUME ActorInv, NEW c \in Callers, NEW op, NEW n, [op |-> op, count |-> n] \in Atomic!Calls, Send(c, op, n)
  PROVE  Atomic!Next
<1> DEFINE r == [op |-> op, count |-> n]
<1>1. /\ call[c] = Atomic!NoCall /\ call' = [call EXCEPT ![c] = r]
      /\ UNCHANGED <<sim, attack, thread, hand, left>>
      /\ \/ thread = "gone" /\ answer' = [answer EXCEPT ![c] = Atomic!Lost]
         \/ answer' = answer
  BY DEF Send
<1>2. answer[c] = Atomic!Pending /\ answer \in [Callers -> Answers] BY <1>1 DEF ActorInv, Messaging, TypeOK
<1>3. answer = [answer EXCEPT ![c] = Atomic!Pending] BY <1>2
<1>4. \E a \in {Atomic!Pending, Atomic!Lost} :
         /\ a = Atomic!Lost => ~(thread = "running")
         /\ answer' = [answer EXCEPT ![c] = a]
  <2>1. CASE thread = "gone" /\ answer' = [answer EXCEPT ![c] = Atomic!Lost] BY <2>1
  <2>2. CASE answer' = answer
    <3>1. Atomic!Pending # Atomic!Lost BY AnswerFacts
    <3> QED BY <1>3, <2>2, <3>1
  <2> QED BY <1>1, <2>1, <2>2
<1>5. Seen' = Seen BY <1>1 DEF Seen
<1>6. Atomic!Ask(c) BY <1>1, <1>4, <1>5 DEF Atomic!Ask, Seen
<1> QED BY <1>6 DEF Atomic!Next

LEMMA CallsAsk ==
  ASSUME ActorInv, MainCalls \/ ControlCalls
  PROVE  Atomic!Next
<1>1. \A op \in Atomic!Plain : [op |-> op, count |-> 0] \in Atomic!Calls BY DEF Atomic!Calls
<1>2. \A n \in 0..MaxCount : [op |-> "discard", count |-> n] \in Atomic!Calls BY DEF Atomic!Calls
<1>3. ASSUME MainCalls PROVE Atomic!Next
  <2>1. \/ Send("main", "start", 0) \/ Send("main", "generate", 0) \/ Send("main", "stop", 0)
        \/ Send("main", "progress", 0) \/ \E n \in 0..MaxCount : Send("main", "discard", n)
    BY <1>3 DEF MainCalls
  <2> QED BY <1>1, <1>2, <2>1, SendAsks DEF Callers, Atomic!Plain
<1>4. ASSUME ControlCalls PROVE Atomic!Next
  BY <1>1, <1>4, SendAsks DEF ControlCalls, Callers, Atomic!Plain
<1> QED BY <1>3, <1>4

LEMMA ReturnsReturn ==
  ASSUME ActorInv, MainReturns \/ ControlReturns
  PROVE  Atomic!Next
<1>1. ASSUME NEW c \in Callers, call[c] # Atomic!NoCall, answer[c] # Atomic!Pending, Return(c)
      PROVE  Atomic!Next
  <2>1. UNCHANGED <<sim, attack, thread, hand, left>> BY <1>1 DEF Return
  <2>2. Seen' = Seen BY <2>1 DEF Seen
  <2>3. Atomic!Return(c) BY <1>1, <2>1, <2>2 DEF Return, Atomic!Return, Seen
  <2> QED BY <2>3 DEF Atomic!Next
<1>2. \A op : Answered("main", op) /\ op # "none" => call["main"] # Atomic!NoCall /\ answer["main"] # Atomic!Pending
  BY DEF Answered, Atomic!NoCall
<1>3. ASSUME MainReturns PROVE Atomic!Next
  BY <1>1, <1>2, <1>3 DEF MainReturns, StartReturns, BatchReturns, StopReturns, ProgressReturns, DiscardReturns, Callers
<1>4. ASSUME ControlReturns PROVE Atomic!Next
  BY <1>1, <1>4 DEF ControlReturns, Callers
<1> QED BY <1>3, <1>4

\* Taking a message changes nothing the callers can see, nor does any batch of a
\* discard before the discard is over.
LEMMA Stutters ==
  ASSUME ActorInv, Receive \/ DiscardOne \/ TakePause \/ UNCHANGED actorVars
  PROVE  UNCHANGED Atomic!vars
<1>1. ASSUME Receive PROVE UNCHANGED <<Seen, attack, thread, call, answer>>
  <2>1. ActorInv' BY <1>1, ReceiveKeeps
  <2>2. /\ hand = NoMessage /\ thread' = "running"
        /\ UNCHANGED <<sim, attack, thread, call, answer>> /\ left' = hand'.count
    BY <1>1 DEF Receive, callers
  <2>3. Seen = sim BY <2>2 DEF Seen, NoMessage
  <2>4. hand' \in Messages
    BY <1>1, SeqFacts DEF Receive, ActorInv, TypeOK
  <2>5. Seen' = sim'
    <3>1. hand'.count \in Nat BY <2>4, MessageFacts
    <3>2. sim'.events \in Counter /\ sim'.stream \in Counter /\ sim' \in Simulators
      BY <2>2, SeenFacts, SimulatorSteps
    <3>3. (sim'.events - 0) % Modulus = sim'.events /\ (sim'.stream - 0) % Modulus = sim'.stream
      BY <3>2, Counting
    <3>4. hand'.count - left' = 0 BY <2>2, <3>1
    <3>5. [sim' EXCEPT !.events = sim'.events, !.stream = sim'.stream] = sim' BY <3>2 DEF Simulators
    <3> QED BY <3>3, <3>4, <3>5 DEF Seen
  <2> QED BY <2>2, <2>3, <2>5
<1>2. ASSUME DiscardOne PROVE UNCHANGED <<Seen, attack, thread, call, answer>>
  <2>1. /\ InHand("discard") /\ left > 0 /\ sim' = Generate(sim) /\ left' = left - 1
        /\ UNCHANGED <<attack, thread, hand, call, answer>>
    BY <1>2 DEF DiscardOne, NextBatch, callers
  <2>2. /\ hand.op = "discard" /\ thread = "running" /\ hand.count \in Nat
        /\ left \in Nat /\ left <= hand.count /\ sim \in Simulators
    BY <2>1, InHandFacts DEF Atomic!Plain
  <2> DEFINE k == hand.count - left
  <2>3. k \in Nat /\ hand'.count - left' = k + 1 BY <2>1, <2>2
  <2> HIDE DEF k
  <2>4. \A x \in Counter : (Advance(x, 1) - (k + 1)) % Modulus = (x - k) % Modulus BY <2>3, Counting
  <2>5. /\ sim'.events = Advance(sim.events, 1) /\ sim'.stream = Advance(sim.stream, 1)
        /\ sim.events \in Counter /\ sim.stream \in Counter
    BY <2>1, <2>2, SimulatorSteps
  <2>6. /\ (sim'.events - (k + 1)) % Modulus = (sim.events - k) % Modulus
        /\ (sim'.stream - (k + 1)) % Modulus = (sim.stream - k) % Modulus
    BY <2>4, <2>5
  <2>7. Seen = [sim EXCEPT !.events = (sim.events - k) % Modulus, !.stream = (sim.stream - k) % Modulus]
    BY <2>2 DEF Seen, k
  <2>8. Seen' = [sim' EXCEPT !.events = (sim'.events - (k + 1)) % Modulus,
                             !.stream = (sim'.stream - (k + 1)) % Modulus]
    BY <2>1, <2>2, <2>3 DEF Seen
  <2>9. \A e, x : [Generate(sim) EXCEPT !.events = e, !.stream = x] = [sim EXCEPT !.events = e, !.stream = x]
    BY <2>2 DEF Generate, Simulators
  <2> QED BY <2>1, <2>6, <2>7, <2>8, <2>9
<1>3. ASSUME TakePause PROVE UNCHANGED <<Seen, attack, thread, call, answer>>
  BY <1>3 DEF TakePause, callers, Seen
<1>4. ASSUME UNCHANGED actorVars PROVE UNCHANGED <<Seen, attack, thread, call, answer>>
  BY <1>4 DEF actorVars, callers, Seen
<1>5. UNCHANGED <<Seen, attack, thread, call, answer>> BY <1>1, <1>2, <1>3, <1>4
<1> QED BY <1>5 DEF Atomic!vars, Seen

\* A panic breaks the simulator, and the messages it drops are lost.
LEMMA BreakingBreaks ==
  ASSUME ActorInv, Panic \/ DropHand \/ DropChannel
  PROVE  Atomic!Next
<1>1. ASSUME Panic PROVE Atomic!Next
  <2>1. /\ thread = "running" /\ thread' = "unwinding"
        /\ UNCHANGED <<sim, attack, hand, left, call, answer>>
    BY <1>1 DEF Panic, InHand, callers
  <2>2. Seen' \in Simulators
    <3>1. Seen' = sim' BY <2>1 DEF Seen
    <3> QED BY <2>1, <3>1, SeenFacts
  <2>3. Atomic!Break BY <2>1, <2>2, AtomicOperators DEF Atomic!Break, Seen
  <2> QED BY <2>3 DEF Atomic!Next
<1> DEFINE Waiting == {c \in Callers : call[c] # Atomic!NoCall /\ answer[c] = Atomic!Pending}
<1>2. ASSUME thread # "running", thread' # "running", UNCHANGED <<sim, attack, call>>,
             NEW C \in SUBSET Waiting,
             answer' = [c \in Callers |-> IF c \in C THEN Atomic!Lost ELSE answer[c]]
      PROVE  Atomic!Next
  <2>1. Seen' = Seen BY <1>2 DEF Seen
  <2>2. Atomic!Lose BY <1>2, <2>1 DEF Atomic!Lose, Seen
  <2> QED BY <2>2 DEF Atomic!Next
<1>3. ASSUME NEW m \in Messages, Owed(m) PROVE m.from \in Waiting
  BY <1>3, MessageFacts DEF Owed
<1>4. ASSUME DropHand PROVE Atomic!Next
  <2>1. /\ thread = "unwinding" /\ thread' = "unwinding" /\ hand # NoMessage
        /\ UNCHANGED <<sim, attack, call>> /\ answer' = [answer EXCEPT ![hand.from] = Atomic!Lost]
    BY <1>4 DEF DropHand, Reply
  <2>2. {hand.from} \in SUBSET Waiting BY <1>3, <2>1, HandOps
  <2>3. answer' = [c \in Callers |-> IF c \in {hand.from} THEN Atomic!Lost ELSE answer[c]]
    BY <2>1 DEF ActorInv, TypeOK
  <2> HIDE DEF Waiting
  <2> QED BY <1>2, <2>1, <2>2, <2>3
<1>5. ASSUME DropChannel PROVE Atomic!Next
  <2> DEFINE C == {c \in Callers : \E i \in DOMAIN channel : channel[i].from = c}
  <2>1. /\ thread = "unwinding" /\ thread' = "gone" /\ UNCHANGED <<sim, attack, call>>
        /\ answer' = [c \in Callers |-> IF c \in C THEN Atomic!Lost ELSE answer[c]]
    BY <1>5 DEF DropChannel
  <2>2. \A i \in DOMAIN channel : channel[i] \in Messages /\ Owed(channel[i])
    BY SeqFacts DEF ActorInv, TypeOK, Messaging
  <2>3. C \in SUBSET Waiting BY <1>3, <2>2
  <2> HIDE DEF Waiting, C
  <2> QED BY <1>2, <2>1, <2>3
<1> QED BY <1>1, <1>4, <1>5

\* Calls of two threads to one actor take effect one at a time, each between its
\* beginning and its return, whatever the actor's channel holds, however long it
\* paces a discard, and whether or not it panics over it.
THEOREM ImplementsAtomicHolds == Spec => ImplementsAtomic
<1>1. Init => Atomic!Init BY AtomicInit
<1>2. ActorInv /\ [Next]_actorVars => [Atomic!Next]_(Atomic!vars)
  <2> SUFFICES ASSUME ActorInv, [Next]_actorVars PROVE Atomic!Next \/ UNCHANGED Atomic!vars
    OBVIOUS
  <2>1. CASE ActorStep
    BY <2>1, Stutters, HandlersTakeEffect, BreakingBreaks DEF ActorStep
  <2>2. CASE Panic BY <2>2, BreakingBreaks
  <2>3. CASE MainCalls \/ ControlCalls BY <2>3, CallsAsk
  <2>4. CASE MainReturns \/ ControlReturns BY <2>4, ReturnsReturn
  <2>5. CASE TakePause \/ UNCHANGED actorVars BY <2>5, Stutters
  <2> QED BY <2>1, <2>2, <2>3, <2>4, <2>5 DEF Next
<1> QED BY <1>1, <1>2, ActorInvariance, PTL DEF Spec, ImplementsAtomic, Atomic!Spec
=============================================================================
