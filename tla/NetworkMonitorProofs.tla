------------------------ MODULE NetworkMonitorProofs ------------------------
(***************************************************************************)
(* Proofs about the network observer, for any keys, RTTs, configs and      *)
(* capacities that satisfy NetworkAssumption and LoopAssumption.           *)
(*                                                                         *)
(* Two invariants carry them.  Baselines says that every baseline with     *)
(* samples lies between two of them, which needs the arithmetic of the     *)
(* mean (MeanBounds) and that no intermediate product wraps (WidthsFit).   *)
(* Backed says that whatever a record in the ring buffer stands for has    *)
(* happened, so that it still holds when the record is drained later.      *)
(***************************************************************************)
EXTENDS NetworkMonitor, SequenceTheorems, TLAPS

-----------------------------------------------------------------------------
(* The integer mean.                                                       *)

\* Division rounds down.
LEMMA DivBounds ==
    ASSUME NEW v \in Nat, NEW n \in Nat, n > 0
    PROVE  /\ v \div n \in Nat
           /\ n * (v \div n) <= v
           /\ v < n * (v \div n) + n
  OBVIOUS

\* Products keep the order.
LEMMA ProductMonotone ==
    ASSUME NEW a \in Nat, NEW b \in Nat, NEW n \in Nat, a <= b
    PROVE  a * n <= b * n /\ a * n \in Nat /\ b * n \in Nat
  OBVIOUS

\* And its reverse.
LEMMA ProductCancels ==
    ASSUME NEW a \in Nat, NEW b \in Nat, NEW n \in Nat, n > 0, n * a < n * b + n
    PROVE  a <= b
<1> SUFFICES ASSUME a > b PROVE FALSE
  OBVIOUS
<1>1. (b + 1) * n <= a * n
  BY ProductMonotone
<1> QED
  BY <1>1

\* A value below the width of u32 is not changed by it.
LEMMA NoWrap == ASSUME NEW v \in Nat, v < U32 PROVE u32(v) = v
  BY NetworkAssumption DEF u32

\* The mean of n - 1 values at b and one at r lies between the bounds of b and r.
LEMMA MeanBounds ==
    ASSUME NEW b \in Nat, NEW r \in Nat, NEW n \in Nat, n > 0,
           NEW low \in Nat, NEW high \in Nat,
           low <= b, b <= high, low <= r, r <= high
    PROVE  LET v == b * (n - 1) + r IN
           /\ v \in Nat /\ v <= high * n
           /\ v \div n \in Nat
           /\ low <= v \div n /\ v \div n <= high
<1> DEFINE v == b * (n - 1) + r
           q == v \div n
<1>1. n - 1 \in Nat
  OBVIOUS
<1>2. low * (n - 1) <= b * (n - 1) /\ b * (n - 1) <= high * (n - 1)
      /\ low * (n - 1) \in Nat /\ b * (n - 1) \in Nat /\ high * (n - 1) \in Nat
  BY <1>1, ProductMonotone
<1>3. low * n = low * (n - 1) + low /\ high * n = high * (n - 1) + high
  BY <1>1
<1>4. v \in Nat /\ low * n <= v /\ v <= high * n
  BY <1>2, <1>3
<1>5. q \in Nat /\ n * q <= v /\ v < n * q + n
  BY <1>4, DivBounds
<1>6. n * low < n * q + n /\ n * q < n * high + n
  BY <1>4, <1>5
<1>7. low <= q /\ q <= high
  BY <1>5, <1>6, ProductCancels
<1> QED
  BY <1>4, <1>5, <1>7

-----------------------------------------------------------------------------
(* The baselines.                                                          *)

\* The value lies between two samples.
Between(v, samples) == \E low, high \in samples : low <= v /\ v <= high

\* No product of an RTT with n wraps.
Fits(n) == \A r \in Rtts : r * n < U32

BaselineRecords == [baseline_us : Nat, sample_count : 0..U8, state : {"LEARNING", "STABLE"}]

\* What is known of key k: its samples are RTTs, a stable baseline has samples, and one
\* with samples lies between them.
BaselineOK(k) ==
    /\ learnt[k] \subseteq Rtts
    /\ baseline_rtt[k] # NoBaseline =>
          /\ baseline_rtt[k] \in BaselineRecords
          /\ baseline_rtt[k].state = "STABLE" => baseline_rtt[k].sample_count > 0
          /\ baseline_rtt[k].sample_count > 0 => Between(baseline_rtt[k].baseline_us, learnt[k])

Baselines ==
    /\ cfg \in Cfgs
    /\ baseline_rtt = [k \in Keys |-> baseline_rtt[k]]
    /\ learnt = [k \in Keys |-> learnt[k]]
    /\ \A k \in Keys : BaselineOK(k)

\* The sample counts and the tenth of a refresh fit into 32 bits.
LEMMA WidthsFit == Fits(10) /\ \A n \in 1..U8 : Fits(n)
<1>1. Fits(10)
  BY NetworkAssumption DEF Fits
<1>2. ASSUME NEW n \in 1..U8, NEW r \in Rtts PROVE r * n < U32
  <2>1. r \in Nat /\ n \in Nat /\ U8 + 1 \in Nat /\ n <= U8 + 1
    BY NetworkAssumption
  <2>2. n * r <= (U8 + 1) * r /\ n * r \in Nat /\ (U8 + 1) * r \in Nat
    BY <2>1, ProductMonotone
  <2> QED
    BY <2>1, <2>2, NetworkAssumption
<1> QED
  BY <1>1, <1>2 DEF Fits

\* A new sample keeps the mean between the samples.
LEMMA MeanBetween ==
    ASSUME NEW L \in SUBSET Rtts, NEW b \in Nat, NEW r \in Rtts, NEW n \in Nat, n > 0,
           n > 1 => Between(b, L), Fits(n)
    PROVE  LET m == u32(b * (n - 1) + r) \div n IN m \in Nat /\ Between(m, L \cup {r})
<1> DEFINE v == b * (n - 1) + r
<1>1. r \in Nat /\ L \subseteq Nat
  BY NetworkAssumption
<1>2. ASSUME NEW low \in L \cup {r}, NEW high \in L \cup {r}, NEW c \in Nat,
             c * (n - 1) = b * (n - 1), low <= c, c <= high, low <= r, r <= high
      PROVE  u32(v) \div n \in Nat /\ Between(u32(v) \div n, L \cup {r})
  <2>1. low \in Nat /\ high \in Nat /\ high \in Rtts
    BY <1>1
  <2>2. /\ v \in Nat /\ v <= high * n
        /\ v \div n \in Nat /\ low <= v \div n /\ v \div n <= high
    BY <1>1, <1>2, <2>1, MeanBounds
  <2>3. u32(v) = v
    BY <2>1, <2>2, NoWrap, NetworkAssumption DEF Fits
  <2> QED
    BY <2>2, <2>3 DEF Between
<1>3. CASE n = 1
  <2>1. r * (n - 1) = b * (n - 1) /\ r <= r
    BY <1>1, <1>3
  <2> QED
    BY <1>1, <1>2, <2>1
<1>4. CASE n > 1
  <2>1. PICK low \in L, high \in L : low <= b /\ b <= high
    BY <1>4 DEF Between
  <2>2. CASE low <= r /\ r <= high
    BY <1>2, <2>1, <2>2
  <2>3. CASE r < low
    <3>1. r <= b
      BY <1>1, <2>1, <2>3
    <3>2. r <= high /\ r <= r /\ b * (n - 1) = b * (n - 1)
      BY <1>1, <2>1, <2>3
    <3> QED
      BY <1>1, <1>2, <2>1, <3>1, <3>2
  <2>4. CASE high < r
    <3>1. b <= r
      BY <1>1, <2>1, <2>4
    <3>2. low <= r /\ r <= r /\ b * (n - 1) = b * (n - 1)
      BY <1>1, <2>1, <2>4
    <3> QED
      BY <1>1, <1>2, <2>1, <3>1, <3>2
  <2> QED
    BY <1>1, <2>1, <2>2, <2>3, <2>4
<1> QED
  BY <1>3, <1>4

\* A baseline with its next learning sample.
LEMMA LearnOK ==
    ASSUME NEW b \in BaselineRecords, NEW L \in SUBSET Rtts, NEW rtt \in Rtts,
           b.sample_count > 0 => Between(b.baseline_us, L)
    PROVE  /\ learn(b, rtt) \in BaselineRecords
           /\ learn(b, rtt).sample_count > 0 /\ learn(b, rtt).state = b.state
           /\ Between(learn(b, rtt).baseline_us, L \cup {rtt})
<1> DEFINE n == IF b.sample_count < U8 THEN b.sample_count + 1 ELSE b.sample_count
           m == u32(b.baseline_us * (n - 1) + rtt) \div n
<1>1. /\ b.baseline_us \in Nat /\ b.sample_count \in 0..U8 /\ b.state \in {"LEARNING", "STABLE"}
  BY DEF BaselineRecords
<1>2. n \in 1..U8 /\ (n > 1 => b.sample_count > 0)
  BY <1>1, NetworkAssumption
<1>3. m \in Nat /\ Between(m, L \cup {rtt})
  <2>1. n \in Nat /\ n > 0 /\ Fits(n) /\ (n > 1 => Between(b.baseline_us, L))
    BY <1>2, WidthsFit
  <2> HIDE DEF n
  <2> QED
    BY <1>1, <2>1, MeanBetween
<1>4. learn(b, rtt) = [b EXCEPT !.sample_count = n, !.baseline_us = m]
  BY DEF learn
<1>5. learn(b, rtt) = [baseline_us |-> m, sample_count |-> n, state |-> b.state]
  BY <1>4 DEF BaselineRecords
<1> HIDE DEF n, m
<1> QED
  BY <1>1, <1>2, <1>3, <1>5 DEF BaselineRecords

\* A change of key k alone keeps the others right.
LEMMA OneKeyChanges ==
    ASSUME Baselines, NEW k \in Keys, NEW b, NEW L, UNCHANGED cfg,
           baseline_rtt' = [baseline_rtt EXCEPT ![k] = b],
           learnt' = [learnt EXCEPT ![k] = L],
           L \in SUBSET Rtts,
           b # NoBaseline =>
              /\ b \in BaselineRecords
              /\ b.state = "STABLE" => b.sample_count > 0
              /\ b.sample_count > 0 => Between(b.baseline_us, L)
    PROVE  Baselines'
<1>1. baseline_rtt'[k] = b /\ learnt'[k] = L
  BY DEF Baselines
<1>2. BaselineOK(k)'
  BY <1>1 DEF BaselineOK
<1>3. \A l \in Keys : l # k => baseline_rtt'[l] = baseline_rtt[l] /\ learnt'[l] = learnt[l]
  BY DEF Baselines
<1>4. \A l \in Keys : l # k => BaselineOK(l)'
  BY <1>3 DEF Baselines, BaselineOK
<1> QED
  BY <1>2, <1>4 DEF Baselines

\* The baseline a sample in the stable state leaves behind.
LEMMA StableSample ==
    ASSUME Baselines, NEW k \in Keys, NEW rtt \in Rtts,
           baseline_rtt[k] # NoBaseline, baseline_stable(k, rtt)
    PROVE  /\ baseline_rtt' = [baseline_rtt EXCEPT ![k] = baseline_rtt'[k]]
           /\ learnt' = [learnt EXCEPT ![k] = learnt'[k]]
           /\ learnt'[k] \in SUBSET Rtts
           /\ baseline_rtt'[k] \in BaselineRecords
           /\ baseline_rtt'[k].sample_count > 0
           /\ Between(baseline_rtt'[k].baseline_us, learnt'[k])
<1> DEFINE b == baseline_rtt[k]
           L == learnt[k]
<1>1. L \in SUBSET Rtts /\ rtt \in Nat /\ L \cup {rtt} \in SUBSET Rtts
  BY NetworkAssumption DEF Baselines, BaselineOK
<1>2. b \in BaselineRecords /\ b.sample_count > 0 /\ Between(b.baseline_us, L)
  BY DEF Baselines, BaselineOK, baseline_stable
<1>3. CASE k \in stale
  <2> DEFINE m == u32(b.baseline_us * 9 + rtt) \div 10
             d == [b EXCEPT !.baseline_us = m]
  <2>1. b.baseline_us \in Nat /\ 10 - 1 = 9 /\ 10 \in Nat /\ 10 > 0
    BY <1>2 DEF BaselineRecords
  <2>2. m \in Nat /\ Between(m, L \cup {rtt})
    BY <1>1, <1>2, <2>1, WidthsFit, MeanBetween
  <2>3. baseline_rtt' = [baseline_rtt EXCEPT ![k] = d]
        /\ learnt' = [learnt EXCEPT ![k] = L \cup {rtt}]
    BY <1>3 DEF baseline_stable
  <2> HIDE DEF m
  <2>4. d \in BaselineRecords /\ d.sample_count > 0 /\ d.baseline_us = m
    BY <1>2, <2>2 DEF BaselineRecords
  <2> HIDE DEF d
  <2>5. baseline_rtt'[k] = d /\ learnt'[k] = L \cup {rtt}
    BY <2>3 DEF Baselines
  <2> QED
    BY <1>1, <2>2, <2>3, <2>4, <2>5
<1>4. CASE k \notin stale
  <2>1. baseline_rtt' = baseline_rtt /\ learnt' = learnt
    BY <1>4 DEF baseline_stable
  <2> QED
    BY <1>1, <1>2, <2>1 DEF Baselines
<1> QED
  BY <1>3, <1>4

\* A sample keeps the baselines right: learning, restarting, refreshing and inserting.
LEMMA TrackBaselines ==
    ASSUME Baselines, NEW k \in Keys, NEW rtt \in Rtts, track_rtt(k, rtt), UNCHANGED cfg
    PROVE  Baselines'
<1> DEFINE b == baseline_rtt[k]
           L == learnt[k]
<1>1. L \in SUBSET Rtts /\ rtt \in Nat /\ L \cup {rtt} \in SUBSET Rtts
  BY NetworkAssumption DEF Baselines, BaselineOK
<1>2. CASE baseline_insert(k, rtt)
  <2> DEFINE c == [baseline_us |-> rtt, sample_count |-> 1, state |-> "LEARNING"]
  <2>1. c \in BaselineRecords /\ c.sample_count > 0 /\ c.baseline_us = rtt
    BY <1>1, NetworkAssumption DEF BaselineRecords
  <2>2. Between(rtt, {rtt})
    BY <1>1 DEF Between
  <2>3. baseline_rtt' = [baseline_rtt EXCEPT ![k] = c] /\ learnt' = [learnt EXCEPT ![k] = {rtt}]
    BY <1>2 DEF baseline_insert
  <2> HIDE DEF c
  <2> QED
    BY <2>1, <2>2, <2>3, OneKeyChanges
<1>3. CASE b # NoBaseline /\ baseline_learning(k, rtt)
  <2> DEFINE c == learn(b, rtt)
             restart == LearningDone(c) /\ c.baseline_us > Floor
             zero == [baseline_us |-> 0, sample_count |-> 0, state |-> "LEARNING"]
             d == IF restart THEN zero
                  ELSE IF LearningDone(c) THEN [c EXCEPT !.state = "STABLE"] ELSE c
             M == IF restart THEN {} ELSE L \cup {rtt}
  <2>1. b \in BaselineRecords /\ (b.sample_count > 0 => Between(b.baseline_us, L))
    BY <1>3 DEF Baselines, BaselineOK
  <2>2. /\ c \in BaselineRecords /\ c.sample_count > 0
        /\ Between(c.baseline_us, L \cup {rtt})
    BY <1>1, <2>1, LearnOK
  <2>3. baseline_rtt' = [baseline_rtt EXCEPT ![k] = d] /\ learnt' = [learnt EXCEPT ![k] = M]
    BY <1>3 DEF baseline_learning
  <2>4. M \in SUBSET Rtts
    BY <1>1
  <2>5. zero \in BaselineRecords /\ zero.sample_count = 0 /\ zero.state = "LEARNING"
    BY NetworkAssumption DEF BaselineRecords
  <2>6. /\ [c EXCEPT !.state = "STABLE"] \in BaselineRecords
        /\ [c EXCEPT !.state = "STABLE"].sample_count = c.sample_count
        /\ [c EXCEPT !.state = "STABLE"].baseline_us = c.baseline_us
    BY <2>2 DEF BaselineRecords
  <2> HIDE DEF c, zero
  <2>7. /\ d \in BaselineRecords
        /\ d.state = "STABLE" => d.sample_count > 0
        /\ d.sample_count > 0 => Between(d.baseline_us, M)
    BY <2>2, <2>5, <2>6
  <2> HIDE DEF d, M
  <2> QED
    BY <2>3, <2>4, <2>7, OneKeyChanges
<1>4. CASE b # NoBaseline /\ baseline_stable(k, rtt)
  BY <1>4, StableSample, OneKeyChanges
<1> QED
  BY <1>2, <1>3, <1>4 DEF track_rtt

-----------------------------------------------------------------------------
(* The ring buffer.                                                        *)

States == {"CLOSE", "LISTEN", "SYN_SENT", "SYN_RECV", "ESTABLISHED"}
Types == {"RTT_SPIKE", "STATE_CHANGE", "RST_RECEIVED", "RETRANSMIT"}
Records == [type : Types, key : Keys, old : States, new : States, rtt : Nat]

\* The records of which the facts F bear out what user space makes of them.
BackedBy(F) ==
    {e \in Records :
        /\ e.type \in {"RST_RECEIVED", "RETRANSMIT"} => <<e.type, e.key>> \in F
        /\ e.type = "STATE_CHANGE" /\ e.old = "SYN_SENT" /\ e.new = "CLOSE" =>
              <<"failed connect", e.key>> \in F}

Backed ==
    /\ tcp \in [Keys -> States]
    /\ ring \in Seq(BackedBy(facts)) /\ Len(ring) <= RingCap

\* More facts back more records.
LEMMA BackedGrows ==
    ASSUME NEW F, NEW G, F \subseteq G
    PROVE  Seq(BackedBy(F)) \subseteq Seq(BackedBy(G))
<1>1. BackedBy(F) \subseteq BackedBy(G)
  BY DEF BackedBy
<1> QED
  BY <1>1, SeqMonotonic

\* A program adds some of its records, in order, and never more than fit.
LEMMA SubmitAdds ==
    ASSUME NEW S, ring \in Seq(S), NEW records \in Seq(S), Len(ring) <= RingCap,
           bpf_ringbuf_submit(records)
    PROVE  /\ ring' \in Seq(S) /\ Len(ring') <= RingCap
           /\ \A i \in DOMAIN ring' :
                 i > Len(ring) => \E j \in DOMAIN records : ring'[i] = records[j]
<1> DEFINE room == RingCap - Len(ring)
           fit  == IF Len(records) <= room THEN Len(records) ELSE room
           new  == SubSeq(records, 1, fit)
<1>1. ring' = ring \o new
  BY DEF bpf_ringbuf_submit
<1>2. fit \in Nat /\ fit <= Len(records) /\ Len(ring) + fit <= RingCap
  BY LoopAssumption
<1> HIDE DEF fit
<1>3. /\ new \in Seq(S) /\ Len(new) = fit
      /\ \A j \in 1..fit : new[j] = records[j]
  BY <1>2
<1> HIDE DEF new
<1>4. /\ ring' \in Seq(S) /\ Len(ring') = Len(ring) + fit
      /\ \A i \in 1..(Len(ring) + fit) :
            ring'[i] = IF i <= Len(ring) THEN ring[i] ELSE new[i - Len(ring)]
  BY <1>1, <1>3, ConcatProperties
<1>5. ASSUME NEW i \in DOMAIN ring', i > Len(ring)
      PROVE  \E j \in DOMAIN records : ring'[i] = records[j]
  <2>1. i \in 1..(Len(ring) + fit) /\ i - Len(ring) \in 1..fit
    BY <1>2, <1>4, <1>5
  <2>2. ring'[i] = new[i - Len(ring)]
    BY <1>4, <1>5, <2>1
  <2>3. i - Len(ring) \in DOMAIN records
    BY <1>2, <2>1
  <2> QED
    BY <1>3, <2>1, <2>2, <2>3
<1> QED
  BY <1>2, <1>4, <1>5

\* What justifies a spike: the test of SpikeIsJustified.
Justified(e) ==
    \/ cfg.abs_us > 0 /\ e.rtt > cfg.abs_us
    \/ cfg.ratio > 0 /\ \E sample \in learnt'[e.key] : e.rtt > sample * cfg.ratio

\* The records a step may add.
Addable == {e \in BackedBy(facts') : e.type = "RTT_SPIKE" => Justified(e)}

AddedJustified ==
    \A i \in DOMAIN ring' : i > Len(ring) /\ ring'[i].type = "RTT_SPIKE" => Justified(ring'[i])

\* A step that adds such records.
LEMMA RingGrows ==
    ASSUME Backed, facts \subseteq facts', tcp' \in [Keys -> States],
           NEW records \in Seq(Addable), bpf_ringbuf_submit(records)
    PROVE  Backed' /\ AddedJustified
<1>1. ring \in Seq(BackedBy(facts')) /\ Len(ring) <= RingCap
  BY BackedGrows DEF Backed
<1>2. records \in Seq(BackedBy(facts'))
  <2>1. Addable \subseteq BackedBy(facts')
    BY DEF Addable
  <2> QED
    BY <2>1, SeqMonotonic
<1>3. /\ ring' \in Seq(BackedBy(facts')) /\ Len(ring') <= RingCap
      /\ \A i \in DOMAIN ring' :
            i > Len(ring) => \E j \in DOMAIN records : ring'[i] = records[j]
  BY <1>1, <1>2, SubmitAdds
<1>4. \A j \in DOMAIN records : records[j] \in Addable
  BY ElementOfSeq, LenProperties
<1>5. AddedJustified
  BY <1>3, <1>4 DEF AddedJustified, Addable
<1> QED
  BY <1>3, <1>5 DEF Backed

\* A step that adds none.
LEMMA RingShrinks ==
    ASSUME Backed, facts \subseteq facts', tcp' \in [Keys -> States],
           ring' = ring \/ (ring # <<>> /\ ring' = Tail(ring))
    PROVE  Backed' /\ AddedJustified
<1>1. ring \in Seq(BackedBy(facts')) /\ Len(ring) <= RingCap /\ Len(ring) \in Nat
  BY BackedGrows, LenProperties DEF Backed
<1>2. ring' \in Seq(BackedBy(facts')) /\ Len(ring') <= Len(ring)
  <2>1. CASE ring' = ring
    <3>1. Len(ring') = Len(ring) /\ Len(ring) <= Len(ring)
      BY <1>1, <2>1
    <3> QED
      BY <1>1, <2>1, <3>1
  <2>2. CASE ring # <<>> /\ ring' = Tail(ring)
    BY <1>1, <2>2, HeadTailProperties
  <2> QED
    BY <2>1, <2>2
<1>3. \A i \in DOMAIN ring' : ~(i > Len(ring))
  BY <1>1, <1>2, LenProperties
<1>4. Len(ring') \in Nat /\ Len(ring') <= RingCap
  BY <1>1, <1>2, LenProperties, LoopAssumption
<1> QED
  BY <1>2, <1>3, <1>4 DEF Backed, AddedJustified

LEMMA RingSame ==
    ASSUME Backed, facts \subseteq facts', tcp' \in [Keys -> States], ring' = ring
    PROVE  Backed' /\ AddedJustified
<1>1. ring' = ring \/ (ring # <<>> /\ ring' = Tail(ring))
  OBVIOUS
<1> QED
  BY <1>1, RingShrinks

\* The ratio test compares with a multiple that has not wrapped.
LEMMA SpikeJustified ==
    ASSUME Baselines, NEW k \in Keys, NEW rtt \in Rtts, NEW e,
           track_rtt(k, rtt), Spike(k, rtt), e.key = k, e.rtt = rtt
    PROVE  Justified(e)
<1>1. CASE cfg.abs_us > 0 /\ rtt > cfg.abs_us
  BY <1>1 DEF Justified
<1>2. CASE cfg.ratio > 0 /\ rtt > u32(baseline_rtt'[k].baseline_us * cfg.ratio)
  <2>1. baseline_rtt[k] # NoBaseline /\ baseline_stable(k, rtt)
    BY DEF Spike, track_rtt, baseline_insert, baseline_learning
  <2> DEFINE m == baseline_rtt'[k].baseline_us
             L == learnt'[k]
  <2>2. m \in Nat /\ L \in SUBSET Rtts /\ Between(m, L)
    BY <2>1, StableSample DEF BaselineRecords
  <2>3. PICK low \in L, high \in L : low <= m /\ m <= high
    BY <2>2 DEF Between
  <2>4. /\ low \in Nat /\ high \in Nat /\ high \in Rtts /\ rtt \in Nat
        /\ cfg \in Cfgs /\ cfg.ratio \in Nat /\ U32 \in Nat
    BY <2>2, NetworkAssumption DEF Baselines
  <2>5. cfg.ratio * high < U32
    BY <2>4, NetworkAssumption
  <2> HIDE DEF m, L
  <2>6. /\ low * cfg.ratio <= m * cfg.ratio /\ m * cfg.ratio <= high * cfg.ratio
        /\ low * cfg.ratio \in Nat /\ m * cfg.ratio \in Nat /\ high * cfg.ratio \in Nat
    BY <2>2, <2>3, <2>4, ProductMonotone
  <2>7. cfg.ratio * high = high * cfg.ratio
    BY <2>4
  <2>8. m * cfg.ratio < U32
    BY <2>4, <2>5, <2>6, <2>7
  <2>9. u32(m * cfg.ratio) = m * cfg.ratio
    BY <2>6, <2>8, NoWrap
  <2>10. rtt > m * cfg.ratio
    BY <1>2, <2>9 DEF m
  <2>11. rtt > low * cfg.ratio
    BY <2>4, <2>6, <2>10
  <2> QED
    BY <1>2, <2>3, <2>11 DEF Justified, L
<1> QED
  BY <1>1, <1>2 DEF Spike

\* The programs' records are backed by the facts of their own step.
LEMMA SetStateRing ==
    ASSUME Baselines, Backed, NEW k \in Keys, set_state(k)
    PROVE  Backed' /\ AddedJustified /\ Baselines'
<1>1. PICK new \in {t[2] : t \in {u \in Transitions : u[1] = tcp[k]}} :
          /\ \E rtt \in IF new = "ESTABLISHED" THEN Rtts ELSE {0} :
                trace_inet_sock_set_state(k, new, rtt)
          /\ facts' = facts \cup IF tcp[k] = "SYN_SENT" /\ new = "CLOSE"
                                THEN {<<"failed connect", k>>} ELSE {}
  BY DEF set_state
<1>2. PICK rtt \in IF new = "ESTABLISHED" THEN Rtts ELSE {0} :
          trace_inet_sock_set_state(k, new, rtt)
  BY <1>1
<1> DEFINE old     == tcp[k]
           tracked == cfg.enabled /\ new = "ESTABLISHED" /\ rtt > 0
           spike   == Record("RTT_SPIKE", k, old, new, rtt)
           change  == Record("STATE_CHANGE", k, old, new, 0)
           spikes  == IF tracked /\ Spike(k, rtt) THEN <<spike>> ELSE <<>>
           changed == IF Important(old, new) THEN <<change>> ELSE <<>>
<1>3. new \in States
  <2>1. \A t \in Transitions : t[2] \in States
    BY DEF Transitions, States
  <2> QED
    BY <2>1
<1>4. rtt \in Nat /\ (tracked => rtt \in Rtts)
  BY NetworkAssumption
<1>5. tcp' \in [Keys -> States] /\ facts \subseteq facts'
  BY <1>1, <1>2, <1>3 DEF Backed, trace_inet_sock_set_state
<1>6. Baselines'
  <2>1. cfg' = cfg
    BY <1>2 DEF trace_inet_sock_set_state
  <2>2. CASE tracked
    BY <1>2, <1>4, <2>1, <2>2, TrackBaselines DEF trace_inet_sock_set_state
  <2>3. CASE ~tracked
    BY <1>2, <2>1, <2>3 DEF trace_inet_sock_set_state, Baselines, BaselineOK
  <2> QED
    BY <2>2, <2>3
<1>7. CASE cfg.enabled
  <2>1. bpf_ringbuf_submit(spikes \o changed)
    BY <1>2, <1>7 DEF trace_inet_sock_set_state
  <2>2. old \in States
    BY DEF Backed
  <2>3. change \in Addable
    <3>1. change \in Records
      BY <1>3, <2>2 DEF Records, Record, Types
    <3>2. /\ change.type = "STATE_CHANGE" /\ change.key = k
          /\ change.old = old /\ change.new = new
      BY DEF Record
    <3>3. old = "SYN_SENT" /\ new = "CLOSE" => <<"failed connect", k>> \in facts'
      BY <1>1
    <3> HIDE DEF change
    <3> QED
      BY <3>1, <3>2, <3>3 DEF Addable, BackedBy
  <2>4. ASSUME tracked, Spike(k, rtt) PROVE spike \in Addable
    <3>1. track_rtt(k, rtt)
      BY <1>2, <2>4 DEF trace_inet_sock_set_state
    <3>2. spike.key = k /\ spike.rtt = rtt
      BY DEF Record
    <3>3. Justified(spike)
      BY <1>4, <2>4, <3>1, <3>2, SpikeJustified
    <3>4. spike \in Records /\ spike.type = "RTT_SPIKE"
      BY <1>3, <1>4, <2>2 DEF Records, Record, Types
    <3> HIDE DEF spike
    <3> QED
      BY <3>3, <3>4 DEF Addable, BackedBy
  <2> HIDE DEF spike, change, tracked, old
  <2>5. spikes \in Seq(Addable) /\ changed \in Seq(Addable)
    BY <2>3, <2>4
  <2> HIDE DEF spikes, changed
  <2>6. spikes \o changed \in Seq(Addable)
    BY <2>5, ConcatProperties
  <2> QED
    BY <1>5, <1>6, <2>1, <2>6, RingGrows
<1>8. CASE ~cfg.enabled
  BY <1>2, <1>5, <1>6, <1>8, RingSame DEF trace_inet_sock_set_state, loopVars
<1> QED
  BY <1>7, <1>8

LEMMA TraceTcpRing ==
    ASSUME Baselines, Backed, NEW k \in Keys, NEW type \in {"RST_RECEIVED", "RETRANSMIT"},
           trace_tcp(k, type)
    PROVE  Backed' /\ AddedJustified /\ Baselines'
<1> DEFINE e == Record(type, k, tcp[k], tcp[k], 0)
<1>1. tcp' \in [Keys -> States] /\ facts \subseteq facts'
  BY DEF Backed, trace_tcp
<1>2. e \in Addable
  <2>1. e \in Records
    BY DEF Records, Record, Types, Backed
  <2>2. e.type = type /\ e.key = k
    BY DEF Record
  <2>3. <<type, k>> \in facts'
    BY DEF trace_tcp
  <2> HIDE DEF e
  <2> QED
    BY <2>1, <2>2, <2>3 DEF Addable, BackedBy
<1> HIDE DEF e
<1>3. <<e>> \in Seq(Addable)
  BY <1>2
<1>4. Baselines'
  BY DEF trace_tcp, Baselines, BaselineOK
<1>5. CASE cfg.enabled
  BY <1>1, <1>3, <1>4, <1>5, RingGrows DEF trace_tcp, e
<1>6. CASE ~cfg.enabled
  BY <1>1, <1>4, <1>6, RingSame DEF trace_tcp, loopVars
<1> QED
  BY <1>5, <1>6

-----------------------------------------------------------------------------
(* The specification.                                                      *)

\* Every step keeps both invariants and adds only spikes that are justified.
LEMMA NetworkStep ==
    ASSUME Baselines, Backed, [Next]_vars
    PROVE  Baselines' /\ Backed' /\ AddedJustified
<1>0. tcp \in [Keys -> States]
  BY DEF Backed
<1>1. CASE change_config
  <2>1. Baselines'
    BY <1>1 DEF change_config, Baselines, BaselineOK
  <2> QED
    BY <1>1, <2>1, <1>0, RingSame DEF change_config, loopVars
<1>2. CASE hour_passes
  <2>1. Baselines'
    BY <1>2 DEF hour_passes, Baselines, BaselineOK
  <2> QED
    BY <1>2, <2>1, <1>0, RingSame DEF hour_passes, loopVars
<1>3. ASSUME NEW k \in Keys, evict(k) PROVE Baselines' /\ Backed' /\ AddedJustified
  <2>1. Baselines'
    BY <1>3, OneKeyChanges DEF evict
  <2> QED
    BY <1>3, <2>1, <1>0, RingSame DEF evict, loopVars
<1>4. ASSUME NEW k \in Keys, set_state(k) PROVE Baselines' /\ Backed' /\ AddedJustified
  BY <1>4, SetStateRing
<1>5. ASSUME NEW k \in Keys, trace_tcp_receive_reset(k) \/ trace_tcp_retransmit_skb(k)
      PROVE  Baselines' /\ Backed' /\ AddedJustified
  BY <1>5, TraceTcpRing DEF trace_tcp_receive_reset, trace_tcp_retransmit_skb
<1>6. CASE drain
  <2>1. Baselines'
    BY <1>6 DEF drain, netVars, Baselines, BaselineOK
  <2> QED
    BY <1>6, <2>1, RingShrinks DEF drain, take_record, netVars, Backed
<1>7. CASE LoopStep /\ UNCHANGED <<netVars, emitted>>
  <2>1. Baselines'
    BY <1>7 DEF netVars, Baselines, BaselineOK
  <2>2. ring' = ring
    BY <1>7 DEF LoopStep, wake, drain_end, stop, signal_shutdown
  <2> QED
    BY <1>7, <2>1, <2>2, <1>0, RingSame DEF netVars
<1>8. CASE UNCHANGED vars
  <2>1. Baselines'
    BY <1>8 DEF vars, netVars, Baselines, BaselineOK
  <2> QED
    BY <1>8, <2>1, <1>0, RingSame DEF vars, netVars, loopVars
<1> QED
  BY <1>1, <1>2, <1>3, <1>4, <1>5, <1>6, <1>7, <1>8 DEF Next, KernelStep

\* Facts stay, and an occurrence is handed on only for a record that facts back.
LEMMA FactsStep ==
    ASSUME Backed, OccurrencesAreFacts, [Next]_vars
    PROVE  OccurrencesAreFacts'
<1>1. facts \subseteq facts'
  BY DEF Next, KernelStep, vars, netVars, change_config, hour_passes, evict, set_state,
         trace_tcp_receive_reset, trace_tcp_retransmit_skb, trace_tcp, drain
<1>2. CASE drain
  <2>1. Head(ring) \in BackedBy(facts) /\ emitted' = emitted \cup classify(Head(ring))
        /\ facts' = facts
    BY <1>2, HeadTailProperties DEF drain, take_record, netVars, Backed
  <2> DEFINE e == Head(ring)
  <2> HIDE DEF e
  <2>2. ASSUME NEW k \in Keys
        PROVE  /\ <<"connection_timeout", k>> \in classify(e) => <<"failed connect", k>> \in facts
               /\ <<"connection_refused", k>> \in classify(e) => <<"RST_RECEIVED", k>> \in facts
               /\ <<"retransmit_spike", k>> \in classify(e) => <<"RETRANSMIT", k>> \in facts
    <3>1. e \in BackedBy(facts)
      BY <2>1 DEF e
    <3> QED
      BY <3>1 DEF classify, BackedBy
  <2> QED
    BY <2>1, <2>2 DEF OccurrencesAreFacts, e
<1>3. CASE ~drain
  <2>1. emitted' = emitted
    BY <1>3 DEF Next, KernelStep, vars, netVars, change_config, hour_passes, evict, set_state,
           trace_inet_sock_set_state, trace_tcp_receive_reset, trace_tcp_retransmit_skb, trace_tcp
  <2> QED
    BY <1>1, <2>1 DEF OccurrencesAreFacts
<1> QED
  BY <1>2, <1>3

NetIInv == Baselines /\ Backed /\ OccurrencesAreFacts

\* The invariant of the network observer: baselines between their samples, records and
\* occurrences backed by what happened to connections.
THEOREM NetworkInductive == Spec => []NetIInv
<1>1. Init => NetIInv
  <2> SUFFICES ASSUME Init PROVE NetIInv
    OBVIOUS
  <2>1. Baselines
    BY DEF Init, Baselines, BaselineOK
  <2>2. Backed
    <3>1. tcp \in [Keys -> States]
      BY DEF Init, States
    <3>2. ring \in Seq(BackedBy(facts)) /\ Len(ring) = 0
      BY EmptySeq DEF Init, LoopInit
    <3> QED
      BY <3>1, <3>2, LoopAssumption DEF Backed
  <2>3. OccurrencesAreFacts
    BY DEF Init, OccurrencesAreFacts
  <2> QED
    BY <2>1, <2>2, <2>3 DEF NetIInv
<1>2. NetIInv /\ [Next]_vars => NetIInv'
  BY NetworkStep, FactsStep DEF NetIInv
<1> QED
  BY <1>1, <1>2, PTL DEF Spec

\* The integer mean of the RTT baseline neither overflows nor leaves its samples.
THEOREM BaselinesBetween == Spec => []BaselineBetweenSamples
<1>1. NetIInv => BaselineBetweenSamples
  BY DEF NetIInv, Baselines, BaselineOK, Between, BaselineBetweenSamples
<1> QED
  BY <1>1, NetworkInductive, PTL

\* Every occurrence of the network observer names something that happened.
THEOREM OccurrencesFactual == Spec => []OccurrencesAreFacts
<1>1. NetIInv => OccurrencesAreFacts
  BY DEF NetIInv
<1> QED
  BY <1>1, NetworkInductive, PTL

\* No step adds an RTT spike that neither the absolute threshold nor a multiple of an RTT
\* sampled on its key explains.
THEOREM SpikesJustified == Spec => SpikeIsJustified
<1> DEFINE A == \A i \in DOMAIN ring' :
                  i > Len(ring) /\ ring'[i].type = "RTT_SPIKE" =>
                      LET r == ring'[i].rtt
                          k == ring'[i].key IN
                      \/ cfg.abs_us > 0 /\ r > cfg.abs_us
                      \/ /\ cfg.ratio > 0
                         /\ \E sample \in learnt'[k] : r > sample * cfg.ratio
<1>1. NetIInv /\ [Next]_vars => [A]_vars
  <2>1. NetIInv /\ [Next]_vars => AddedJustified
    BY NetworkStep DEF NetIInv
  <2>2. AddedJustified => A
    BY DEF AddedJustified, Justified
  <2> QED
    BY <2>1, <2>2
<1> QED
  BY <1>1, NetworkInductive, PTL DEF Spec, SpikeIsJustified

=============================================================================
