--------------------------- MODULE AdcTaskProofs ----------------------------
(***************************************************************************)
(* What TLAPS proves of the acquisition task, for every packet size, ring, *)
(* input and timing that the assumptions of AdcTask allow.                 *)
(***************************************************************************)
EXTENDS AdcTask, ModArith, SequenceTheorems, TLAPS

-----------------------------------------------------------------------------
(* Lemmas about the packet.                                                *)

\* A new packet is empty, and is a packet.
LEMMA NewPacketType ==
    /\ IsPacket(NewPacket)
    /\ Len(NewPacket.samples) = 0
    /\ NewPacket.seq = 0
  BY AdcAssumption, PacketSizeAssumption DEF IsPacket, NewPacket

\* Packet q is pkt with at most one more sample, of channel ch, behind those
\* that it has: none if mv is filtered out or pkt is full.
Extends(pkt, q, ch, mv) ==
    /\ IsPacket(q)
    /\ q.seq = pkt.seq
    /\ \A i \in 1..Len(pkt.samples) : q.samples[i] = pkt.samples[i]
    /\ \/ /\ Len(q.samples) = Len(pkt.samples)
          /\ IsNan(mv) \/ Len(pkt.samples) = SAMPLES_PER_PACKET
       \/ /\ ~IsNan(mv)
          /\ Len(q.samples) = Len(pkt.samples) + 1
          /\ q.samples[Len(pkt.samples) + 1].channel = ch

LEMMA MvMaxType == MvMax \in Nat
  BY SMT DEF MvMax

\* That is what pushing one channel's value does.
LEMMA PushValueExtends ==
    ASSUME NEW pkt, IsPacket(pkt), NEW ch \in Channels,
           NEW ts \in 0..TimeRange-1, NEW mv \in Nat
    PROVE  Extends(pkt, PushValue(pkt, ch, ts, mv), ch, mv)
<1> DEFINE smp == [channel |-> ch, timestamp_us |-> ts, value |-> mv]
<1>1. CASE IsNan(mv)
  BY <1>1 DEF PushValue, Extends
<1>2. CASE ~IsNan(mv) /\ Len(pkt.samples) = SAMPLES_PER_PACKET
  <2>1. PushValue(pkt, ch, ts, mv) = pkt
    BY <1>2 DEF PushValue, Push
  <2> QED  BY <1>2, <2>1, PacketSizeAssumption DEF Extends
<1>3. CASE ~IsNan(mv) /\ Len(pkt.samples) < SAMPLES_PER_PACKET
  <2>1. smp \in Sample /\ smp.channel = ch
    <3>1. mv # 0 /\ ~(mv > MvMax)
      BY <1>3 DEF IsNan
    <3>2. mv \in 1..MvMax
      BY <3>1, MvMaxType
    <3> QED  BY <3>2 DEF Sample
  <2>2. PushValue(pkt, ch, ts, mv)
          = [seq |-> pkt.seq, samples |-> Append(pkt.samples, smp)]
    BY <1>3 DEF PushValue, Push, IsPacket
  <2> HIDE DEF smp
  <2>3. /\ Append(pkt.samples, smp) \in Seq(Sample)
        /\ Len(Append(pkt.samples, smp)) = Len(pkt.samples) + 1
        /\ \A i \in 1..Len(pkt.samples) :
               Append(pkt.samples, smp)[i] = pkt.samples[i]
        /\ Append(pkt.samples, smp)[Len(pkt.samples) + 1] = smp
    BY <2>1 DEF IsPacket
  <2>4. IsPacket(PushValue(pkt, ch, ts, mv))
    BY <1>3, <2>2, <2>3, PacketSizeAssumption DEF IsPacket
  <2> QED  BY <1>3, <2>1, <2>2, <2>3, <2>4 DEF Extends
<1> QED  BY <1>1, <1>2, <1>3, PacketSizeAssumption DEF IsPacket

\* A quotient by T is natural, and bounded as the dividend is by multiples of T.
LEMMA QuotientBound ==
    ASSUME NEW T \in Nat \ {0}, NEW a \in Nat, NEW b \in Nat
    PROVE  /\ a \div T \in Nat
           /\ a <= T * b => a \div T <= b
<1> DEFINE q == a \div T
           r == a % T
<1>1. q \in Int /\ r \in 0..T-1 /\ a = T * q + r
  BY DivMod
<1> HIDE DEF q, r
<1>2. q >= 0
  <2>1. SUFFICES ASSUME 0 - q >= 1  PROVE FALSE
    BY <1>1
  <2>2. T * (0 - q) >= T /\ T * (0 - q) = T * 0 - T * q /\ T * 0 = 0 /\ T * q \in Int
    BY <1>1, <2>1, MulMono, MulDistributes
  <2> QED  BY <1>1, <2>2
<1>3. ASSUME a <= T * b  PROVE q <= b
  <2>1. SUFFICES ASSUME q - b >= 1  PROVE FALSE
    BY <1>1
  <2>2. /\ T * (q - b) >= T /\ T * (q - b) = T * q - T * b
        /\ T * q \in Int /\ T * b \in Int
    BY <1>1, <2>1, MulMono, MulDistributes
  <2> QED  BY <1>1, <1>3, <2>2
<1> QED  BY <1>1, <1>2, <1>3 DEF q

Odd(n) == n % 2 = 1

\* The two channels' shares of a read of n samples, and half its count.
LEMMA Shares ==
    ASSUME NEW n \in Nat, n >= 2
    PROVE  /\ n \div 2 \in Nat \ {0}
           /\ n - n \div 2 \in Nat
           /\ n - n \div 2 <= 2 * (n \div 2)
           /\ Odd(n) \/ n - n \div 2 = n \div 2
  BY SMT DEF Odd

\* The mean of k samples that read c each: c, or at most twice that if the
\* count they are divided by is too small.
LEMMA MeanBound ==
    ASSUME NEW c \in Nat, NEW k \in Nat, NEW n \in Nat, n >= 2
    PROVE  /\ MeanOf(c, k, n) \in Nat
           /\ k = n \div 2 => MeanOf(c, k, n) <= c
           /\ k <= 2 * (n \div 2) => MeanOf(c, k, n) <= 2 * c
<1> DEFINE h == n \div 2
<1>1. h \in Nat \ {0} /\ c * k \in Nat /\ 2 * c \in Nat
  BY Shares
<1> HIDE DEF h
<1>2. (c * k) \div h \in Nat
  BY <1>1, QuotientBound
<1>3. ASSUME k = h  PROVE (c * k) \div h <= c
  <2>1. c * k <= h * c
    BY <1>1, <1>3, SMTT(30)
  <2> QED  BY <1>1, <2>1, QuotientBound
<1>4. ASSUME k <= 2 * h  PROVE (c * k) \div h <= 2 * c
  <2>1. c * k <= h * (2 * c)
    BY <1>1, <1>4, SMTT(30)
  <2> QED  BY <1>1, <2>1, QuotientBound
<1> QED  BY <1>2, <1>3, <1>4 DEF MeanOf, h

\* Millivolts of counts up to full scale, and up to twice that.
LEMMA CountsToMvBound ==
    ASSUME NEW c \in Nat
    PROVE  /\ CountsToMv(c) \in Nat
           /\ c <= AdcFullScale => CountsToMv(c) <= 3300
           /\ c <= 2 * AdcFullScale => CountsToMv(c) <= 2 * 3300
  BY SMT DEF CountsToMv, AdcFullScale

\* What a read of two samples or more makes of the sampler.
LEMMA UpdateAnalogFacts ==
    ASSUME NEW s \in [pa0_mv : Nat, pa1_mv : Nat], NEW n \in Nat, n >= 2,
           NEW c0 \in Means, NEW c1 \in Means
    PROVE  LET u == UpdateAnalog(s, n, c0, c1) IN
           /\ u \in [pa0_mv : Nat, pa1_mv : Nat]
           /\ u.pa1_mv <= 3300
           /\ u.pa0_mv <= 2 * 3300
           /\ u.pa0_mv <= 3300 \/ Odd(n)
<1> DEFINE m0 == MeanOf(c0, n - n \div 2, n)
           m1 == MeanOf(c1, n \div 2, n)
<1>1. /\ c0 \in Nat /\ c0 <= AdcFullScale /\ c1 \in Nat /\ c1 <= AdcFullScale
      /\ AdcFullScale \in Nat
  BY AdcAssumption DEF AdcFullScale
<1>2. m0 \in Nat /\ m0 <= 2 * c0 /\ (Odd(n) \/ m0 <= c0)
  BY <1>1, Shares, MeanBound
<1>3. m1 \in Nat /\ m1 <= c1
  BY <1>1, Shares, MeanBound
<1> HIDE DEF m0, m1
<1>4. /\ CountsToMv(m0) \in Nat /\ CountsToMv(m0) <= 2 * 3300
      /\ CountsToMv(m0) <= 3300 \/ Odd(n)
      /\ CountsToMv(m1) \in Nat /\ CountsToMv(m1) <= 3300
  <2>1. m0 <= 2 * AdcFullScale /\ m1 <= AdcFullScale
    BY <1>1, <1>2, <1>3
  <2>2. Odd(n) \/ m0 <= AdcFullScale
    BY <1>1, <1>2
  <2> QED  BY <1>2, <1>3, <2>1, <2>2, CountsToMvBound
<1>5. UpdateAnalog(s, n, c0, c1) = [pa0_mv |-> CountsToMv(m0), pa1_mv |-> CountsToMv(m1)]
  BY DEF UpdateAnalog, m0, m1
<1> QED  BY <1>4, <1>5

\* Types of the data path's scalars.
LEMMA DataPathType ==
    /\ NewSampler \in [pa0_mv : Nat, pa1_mv : Nat]
    /\ \A s \in [pa0_mv : Nat, pa1_mv : Nat], n \in Nat, c0, c1 \in Means :
           UpdateAnalog(s, n, c0, c1) \in [pa0_mv : Nat, pa1_mv : Nat]
    /\ \A s : ValidValues(s) \in 0..2
<1>1. ASSUME NEW s \in [pa0_mv : Nat, pa1_mv : Nat], NEW n \in Nat,
             NEW c0 \in Means, NEW c1 \in Means
      PROVE  UpdateAnalog(s, n, c0, c1) \in [pa0_mv : Nat, pa1_mv : Nat]
  <2>1. CASE n < 2
    BY <2>1 DEF UpdateAnalog
  <2>2. CASE n >= 2
    BY <2>2, UpdateAnalogFacts
  <2> QED  BY <2>1, <2>2
<1> QED  BY <1>1 DEF NewSampler, ValidValues

\* A reading adds its valid values, as far as they fit, behind what is in the
\* packet.
LEMMA PushReadingFacts ==
    ASSUME NEW pkt, IsPacket(pkt), NEW ts \in 0..TimeRange-1,
           NEW s \in [pa0_mv : Nat, pa1_mv : Nat]
    PROVE  LET p == PushReading(pkt, ts, s)
               n == Len(pkt.samples) IN
           /\ IsPacket(p)
           /\ p.seq = pkt.seq
           /\ n <= Len(p.samples)
           /\ \A i \in 1..n : p.samples[i] = pkt.samples[i]
           /\ n + ValidValues(s) <= SAMPLES_PER_PACKET
                  => Len(p.samples) = n + ValidValues(s)
           /\ n + ValidValues(s) > SAMPLES_PER_PACKET
                  => Len(p.samples) = SAMPLES_PER_PACKET
           /\ n < SAMPLES_PER_PACKET /\ n + ValidValues(s) > SAMPLES_PER_PACKET
                  => /\ n + 1 = SAMPLES_PER_PACKET
                     /\ ValidValues(s) = 2
                     /\ p.samples[SAMPLES_PER_PACKET].channel = "Analog0"
<1> DEFINE q == PushValue(pkt, "Analog0", ts, s.pa0_mv)
           p == PushValue(q, "Analog1", ts, s.pa1_mv)
<1>1. /\ s.pa0_mv \in Nat /\ "Analog0" \in Channels
      /\ s.pa1_mv \in Nat /\ "Analog1" \in Channels
  BY DEF Channels
<1>2. Extends(pkt, q, "Analog0", s.pa0_mv) /\ IsPacket(q)
  <2>1. Extends(pkt, q, "Analog0", s.pa0_mv)
    BY <1>1, PushValueExtends
  <2> QED  BY <2>1 DEF Extends
<1> HIDE DEF q
<1>3. Extends(q, p, "Analog1", s.pa1_mv) /\ IsPacket(p)
  <2>1. Extends(q, p, "Analog1", s.pa1_mv)
    BY <1>1, <1>2, PushValueExtends
  <2> QED  BY <2>1 DEF Extends
<1> HIDE DEF p
<1>4. /\ Len(pkt.samples) \in 0..SAMPLES_PER_PACKET
      /\ Len(q.samples) \in 0..SAMPLES_PER_PACKET
      /\ Len(p.samples) \in 0..SAMPLES_PER_PACKET
      /\ Len(pkt.samples) <= Len(q.samples)
  BY <1>2, <1>3, PacketSizeAssumption DEF IsPacket, Extends
<1>5. PushReading(pkt, ts, s) = p
  BY DEF PushReading, p, q
<1>6. \A i \in 1..Len(pkt.samples) : p.samples[i] = pkt.samples[i]
  BY <1>2, <1>3, <1>4, PacketSizeAssumption, SMTT(30) DEF Extends
<1> DEFINE v0 == IF IsNan(s.pa0_mv) THEN 0 ELSE 1
           v1 == IF IsNan(s.pa1_mv) THEN 0 ELSE 1
<1>7. /\ v0 \in 0..1
      /\ \/ Len(q.samples) = Len(pkt.samples) + v0
         \/ /\ Len(q.samples) = Len(pkt.samples)
            /\ Len(pkt.samples) = SAMPLES_PER_PACKET
  <2>1. CASE IsNan(s.pa0_mv)
    BY <2>1, <1>2, <1>4 DEF Extends
  <2>2. CASE ~IsNan(s.pa0_mv)
    BY <2>2, <1>2, <1>4 DEF Extends
  <2> QED  BY <2>1, <2>2
<1>8. /\ v1 \in 0..1
      /\ \/ Len(p.samples) = Len(q.samples) + v1
         \/ /\ Len(p.samples) = Len(q.samples)
            /\ Len(q.samples) = SAMPLES_PER_PACKET
  <2>1. CASE IsNan(s.pa1_mv)
    BY <2>1, <1>3, <1>4 DEF Extends
  <2>2. CASE ~IsNan(s.pa1_mv)
    BY <2>2, <1>3, <1>4 DEF Extends
  <2> QED  BY <2>1, <2>2
<1>9. ValidValues(s) = v0 + v1
  BY DEF ValidValues
<1>10. p.seq = pkt.seq
  BY <1>2, <1>3 DEF Extends
<1> HIDE DEF v0, v1
<1> DEFINE n == Len(pkt.samples)
           m == Len(q.samples)
           k == Len(p.samples)
           v == ValidValues(s)
<1>11. /\ n <= k
       /\ n + v <= SAMPLES_PER_PACKET => k = n + v
       /\ n + v > SAMPLES_PER_PACKET => k = SAMPLES_PER_PACKET
  <2>1. /\ n \in 0..SAMPLES_PER_PACKET /\ m \in 0..SAMPLES_PER_PACKET
        /\ k \in 0..SAMPLES_PER_PACKET
        /\ (m = n + v0) \/ (m = n /\ n = SAMPLES_PER_PACKET)
        /\ (k = m + v1) \/ (k = m /\ m = SAMPLES_PER_PACKET)
        /\ v = v0 + v1 /\ v0 \in 0..1 /\ v1 \in 0..1
    BY <1>4, <1>7, <1>8, <1>9
  <2> HIDE DEF n, m, k, v
  <2> QED  BY <2>1, PacketSizeAssumption
<1>12. n < SAMPLES_PER_PACKET /\ n + v > SAMPLES_PER_PACKET
         => /\ n + 1 = SAMPLES_PER_PACKET
            /\ v = 2
            /\ p.samples[SAMPLES_PER_PACKET].channel = "Analog0"
  <2>1. ASSUME n < SAMPLES_PER_PACKET, n + v > SAMPLES_PER_PACKET
        PROVE  /\ n + 1 = SAMPLES_PER_PACKET
               /\ v = 2 /\ v0 = 1 /\ v1 = 1
               /\ m = SAMPLES_PER_PACKET
    <3>1. /\ n \in 0..SAMPLES_PER_PACKET /\ v = v0 + v1
          /\ v0 \in 0..1 /\ v1 \in 0..1
          /\ (m = n + v0) \/ (m = n /\ n = SAMPLES_PER_PACKET)
      BY <1>4, <1>7, <1>8, <1>9
    <3> HIDE DEF n, m, v
    <3> QED  BY <2>1, <3>1, PacketSizeAssumption
  <2>2. m # n => q.samples[n + 1].channel = "Analog0"
    BY <1>2 DEF Extends
  <2>3. m = SAMPLES_PER_PACKET =>
          p.samples[SAMPLES_PER_PACKET] = q.samples[SAMPLES_PER_PACKET]
    BY <1>3, PacketSizeAssumption DEF Extends
  <2> QED  BY <2>1, <2>2, <2>3
<1> QED  BY <1>3, <1>5, <1>6, <1>10, <1>11, <1>12

-----------------------------------------------------------------------------
(* Type correctness.                                                       *)

\* Besides the types: only a packet being written is full, it carries the
\* current sequence number, and nothing was dropped from one being filled.
PacketShape ==
    /\ pc = "read" => Len(packet.samples) < SAMPLES_PER_PACKET /\ dropped = 0
    /\ pc = "write" => Len(packet.samples) = SAMPLES_PER_PACKET
                       /\ packet.seq = seq

TypeInv == TypeOK /\ PacketShape

\* Both counters stay in their ranges as they wrap.
LEMMA Wrapping ==
    /\ \A x \in Int : x % SeqRange \in 0..SeqRange-1
    /\ \A x \in Int : x % TimeRange \in 0..TimeRange-1
  BY DivMod, AdcAssumption

\* What a read does to the packet, in each of its three outcomes.
LEMMA ProcessFacts ==
    ASSUME TypeInv, NEW n \in ReadLens, NEW c0 \in Means, NEW c1 \in Means,
           Process(n, c0, c1)
    PROVE  LET p == PushReading(packet, last_timestamp, sampler')
               v == ValidValues(sampler') IN
           /\ pc = "read"
           /\ n > 0
           /\ count' \in 1..MeasLen
           /\ sampler' \in [pa0_mv : Nat, pa1_mv : Nat]
           /\ v \in 0..2
           /\ IsPacket(p)
           /\ p.seq = packet.seq
           /\ Len(packet.samples) \in 0..SAMPLES_PER_PACKET-1
           /\ Len(p.samples) \in Len(packet.samples)..SAMPLES_PER_PACKET
           /\ \A i \in 1..Len(packet.samples) : p.samples[i] = packet.samples[i]
           /\ Len(packet.samples) + v <= SAMPLES_PER_PACKET
                  => Len(p.samples) = Len(packet.samples) + v
           /\ Len(packet.samples) + v > SAMPLES_PER_PACKET
                  => /\ Len(p.samples) = SAMPLES_PER_PACKET
                     /\ Len(packet.samples) + 1 = SAMPLES_PER_PACKET
                     /\ v = 2
                     /\ p.samples[SAMPLES_PER_PACKET].channel = "Analog0"
<1> DEFINE p == PushReading(packet, last_timestamp, sampler')
           v == ValidValues(sampler')
<1>1. /\ pc = "read" /\ n > 0
      /\ count' = IF n < MeasLen THEN n ELSE MeasLen
      /\ sampler' = UpdateAnalog(sampler, count', c0, c1)
  BY DEF Process, TakeFromRing, Readable
<1>2. count' \in 1..MeasLen
  BY <1>1, AdcAssumption
<1>3. sampler' \in [pa0_mv : Nat, pa1_mv : Nat]
  BY <1>1, <1>2, DataPathType, AdcAssumption DEF TypeInv, TypeOK
<1>4. v \in 0..2
  BY DataPathType
<1>5. /\ IsPacket(packet) /\ last_timestamp \in 0..TimeRange-1
      /\ Len(packet.samples) \in 0..SAMPLES_PER_PACKET-1
  BY <1>1, PacketSizeAssumption DEF TypeInv, TypeOK, PacketShape, IsPacket
<1>6. /\ IsPacket(p)
      /\ p.seq = packet.seq
      /\ Len(packet.samples) <= Len(p.samples)
      /\ \A i \in 1..Len(packet.samples) : p.samples[i] = packet.samples[i]
      /\ Len(packet.samples) + v <= SAMPLES_PER_PACKET
             => Len(p.samples) = Len(packet.samples) + v
      /\ Len(packet.samples) + v > SAMPLES_PER_PACKET
             => /\ Len(p.samples) = SAMPLES_PER_PACKET
                /\ Len(packet.samples) + 1 = SAMPLES_PER_PACKET
                /\ v = 2
                /\ p.samples[SAMPLES_PER_PACKET].channel = "Analog0"
  BY <1>3, <1>5, PushReadingFacts
<1>7. Len(p.samples) \in Len(packet.samples)..SAMPLES_PER_PACKET
  BY <1>5, <1>6, PacketSizeAssumption DEF IsPacket
<1> HIDE DEF p, v
<1> QED  BY <1>1, <1>2, <1>3, <1>4, <1>5, <1>6, <1>7 DEF p, v

\* The initial state has the types.
LEMMA TypeInit == Init => TypeInv
<1> SUFFICES ASSUME Init  PROVE TypeInv
  OBVIOUS
<1> USE AdcAssumption, PacketSizeAssumption
<1>1. IsPacket(packet) /\ Len(packet.samples) < SAMPLES_PER_PACKET
  BY NewPacketType DEF Init
<1>2. sampler \in [pa0_mv : Nat, pa1_mv : Nat]
  BY DataPathType DEF Init
<1>3. solo \in BOOLEAN
  BY DEF Init
<1>4. Init => /\ pc = "read" /\ seq = 0 /\ last_timestamp = 0 /\ count = 0
              /\ unread = 0 /\ age = 0 /\ wire = NoPacket /\ captured_us = 0
              /\ behind_us = 0 /\ gap = 0 /\ dropped = 0
  BY DEF Init
<1> QED  BY <1>1, <1>2, <1>3, <1>4 DEF TypeInv, TypeOK, PacketShape

\* The end of a packet, which WriteDone and the disabled transport share.
LEMMA NextPacketType ==
    ASSUME TypeInv, NextPacket
    PROVE  /\ IsPacket(packet')
           /\ Len(packet'.samples) < SAMPLES_PER_PACKET
           /\ seq' \in 0..SeqRange-1
           /\ solo' \in BOOLEAN /\ dropped' = 0
<1>1. seq + 1 \in Int
  BY AdcAssumption DEF TypeInv, TypeOK
<1>2. seq' \in 0..SeqRange-1
  BY <1>1, Wrapping DEF NextPacket
<1>3. solo' \in BOOLEAN
  BY DEF NextPacket
<1> QED  BY <1>2, <1>3, NewPacketType, PacketSizeAssumption DEF NextPacket

\* A full packet that did not reach the wire.
LEMMA NotOnWireType ==
    ASSUME TypeInv, NotOnWire
    PROVE  gap' \in 0..SeqRange-1 /\ wire' = wire
<1>1. gap + 1 \in Int
  BY AdcAssumption DEF TypeInv, TypeOK
<1> QED  BY <1>1, Wrapping DEF NotOnWire

\* Advancing the clock.
LEMMA AdvanceType ==
    ASSUME TypeInv, NEW n \in Nat, Advance(n)
    PROVE  last_timestamp' \in 0..TimeRange-1
<1>1. last_timestamp + n * UsPerSample \in Int
  BY AdcAssumption DEF TypeInv, TypeOK, UsPerSample
<1> QED  BY <1>1, Wrapping DEF Advance

\* The time lost to samples that no read reports.
LEMMA LoseTimeType ==
    ASSUME TypeInv, NEW k \in Nat, LoseTime(k)
    PROVE  behind_us' \in 0..TimeRange-1
<1>1. behind_us + k * UsPerSample \in Int
  BY AdcAssumption DEF TypeInv, TypeOK, UsPerSample
<1> QED  BY <1>1, Wrapping DEF LoseTime

\* Every step preserves the types.
LEMMA TypeStep == TypeInv /\ [Next]_vars => TypeInv'
<1> SUFFICES ASSUME TypeInv, [Next]_vars  PROVE TypeInv'
  OBVIOUS
<1> USE AdcAssumption, PacketSizeAssumption
<1>1. CASE Tick
  <2>1. captured_us' \in 0..TimeRange-1
    <3>1. captured_us + UsPerSample \in Int
      BY DEF TypeInv, TypeOK, UsPerSample
    <3> QED  BY <1>1, <3>1, Wrapping DEF Tick
  <2>2. unread' \in 0..RingLen+1
    BY <1>1 DEF Tick, TypeInv, TypeOK, Lapped
  <2>3. age' \in 0..WriteTicks+PollTicks
    BY <1>1 DEF Tick, TypeInv, TypeOK, Readable, Deadline
  <2>4. behind_us' \in 0..TimeRange-1
    <3>1. (IF Lapped THEN 1 ELSE 0) \in Nat
      OBVIOUS
    <3> QED  BY <1>1, <3>1, LoseTimeType DEF Tick
  <2> QED  BY <1>1, <2>1, <2>2, <2>3, <2>4
           DEF Tick, TypeInv, TypeOK, PacketShape, taskVars, histVars
<1>2. CASE ReadErr
  <2>1. behind_us' \in 0..TimeRange-1
    <3>1. unread \in Nat
      BY DEF TypeInv, TypeOK
    <3> QED  BY <1>2, <3>1, LoseTimeType DEF ReadErr
  <2> QED  BY <1>2, <2>1
           DEF ReadErr, TypeInv, TypeOK, PacketShape, taskVars, histVars
<1>3. CASE ReadZero
  <2>1. behind_us' \in 0..TimeRange-1
    <3>1. MeasLen - 0 \in Nat
      OBVIOUS
    <3> QED  BY <1>3, <3>1, LoseTimeType DEF ReadZero, TakeFromRing
  <2> QED  BY <1>3, <2>1
           DEF ReadZero, TakeFromRing, Readable, Lapped, TypeInv, TypeOK,
               PacketShape, taskVars, histVars
<1>4. ASSUME NEW n \in ReadLens, NEW c0 \in Means, NEW c1 \in Means,
             Process(n, c0, c1)
      PROVE  TypeInv'
  <2> DEFINE p == PushReading(packet, last_timestamp, sampler')
             v == ValidValues(sampler')
  <2>1. /\ pc = "read"
        /\ count' \in 1..MeasLen
        /\ sampler' \in [pa0_mv : Nat, pa1_mv : Nat]
        /\ v \in 0..2
        /\ IsPacket(p)
        /\ p.seq = packet.seq
        /\ Len(packet.samples) \in 0..SAMPLES_PER_PACKET-1
        /\ Len(p.samples) \in Len(packet.samples)..SAMPLES_PER_PACKET
        /\ Len(packet.samples) + v <= SAMPLES_PER_PACKET
               => Len(p.samples) = Len(packet.samples) + v
        /\ Len(packet.samples) + v > SAMPLES_PER_PACKET
               => Len(p.samples) = SAMPLES_PER_PACKET
    BY <1>4, ProcessFacts
  <2>2. \/ /\ ~IsFull(p)
           /\ packet' = p
           /\ Advance(count')
           /\ NoteReading(p)
           /\ UNCHANGED <<pc, seq, wire, gap>>
        \/ /\ IsFull(p) /\ StreamEnabled
           /\ packet' = Finalize(p, seq)
           /\ pc' = "write"
           /\ NoteReading(p)
           /\ UNCHANGED <<seq, last_timestamp, wire, gap>>
        \/ /\ IsFull(p) /\ ~StreamEnabled
           /\ Advance(count')
           /\ NextPacket
           /\ NotOnWire
           /\ UNCHANGED pc
    BY <1>4 DEF Process
  <2> HIDE DEF p, v
  <2>3. /\ unread' \in 0..RingLen+1
        /\ age' = 0
        /\ captured_us' = captured_us
        /\ behind_us' \in 0..TimeRange-1
    <3>1. MeasLen - count' \in Nat
      BY <2>1
    <3>2. TakeFromRing(count')
      BY <1>4 DEF Process
    <3>3. behind_us' \in 0..TimeRange-1
      BY <3>1, <3>2, LoseTimeType DEF TakeFromRing
    <3> QED  BY <3>2, <3>3 DEF TakeFromRing, Readable, Lapped, TypeInv, TypeOK
  <2>4. NoteReading(p) => /\ solo' \in BOOLEAN
                          /\ dropped' \in 0..2
                          /\ dropped' = 0 \/ Len(p.samples) = SAMPLES_PER_PACKET
    <3>1. NoteReading(p) =>
             /\ solo' = (solo \/ v = 1)
             /\ dropped' = dropped + v - (Len(p.samples) - Len(packet.samples))
      BY Zenon DEF NoteReading, v
    <3> QED  BY <3>1, <2>1, SMTT(30) DEF TypeInv, TypeOK, PacketShape
  <2>5. CASE /\ ~IsFull(p)
             /\ packet' = p
             /\ Advance(count')
             /\ NoteReading(p)
             /\ UNCHANGED <<pc, seq, wire, gap>>
    <3>1. last_timestamp' \in 0..TimeRange-1
      BY <2>1, <2>5, AdvanceType
    <3>2. Len(p.samples) < SAMPLES_PER_PACKET
      BY <2>1, <2>5 DEF IsFull
    <3> QED  BY <2>1, <2>3, <2>4, <2>5, <3>1, <3>2
             DEF TypeInv, TypeOK, PacketShape
  <2>6. CASE /\ IsFull(p) /\ StreamEnabled
             /\ packet' = Finalize(p, seq)
             /\ pc' = "write"
             /\ NoteReading(p)
             /\ UNCHANGED <<seq, last_timestamp, wire, gap>>
    <3>1. packet' = [seq |-> seq, samples |-> p.samples]
      BY <2>1, <2>6 DEF Finalize, IsPacket
    <3>2. /\ packet'.seq = seq /\ packet'.samples = p.samples
          /\ Len(packet'.samples) = SAMPLES_PER_PACKET
      BY <2>1, <2>6, <3>1 DEF IsFull
    <3>3. IsPacket([seq |-> seq, samples |-> p.samples])
      BY <2>1 DEF IsPacket, TypeInv, TypeOK
    <3>4. IsPacket(packet')
      BY <3>1, <3>3
    <3> QED  BY <2>1, <2>3, <2>4, <2>6, <3>2, <3>4 DEF TypeInv, TypeOK, PacketShape
  <2>7. CASE /\ IsFull(p) /\ ~StreamEnabled
             /\ Advance(count')
             /\ NextPacket
             /\ NotOnWire
             /\ UNCHANGED pc
    <3>1. last_timestamp' \in 0..TimeRange-1
      BY <2>1, <2>7, AdvanceType
    <3>2. /\ IsPacket(packet')
          /\ Len(packet'.samples) < SAMPLES_PER_PACKET
          /\ seq' \in 0..SeqRange-1
          /\ solo' \in BOOLEAN /\ dropped' = 0
      BY <2>7, NextPacketType
    <3>3. gap' \in 0..SeqRange-1 /\ wire' = wire
      BY <2>7, NotOnWireType
    <3> QED  BY <2>1, <2>3, <2>7, <3>1, <3>2, <3>3
             DEF TypeInv, TypeOK, PacketShape
  <2> QED  BY <2>2, <2>5, <2>6, <2>7
<1>5. ASSUME NEW ok \in BOOLEAN, WriteDone(ok)
      PROVE  TypeInv'
  <2>1. /\ pc' = "read" /\ age' = 0
        /\ NextPacket
        /\ UNCHANGED <<sampler, count, unread, captured_us, behind_us>>
    BY <1>5 DEF WriteDone
  <2>2. last_timestamp' \in 0..TimeRange-1
    <3>1. count \in Nat
      BY DEF TypeInv, TypeOK
    <3> QED  BY <1>5, <3>1, AdvanceType DEF WriteDone
  <2>3. /\ gap' \in 0..SeqRange-1
        /\ wire' = NoPacket \/ IsPacket(wire')
    BY <1>5, NotOnWireType DEF WriteDone, TypeInv, TypeOK
  <2>4. /\ IsPacket(packet')
        /\ Len(packet'.samples) < SAMPLES_PER_PACKET
        /\ seq' \in 0..SeqRange-1
        /\ solo' \in BOOLEAN /\ dropped' = 0
    BY <2>1, NextPacketType
  <2> QED  BY <2>1, <2>2, <2>3, <2>4 DEF TypeInv, TypeOK, PacketShape
<1>6. CASE UNCHANGED vars
  BY <1>6 DEF vars, taskVars, dmaVars, histVars, TypeInv, TypeOK, PacketShape
<1> QED  BY <1>1, <1>2, <1>3, <1>4, <1>5, <1>6 DEF Next, TaskStep

\* In every reachable state the task's variables have their types: the packet
\* never holds more samples than it has room for, and every sample in it is
\* one the filter isnan lets through.
THEOREM TypeCorrect == Spec => []TypeOK
<1>1. Spec => []TypeInv
  BY TypeInit, TypeStep, PTL DEF Spec
<1>2. TypeInv => TypeOK
  BY DEF TypeInv
<1> QED  BY <1>1, <1>2, PTL

-----------------------------------------------------------------------------
(* No overrun: the DMA never laps the task.                                *)

\* How far the DMA can be ahead: while the task waits for samples, half the
\* ring and what came in since it was woken; while the packet is written,
\* what came in during the task's last wait and since the write began.
Backlog ==
    /\ pc = "read" => age <= PollTicks /\ unread <= MeasLen + age
    /\ pc = "write" => unread <= PollTicks + age

\* The backlog's bounds carry over every step, when the timing fits.
LEMMA BacklogStep ==
    TimingOK /\ TypeInv /\ Backlog /\ [Next]_vars => Backlog'
<1> SUFFICES ASSUME TimingOK, TypeInv, Backlog, [Next]_vars  PROVE Backlog'
  OBVIOUS
<1> USE AdcAssumption
<1>1. CASE Tick
  BY <1>1 DEF Tick, taskVars, Readable, Deadline, Lapped, Backlog, TypeInv,
              TypeOK, TimingOK
<1>2. CASE ReadErr
  BY <1>2 DEF ReadErr, Readable, taskVars, Backlog
<1>3. CASE ReadZero
  BY <1>3 DEF ReadZero, TakeFromRing, Readable, taskVars, Backlog, TypeInv,
              TypeOK, TimingOK
<1>4. ASSUME NEW n \in ReadLens, NEW c0 \in Means, NEW c1 \in Means,
             Process(n, c0, c1)
      PROVE  Backlog'
  <2>1. TakeFromRing(count') /\ pc' \in {"read", "write"}
    BY <1>4 DEF Process, TypeInv, TypeOK
  <2>2. unread' <= PollTicks /\ age' = 0 /\ unread' \in Int
    BY <2>1 DEF TakeFromRing, Readable, Backlog, TypeInv, TypeOK
  <2> QED  BY <2>1, <2>2 DEF Backlog, TimingOK
<1>5. ASSUME NEW ok \in BOOLEAN, WriteDone(ok)
      PROVE  Backlog'
  BY <1>5 DEF WriteDone, Backlog, TypeInv, TypeOK, TimingOK
<1>6. CASE UNCHANGED vars
  BY <1>6 DEF vars, taskVars, dmaVars, Backlog
<1> QED  BY <1>1, <1>2, <1>3, <1>4, <1>5, <1>6 DEF Next, TaskStep

\* Those bounds keep the DMA within the ring.
LEMMA BacklogFits == TimingOK /\ TypeInv /\ Backlog => NoOverrun
  BY AdcAssumption DEF TimingOK, TypeInv, TypeOK, Backlog, NoOverrun, Lapped

\* When a packet's write and the executor's delays fit into half the ring,
\* adc_task never sees an overrun, although it does not read the ring while
\* it awaits the UART.
THEOREM RingNeverOverruns == TimingOK => (Spec => []NoOverrun)
<1> SUFFICES ASSUME TimingOK  PROVE Spec => []NoOverrun
  OBVIOUS
<1>1. Init => TypeInv /\ Backlog
  BY TypeInit, AdcAssumption DEF Init, Backlog
<1>2. TypeInv /\ Backlog /\ [Next]_vars => (TypeInv /\ Backlog)'
  BY TypeStep, BacklogStep
<1>3. TypeInv /\ Backlog => NoOverrun
  BY BacklogFits
<1> QED  BY <1>1, <1>2, <1>3, PTL DEF Spec

-----------------------------------------------------------------------------
(* Samples are dropped only as the second half of a split pair.            *)

\* Unless the packet holds a reading of one channel alone, its samples are
\* in pairs.
PairedUnlessSolo ==
    pc = "read" => Len(packet.samples) % 2 = 0 \/ solo

\* A packet of even size ends between two pairs, or holds a lone reading.
LEMMA SplitPairStep ==
    /\ SAMPLES_PER_PACKET % 2 = 0
    /\ TypeInv /\ PairedUnlessSolo /\ DropsOnlySplitPairs /\ [Next]_vars
    => (PairedUnlessSolo /\ DropsOnlySplitPairs)'
<1> SUFFICES ASSUME SAMPLES_PER_PACKET % 2 = 0,
                    TypeInv, PairedUnlessSolo, DropsOnlySplitPairs, [Next]_vars
             PROVE  (PairedUnlessSolo /\ DropsOnlySplitPairs)'
  OBVIOUS
<1> USE PacketSizeAssumption
<1>1. CASE UNCHANGED <<taskVars, histVars>>
  BY <1>1 DEF taskVars, histVars, PairedUnlessSolo, DropsOnlySplitPairs
<1>2. ASSUME NEW n \in ReadLens, NEW c0 \in Means, NEW c1 \in Means,
             Process(n, c0, c1)
      PROVE  (PairedUnlessSolo /\ DropsOnlySplitPairs)'
  <2> DEFINE p == PushReading(packet, last_timestamp, sampler')
             v == ValidValues(sampler')
             k == Len(packet.samples)
  <2>1. /\ pc = "read"
        /\ v \in 0..2
        /\ IsPacket(p)
        /\ k \in 0..SAMPLES_PER_PACKET-1
        /\ Len(p.samples) \in k..SAMPLES_PER_PACKET
        /\ k + v <= SAMPLES_PER_PACKET => Len(p.samples) = k + v
        /\ k + v > SAMPLES_PER_PACKET
               => /\ Len(p.samples) = SAMPLES_PER_PACKET
                  /\ k + 1 = SAMPLES_PER_PACKET
                  /\ v = 2
                  /\ p.samples[SAMPLES_PER_PACKET].channel = "Analog0"
    BY <1>2, ProcessFacts
  <2>2. NoteReading(p) <=> /\ solo' = (solo \/ v = 1)
                           /\ dropped' = dropped + v - (Len(p.samples) - k)
    BY DEF NoteReading, v, k
  <2>3. \/ /\ ~IsFull(p)
           /\ packet' = p /\ pc' = pc
           /\ NoteReading(p)
        \/ /\ IsFull(p)
           /\ packet' = Finalize(p, seq) /\ pc' = "write"
           /\ NoteReading(p)
        \/ NextPacket
    BY <1>2 DEF Process
  <2>4. dropped = 0 /\ (k % 2 = 0 \/ solo)
    BY <2>1 DEF TypeInv, PacketShape, PairedUnlessSolo
  <2> HIDE DEF p, v, k
  <2>5. CASE /\ ~IsFull(p)
             /\ packet' = p /\ pc' = pc
             /\ NoteReading(p)
    <3>1. Len(p.samples) < SAMPLES_PER_PACKET
      BY <2>1, <2>5 DEF IsFull
    <3>2. Len(p.samples) = k + v /\ dropped' = 0
      BY <2>1, <2>2, <2>4, <2>5, <3>1
    <3>3. Len(p.samples) % 2 = 0 \/ solo \/ v = 1
      BY <2>1, <2>4, <3>2
    <3>4. solo \/ v = 1 => solo'
      BY <2>2, <2>5
    <3> QED  BY <2>5, <3>2, <3>3, <3>4 DEF PairedUnlessSolo, DropsOnlySplitPairs
  <2>6. CASE /\ IsFull(p)
             /\ packet' = Finalize(p, seq) /\ pc' = "write"
             /\ NoteReading(p)
    <3>1. packet'.samples = p.samples
      BY <2>1, <2>6 DEF Finalize, IsPacket
    <3>2. dropped' = v - (Len(p.samples) - k)
      BY <2>1, <2>2, <2>4, <2>6
    <3>3. dropped' > 0 => k + v > SAMPLES_PER_PACKET
      <4> DEFINE l == Len(p.samples)
      <4>1. /\ v \in 0..2 /\ k \in Int /\ l \in Int
            /\ k + v <= SAMPLES_PER_PACKET => l = k + v
            /\ dropped' = v - (l - k)
        BY <2>1, <3>2
      <4> HIDE DEF l
      <4> QED  BY <4>1
    <3>4. dropped' > 0 => dropped' = 1 /\ solo
      BY <2>1, <2>4, <3>2, <3>3
    <3>5. solo => solo'
      BY <2>2, <2>6
    <3> QED  BY <2>1, <2>6, <3>1, <3>3, <3>4, <3>5
             DEF PairedUnlessSolo, DropsOnlySplitPairs
  <2>7. CASE NextPacket
    BY <2>7, NewPacketType DEF NextPacket, PairedUnlessSolo, DropsOnlySplitPairs
  <2> QED  BY <2>3, <2>5, <2>6, <2>7
<1>3. ASSUME NEW ok \in BOOLEAN, WriteDone(ok)
      PROVE  (PairedUnlessSolo /\ DropsOnlySplitPairs)'
  BY <1>3, NewPacketType
  DEF WriteDone, NextPacket, PairedUnlessSolo, DropsOnlySplitPairs
<1> QED  BY <1>1, <1>2, <1>3 DEF Next, TaskStep, Tick, ReadErr, ReadZero, vars

\* With an even number of samples in a packet (32 in the code), push() drops
\* a value only when both channels show one, the packet has one place left,
\* and an earlier reading of that packet was of one channel alone.
THEOREM OnlySplitPairsDropped ==
    SAMPLES_PER_PACKET % 2 = 0 => (Spec => []DropsOnlySplitPairs)
<1> DEFINE Inv == TypeInv /\ PairedUnlessSolo /\ DropsOnlySplitPairs
<1> SUFFICES ASSUME SAMPLES_PER_PACKET % 2 = 0
             PROVE  Spec => []DropsOnlySplitPairs
  OBVIOUS
<1>1. Init => Inv
  <2>1. Init => packet = NewPacket /\ dropped = 0
    BY DEF Init
  <2>2. packet = NewPacket => PairedUnlessSolo
    <3>1. 0 % 2 = 0
      BY SMT
    <3>2. Len(NewPacket.samples) % 2 = 0
      BY <3>1, NewPacketType
    <3> QED  BY <3>2 DEF PairedUnlessSolo
  <2>3. dropped = 0 => DropsOnlySplitPairs
    BY DEF DropsOnlySplitPairs
  <2> QED  BY <2>1, <2>2, <2>3, TypeInit
<1>2. Inv /\ [Next]_vars => Inv'
  BY TypeStep, SplitPairStep
<1>3. Inv => DropsOnlySplitPairs
  OBVIOUS
<1> QED  BY <1>1, <1>2, <1>3, PTL DEF Spec

-----------------------------------------------------------------------------
(* Sequence numbers account for every finished packet.                     *)

\* Finishing a packet without sending it leaves the gap right.
LEMMA GapGrows ==
    ASSUME TypeInv, SeqGapIsLoss, NextPacket, NotOnWire
    PROVE  SeqGapIsLoss'
<1> USE AdcAssumption
<1>1. /\ seq' = (seq + 1) % SeqRange
      /\ gap' = (gap + 1) % SeqRange
      /\ wire' = wire
  BY DEF NextPacket, NotOnWire
<1>2. CASE wire = NoPacket
  BY <1>1, <1>2 DEF SeqGapIsLoss
<1>3. CASE wire # NoPacket
  <2> DEFINE a == wire.seq + 1
  <2>1. a \in Int /\ gap \in Int /\ SeqRange \in Nat \ {0}
    <3>1. IsPacket(wire) /\ gap \in Int
      BY <1>3 DEF TypeInv, TypeOK
    <3>2. wire.seq \in 0..SeqRange-1
      BY <3>1 DEF IsPacket
    <3> QED  BY <3>1, <3>2
  <2>2. seq = (a + gap) % SeqRange
    BY <1>3 DEF SeqGapIsLoss
  <2> HIDE DEF a
  <2>3. a + gap \in Int /\ gap + 1 \in Int /\ 1 \in Int
    BY <2>1
  <2>4. (((a + gap) % SeqRange) + 1) % SeqRange = (a + gap + 1) % SeqRange
    BY <2>1, <2>3, ModAdd, Zenon
  <2>5. (a + gap') % SeqRange = (a + gap + 1) % SeqRange
    <3>1. (((gap + 1) % SeqRange) + a) % SeqRange = (gap + 1 + a) % SeqRange
      BY <2>1, <2>3, ModAdd, Zenon
    <3>2. gap' \in Int
      BY <1>1, <2>1, Wrapping
    <3>3. a + gap' = ((gap + 1) % SeqRange) + a /\ a + gap + 1 = gap + 1 + a
      BY <1>1, <2>1, <3>2
    <3> QED  BY <3>1, <3>3
  <2>6. seq' = (wire'.seq + 1 + gap') % SeqRange
    BY <1>1, <2>2, <2>4, <2>5 DEF a
  <2> QED  BY <1>1, <1>3, <2>6 DEF SeqGapIsLoss
<1> QED  BY <1>2, <1>3

\* Every step leaves the gap between the wire's and the task's sequence
\* number right.
LEMMA GapStep == TypeInv /\ SeqGapIsLoss /\ [Next]_vars => SeqGapIsLoss'
<1> SUFFICES ASSUME TypeInv, SeqGapIsLoss, [Next]_vars  PROVE SeqGapIsLoss'
  OBVIOUS
<1>1. CASE UNCHANGED <<seq, wire, gap>>
  BY <1>1 DEF SeqGapIsLoss
<1>2. ASSUME NEW n \in ReadLens, NEW c0 \in Means, NEW c1 \in Means,
             Process(n, c0, c1)
      PROVE  SeqGapIsLoss'
  <2>1. UNCHANGED <<seq, wire, gap>> \/ (NextPacket /\ NotOnWire)
    BY <1>2 DEF Process
  <2> QED  BY <1>1, <2>1, GapGrows
<1>3. CASE WriteDone(TRUE)
  <2>1. /\ wire' = packet /\ gap' = 0
        /\ seq' = (seq + 1) % SeqRange
        /\ packet.seq = seq /\ seq \in Nat
        /\ IsPacket(packet)
    BY <1>3 DEF WriteDone, NextPacket, TypeInv, TypeOK, PacketShape
  <2>2. packet # NoPacket
    BY <2>1, NoPacketAssumption DEF IsPacket
  <2>3. seq + 1 = seq + 1 + 0
    BY <2>1
  <2> QED  BY <2>1, <2>2, <2>3 DEF SeqGapIsLoss
<1>4. CASE WriteDone(FALSE)
  BY <1>4, GapGrows DEF WriteDone
<1> QED  BY <1>1, <1>2, <1>3, <1>4
         DEF Next, TaskStep, Tick, ReadErr, ReadZero, TakeFromRing, vars,
             taskVars, histVars

\* The sequence number of the packet being filled is one more than that of
\* the last packet on the wire and the packets lost since, modulo 2^16.
THEOREM GapsAreLosses == Spec => []SeqGapIsLoss
<1>1. Init => TypeInv /\ SeqGapIsLoss
  BY TypeInit DEF Init, SeqGapIsLoss
<1>2. TypeInv /\ SeqGapIsLoss /\ [Next]_vars => (TypeInv /\ SeqGapIsLoss)'
  BY TypeStep, GapStep
<1>3. TypeInv /\ SeqGapIsLoss => SeqGapIsLoss
  OBVIOUS
<1> QED  BY <1>1, <1>2, <1>3, PTL DEF Spec

-----------------------------------------------------------------------------
(* The clock lags by what no read reported, and by nothing else.           *)

\* A clock that shows t, k samples later.
Ahead(t, k) == (t + k * UsPerSample) % TimeRange

\* The samples whose time the clock does not include yet: those of the packet
\* being written and the unread ones.
Outstanding == (IF pc = "write" THEN count ELSE 0) + unread

\* What the clock shows once they are stamped, and how far that is behind.
InPhase ==
    captured_us = (Ahead(last_timestamp, Outstanding) + behind_us) % TimeRange

\* Going ahead by n samples and then by k is going ahead by n + k.
LEMMA AheadAdds ==
    ASSUME NEW t \in Int, NEW n \in Int, NEW k \in Int
    PROVE  Ahead(Ahead(t, n), k) = Ahead(t, n + k)
<1> DEFINE a == t + n * UsPerSample
           b == k * UsPerSample
<1>1. a \in Int /\ b \in Int /\ TimeRange \in Nat \ {0}
  BY AdcAssumption DEF UsPerSample
<1>2. t + (n + k) * UsPerSample = a + b
  BY DEF UsPerSample
<1> HIDE DEF a
<1>3. ((a % TimeRange) + b) % TimeRange = (a + b) % TimeRange
  BY <1>1, ModAdd, Zenon
<1> QED  BY <1>2, <1>3 DEF Ahead, a

\* k samples more in one of two summands are k samples more in their sum.
LEMMA AheadSum ==
    ASSUME NEW t \in Int, NEW b \in Int, NEW k \in Int
    PROVE  /\ (Ahead(t, k) + b) % TimeRange = Ahead((t + b) % TimeRange, k)
           /\ (b + Ahead(t, k)) % TimeRange = Ahead((b + t) % TimeRange, k)
           /\ Ahead(t, k) \in Int
<1> DEFINE u == k * UsPerSample
<1>1. u \in Int /\ t + u \in Int /\ t + b \in Int /\ TimeRange \in Nat \ {0}
  BY AdcAssumption DEF UsPerSample
<1> HIDE DEF u
<1>2. (((t + u) % TimeRange) + b) % TimeRange = (t + u + b) % TimeRange
  BY <1>1, ModAdd, Zenon
<1>3. (((t + b) % TimeRange) + u) % TimeRange = (t + b + u) % TimeRange
  BY <1>1, ModAdd, Zenon
<1>4. t + u + b = t + b + u /\ b + t = t + b
  BY <1>1
<1>5. (t + u) % TimeRange \in Int
  BY <1>1, Wrapping
<1>6. b + ((t + u) % TimeRange) = ((t + u) % TimeRange) + b
  BY <1>5
<1> QED  BY <1>2, <1>3, <1>4, <1>5, <1>6 DEF Ahead, u

\* Time passing to be stamped later, to be lost, or to be stamped now.
LEMMA LagMoves ==
    ASSUME NEW t \in Int, NEW b \in Int, NEW n \in Int, NEW k \in Int
    PROVE  /\ (Ahead(t, n + k) + b) % TimeRange
                 = Ahead((Ahead(t, n) + b) % TimeRange, k)
           /\ (Ahead(t, n) + Ahead(b, k)) % TimeRange
                 = Ahead((Ahead(t, n) + b) % TimeRange, k)
           /\ Ahead(t, n) \in Int
<1>1. Ahead(t, n) \in Int
  BY AheadSum
<1>2. Ahead(t, n + k) = Ahead(Ahead(t, n), k)
  BY AheadAdds
<1>3. (Ahead(Ahead(t, n), k) + b) % TimeRange
        = Ahead((Ahead(t, n) + b) % TimeRange, k)
  BY <1>1, AheadSum
<1>4. (Ahead(t, n) + Ahead(b, k)) % TimeRange
        = Ahead((Ahead(t, n) + b) % TimeRange, k)
  BY <1>1, AheadSum
<1> QED  BY <1>1, <1>2, <1>3, <1>4, Zenon

\* At the start nothing has been stored.
LEMMA InPhaseInit == Init => InPhase
<1>1. Init => /\ captured_us = 0 /\ last_timestamp = 0 /\ Outstanding = 0
              /\ behind_us = 0
  BY DEF Init, Outstanding
<1>2. (Ahead(0, 0) + 0) % TimeRange = 0
  <2>1. 0 \in 0..TimeRange-1 /\ 0 + 0 * UsPerSample = 0 /\ 0 + 0 = 0
    BY AdcAssumption DEF UsPerSample
  <2>2. 0 % TimeRange = 0
    BY <2>1, ModSmall, AdcAssumption
  <2> QED  BY <2>1, <2>2 DEF Ahead
<1> QED  BY <1>1, <1>2 DEF InPhase

\* Every step keeps the account of time.
LEMMA InPhaseStep == TypeInv /\ InPhase /\ [Next]_vars => InPhase'
<1> SUFFICES ASSUME TypeInv, InPhase, [Next]_vars  PROVE InPhase'
  OBVIOUS
<1> USE AdcAssumption
<1>0. Outstanding \in Int /\ last_timestamp \in Int /\ behind_us \in Int /\ unread \in Nat
  BY DEF Outstanding, TypeInv, TypeOK
<1>1. CASE Tick
  <2>1. /\ captured_us' = Ahead(captured_us, 1)
        /\ last_timestamp' = last_timestamp
    BY <1>1 DEF Tick, Ahead, UsPerSample, taskVars
  <2>2. CASE ~Lapped
    <3>1. Outstanding' = Outstanding + 1
      BY <1>1, <2>2 DEF Tick, taskVars, Outstanding, TypeInv, TypeOK
    <3>2. behind_us' = behind_us
      <4>1. behind_us' = (behind_us + 0 * UsPerSample) % TimeRange
        BY <1>1, <2>2 DEF Tick, LoseTime
      <4>2. behind_us \in 0..TimeRange-1 /\ behind_us + 0 * UsPerSample = behind_us
        BY DEF TypeInv, TypeOK, UsPerSample
      <4> QED  BY <4>1, <4>2, ModSmall
    <3>3. (Ahead(last_timestamp, Outstanding + 1) + behind_us) % TimeRange
            = Ahead((Ahead(last_timestamp, Outstanding) + behind_us) % TimeRange, 1)
      BY <1>0, LagMoves
    <3> QED  BY <2>1, <3>1, <3>2, <3>3 DEF InPhase
  <2>3. CASE Lapped
    <3>1. Outstanding' = Outstanding
      BY <1>1, <2>3 DEF Tick, taskVars, Outstanding
    <3>2. behind_us' = Ahead(behind_us, 1)
      BY <1>1, <2>3 DEF Tick, LoseTime, Ahead
    <3>3. (Ahead(last_timestamp, Outstanding) + Ahead(behind_us, 1)) % TimeRange
            = Ahead((Ahead(last_timestamp, Outstanding) + behind_us) % TimeRange, 1)
      BY <1>0, LagMoves
    <3> QED  BY <2>1, <3>1, <3>2, <3>3 DEF InPhase
  <2> QED  BY <2>2, <2>3
<1>2. CASE ReadErr
  <2>1. /\ Outstanding = 0 + unread /\ Outstanding' = 0
        /\ UNCHANGED <<captured_us, last_timestamp>>
        /\ behind_us' = Ahead(behind_us, unread)
    BY <1>0, <1>2 DEF ReadErr, Readable, LoseTime, Ahead, Outstanding, taskVars
  <2>2. /\ (Ahead(last_timestamp, 0 + unread) + behind_us) % TimeRange
             = Ahead((Ahead(last_timestamp, 0) + behind_us) % TimeRange, unread)
        /\ (Ahead(last_timestamp, 0) + Ahead(behind_us, unread)) % TimeRange
             = Ahead((Ahead(last_timestamp, 0) + behind_us) % TimeRange, unread)
    BY <1>0, LagMoves
  <2> QED  BY <2>1, <2>2 DEF InPhase
<1>3. CASE ReadZero
  <2>1. PICK o \in Int : o = unread - MeasLen
    BY <1>0
  <2>2. /\ Outstanding = o + MeasLen /\ Outstanding' = o
        /\ UNCHANGED <<captured_us, last_timestamp>>
        /\ behind_us' = Ahead(behind_us, MeasLen)
    BY <1>0, <1>3, <2>1
       DEF ReadZero, TakeFromRing, Readable, LoseTime, Ahead, Outstanding, taskVars
  <2>3. (Ahead(last_timestamp, o + MeasLen) + behind_us) % TimeRange
            = (Ahead(last_timestamp, o) + Ahead(behind_us, MeasLen)) % TimeRange
    BY <1>0, <2>1, LagMoves
  <2> QED  BY <2>2, <2>3 DEF InPhase
<1>4. ASSUME NEW n \in ReadLens, NEW c0 \in Means, NEW c1 \in Means,
             Process(n, c0, c1)
      PROVE  InPhase'
  <2>1. PICK c \in 1..MeasLen : count' = c
    BY <1>4, ProcessFacts
  <2>2. PICK k \in Int, left \in Int : k = MeasLen - c /\ left = unread - MeasLen
    BY <1>0
  <2>3. /\ pc = "read" /\ unread' = left
        /\ captured_us' = captured_us
        /\ behind_us' = Ahead(behind_us, k)
    BY <1>4, <2>1, <2>2 DEF Process, TakeFromRing, Readable, LoseTime, Ahead
  <2>4. Outstanding = (c + left) + k /\ c + left \in Int
    BY <1>0, <2>2, <2>3 DEF Outstanding
  <2>5. captured_us' = (Ahead(last_timestamp, c + left) + behind_us') % TimeRange
    <3>1. (Ahead(last_timestamp, (c + left) + k) + behind_us) % TimeRange
             = (Ahead(last_timestamp, c + left) + Ahead(behind_us, k)) % TimeRange
      BY <1>0, <2>4, LagMoves
    <3> QED  BY <2>3, <2>4, <3>1 DEF InPhase
  <2>6. \/ Advance(c) /\ pc' = "read"
        \/ last_timestamp' = last_timestamp /\ pc' = "write"
    BY <1>4, <2>1, <2>3 DEF Process
  <2>7. CASE Advance(c) /\ pc' = "read"
    <3>1. Outstanding' = left /\ last_timestamp' = Ahead(last_timestamp, c)
      BY <2>2, <2>3, <2>7 DEF Outstanding, Advance, Ahead
    <3>2. Ahead(Ahead(last_timestamp, c), left) = Ahead(last_timestamp, c + left)
      BY <1>0, <2>2, AheadAdds
    <3> QED  BY <2>5, <3>1, <3>2 DEF InPhase
  <2>8. CASE last_timestamp' = last_timestamp /\ pc' = "write"
    <3>1. Outstanding' = c + left
      BY <2>1, <2>3, <2>8 DEF Outstanding
    <3> QED  BY <2>5, <2>8, <3>1 DEF InPhase
  <2> QED  BY <2>6, <2>7, <2>8
<1>5. ASSUME NEW ok \in BOOLEAN, WriteDone(ok)
      PROVE  InPhase'
  <2>1. /\ count + Outstanding' = Outstanding
        /\ count \in Int /\ Outstanding' \in Int
    BY <1>5 DEF WriteDone, Outstanding, TypeInv, TypeOK
  <2>2. /\ last_timestamp' = Ahead(last_timestamp, count)
        /\ UNCHANGED <<captured_us, behind_us>>
    BY <1>5 DEF WriteDone, Advance, Ahead
  <2>3. Ahead(Ahead(last_timestamp, count), Outstanding')
          = Ahead(last_timestamp, count + Outstanding')
    BY <1>0, <2>1, AheadAdds
  <2> QED  BY <2>1, <2>2, <2>3 DEF InPhase
<1>6. CASE UNCHANGED vars
  BY <1>6 DEF vars, taskVars, dmaVars, InPhase, Outstanding
<1> QED  BY <1>1, <1>2, <1>3, <1>4, <1>5, <1>6 DEF Next, TaskStep

\* The task's clock lags behind the ADC's samples by exactly those that an
\* overrun discarded or a read left out, for ever: late scheduling and long
\* writes cost it nothing.
THEOREM LagIsDiscards == Spec => []ClockLagIsDiscards
<1> DEFINE Inv == TypeInv /\ InPhase
<1>1. Init => Inv
  BY TypeInit, InPhaseInit
<1>2. Inv /\ [Next]_vars => Inv'
  BY TypeStep, InPhaseStep
<1>3. Inv => ClockLagIsDiscards
  <2> SUFFICES ASSUME TypeInv, InPhase  PROVE ClockLagIsDiscards
    OBVIOUS
  <2> DEFINE a == last_timestamp + Outstanding * UsPerSample
  <2>1. /\ a \in Int /\ behind_us \in Int /\ TimeRange \in Nat \ {0}
    BY AdcAssumption DEF TypeInv, TypeOK, UsPerSample, Outstanding
  <2>2. ((a % TimeRange) + behind_us) % TimeRange = (a + behind_us) % TimeRange
    BY <2>1, ModAdd, Zenon
  <2> QED  BY <2>2 DEF InPhase, Ahead, Outstanding, ClockLagIsDiscards
<1> QED  BY <1>1, <1>2, <1>3, PTL DEF Spec

\* And where the timing rules overruns out and every read reports all that it
\* takes, the clock counts every sample there is, at 100 us each: whatever the
\* ADC has stored is stamped, being written, or still in the ring.  (Whether a
\* sample takes 100 us is up to the ADC, which analog.rs gives no trigger.)
THEOREM ClockCountsAll ==
    ASSUME TimingOK, ReadLens = {MeasLen}
    PROVE  Spec => [](captured_us = Ahead(last_timestamp, Outstanding))
<1> DEFINE Inv == TypeInv /\ Backlog /\ InPhase /\ behind_us = 0
<1>1. Init => Inv
  BY TypeInit, InPhaseInit, AdcAssumption DEF Init, Backlog
<1>2. Inv /\ [Next]_vars => Inv'
  <2> SUFFICES ASSUME Inv, [Next]_vars  PROVE behind_us' = 0
    BY TypeStep, BacklogStep, InPhaseStep
  <2>1. ~Lapped /\ ~ReadErr /\ ~ReadZero
    BY BacklogFits, AdcAssumption DEF NoOverrun, ReadErr, ReadZero
  <2>2. ASSUME LoseTime(0)  PROVE behind_us' = 0
    <3>1. behind_us' = 0 % TimeRange
      BY <2>2 DEF LoseTime, UsPerSample
    <3> QED  BY <3>1, ModSmall, AdcAssumption
  <2>3. CASE Tick
    BY <2>1, <2>2, <2>3 DEF Tick
  <2>4. ASSUME NEW n \in ReadLens, NEW c0 \in Means, NEW c1 \in Means,
               Process(n, c0, c1)
        PROVE  behind_us' = 0
    <3>1. MeasLen - count' = 0 /\ LoseTime(MeasLen - count')
      BY <2>4, AdcAssumption DEF Process, TakeFromRing
    <3>2. LoseTime(0)
      BY <3>1
    <3> QED  BY <2>2, <3>2
  <2> QED  BY <2>1, <2>3, <2>4 DEF Next, TaskStep, WriteDone, vars, dmaVars
<1>3. Inv => captured_us = Ahead(last_timestamp, Outstanding)
  <2> SUFFICES ASSUME Inv  PROVE captured_us = Ahead(last_timestamp, Outstanding)
    OBVIOUS
  <2>1. last_timestamp + Outstanding * UsPerSample \in Int
    BY DEF TypeInv, TypeOK, UsPerSample, Outstanding
  <2>2. Ahead(last_timestamp, Outstanding) \in 0..TimeRange-1
    BY <2>1, Wrapping DEF Ahead
  <2>3. Ahead(last_timestamp, Outstanding) + 0 = Ahead(last_timestamp, Outstanding)
    BY <2>2
  <2> QED  BY <2>2, <2>3, ModSmall, AdcAssumption DEF InPhase
<1> QED  BY <1>1, <1>2, <1>3, PTL DEF Spec

-----------------------------------------------------------------------------
(* What the averaging can show.                                            *)

\* A value above full scale comes from the first channel and from an odd
\* read, for every input the 12-bit ADC can convert.
THEOREM OverRangeIsOdd == Spec => []OverRangeOnlyOddReads
<1> DEFINE Inv == TypeInv /\ OverRangeOnlyOddReads
<1>1. Init => Inv
  BY TypeInit DEF Init, NewSampler, OverRangeOnlyOddReads
<1>2. Inv /\ [Next]_vars => Inv'
  <2> SUFFICES ASSUME Inv, [Next]_vars  PROVE OverRangeOnlyOddReads'
    BY TypeStep
  <2>1. CASE UNCHANGED <<sampler, count>>
    BY <2>1 DEF OverRangeOnlyOddReads
  <2>2. ASSUME NEW n \in ReadLens, NEW c0 \in Means, NEW c1 \in Means,
               Process(n, c0, c1)
        PROVE  OverRangeOnlyOddReads'
    <3>1. count' \in 1..MeasLen
      BY <2>2, ProcessFacts
    <3>2. sampler' = UpdateAnalog(sampler, count', c0, c1)
      BY <2>2 DEF Process
    <3>3. CASE count' < 2
      <4>1. count' = 1 /\ 1 % 2 = 1
        BY <3>1, <3>3
      <4> QED  BY <3>2, <4>1 DEF UpdateAnalog, OverRangeOnlyOddReads
    <3>4. CASE count' >= 2
      <4>1. count' \in Nat
        BY <3>1, AdcAssumption
      <4>2. /\ sampler'.pa0_mv \in Nat
            /\ sampler'.pa1_mv <= 3300
            /\ sampler'.pa0_mv <= 2 * 3300
            /\ sampler'.pa0_mv <= 3300 \/ Odd(count')
        <5> DEFINE u == UpdateAnalog(sampler, count', c0, c1)
        <5>1. /\ u \in [pa0_mv : Nat, pa1_mv : Nat]
              /\ u.pa1_mv <= 3300
              /\ u.pa0_mv <= 2 * 3300
              /\ u.pa0_mv <= 3300 \/ Odd(count')
          <6>1. sampler \in [pa0_mv : Nat, pa1_mv : Nat]
            BY DEF TypeInv, TypeOK
          <6> QED  BY <3>4, <4>1, <6>1, UpdateAnalogFacts
        <5>2. sampler' = u
          BY <3>2
        <5> HIDE DEF u
        <5> QED  BY <5>1, <5>2
      <4> QED  BY <4>2 DEF Odd, OverRangeOnlyOddReads
    <3> QED  BY <3>1, <3>3, <3>4, AdcAssumption
  <2> QED  BY <2>1, <2>2
           DEF Next, TaskStep, Tick, ReadErr, ReadZero, WriteDone, vars,
               taskVars
<1>3. Inv => OverRangeOnlyOddReads
  OBVIOUS
<1> QED  BY <1>1, <1>2, <1>3, PTL DEF Spec

-----------------------------------------------------------------------------
(* The task implements the abstract packet stream.                         *)

\* A longer sequence that agrees with a shorter one is a strict extension.
LEMMA LongerIsStrictPrefix ==
    ASSUME NEW S, NEW s \in Seq(S), NEW t \in Seq(S), Len(s) < Len(t),
           \A i \in 1..Len(s) : t[i] = s[i]
    PROVE  Stream!IsStrictPrefix(s, t)
<1>1. SubSeq(s, 1, Len(s)) = s
  BY SubSeqFull
<1>2. SubSeq(t, 1, Len(s)) = s
  BY SMT
<1>3. s # t
  OBVIOUS
<1> QED  BY <1>1, <1>2, <1>3 DEF Stream!IsStrictPrefix, Stream!IsPrefix

\* Every step of the task is a step of the stream, or changes nothing of it.
LEMMA StreamStep ==
    TypeInv /\ [Next]_vars => [Stream!StreamNext]_<<packet.samples, seq, wire>>
<1> SUFFICES ASSUME TypeInv, [Next]_vars
             PROVE  [Stream!StreamNext]_<<packet.samples, seq, wire>>
  OBVIOUS
<1> USE AdcAssumption, PacketSizeAssumption
<1>1. CASE UNCHANGED <<packet, seq, wire>>
  BY <1>1
<1>2. ASSUME NextPacket  PROVE Stream!FinishPacket
  BY <1>2 DEF NextPacket, NewPacket, Stream!FinishPacket
<1>3. ASSUME NEW n \in ReadLens, NEW c0 \in Means, NEW c1 \in Means,
             Process(n, c0, c1)
      PROVE  [Stream!StreamNext]_<<packet.samples, seq, wire>>
  <2> DEFINE p == PushReading(packet, last_timestamp, sampler')
             v == ValidValues(sampler')
             k == Len(packet.samples)
  <2>1. /\ v \in 0..2
        /\ IsPacket(p) /\ p.seq = packet.seq
        /\ k \in 0..SAMPLES_PER_PACKET-1
        /\ Len(p.samples) \in k..SAMPLES_PER_PACKET
        /\ \A i \in 1..k : p.samples[i] = packet.samples[i]
        /\ k + v <= SAMPLES_PER_PACKET => Len(p.samples) = k + v
        /\ k + v > SAMPLES_PER_PACKET => Len(p.samples) = SAMPLES_PER_PACKET
    BY <1>3, ProcessFacts
  <2>2. \/ packet' = p /\ UNCHANGED <<seq, wire>>
        \/ packet' = Finalize(p, seq) /\ UNCHANGED <<seq, wire>>
        \/ IsFull(p) /\ NextPacket /\ NotOnWire
    BY <1>3 DEF Process
  <2> HIDE DEF p, v
  <2>3. CASE packet'.samples = p.samples /\ UNCHANGED <<seq, wire>>
    <3>1. CASE Len(p.samples) = k
      <4>1. packet.samples \in Seq(Sample) /\ p.samples \in Seq(Sample)
        BY <2>1 DEF IsPacket, TypeInv, TypeOK
      <4>2. /\ Len(packet.samples) = Len(p.samples)
            /\ \A i \in 1..Len(packet.samples) : packet.samples[i] = p.samples[i]
        BY <2>1, <3>1
      <4>3. p.samples = packet.samples
        BY <4>1, <4>2, SeqEqual
      <4> QED  BY <2>3, <4>3
    <3>2. CASE Len(p.samples) > k
      <4>1. packet.samples \in Seq(Sample) /\ p.samples \in Seq(Sample)
        BY <2>1 DEF IsPacket, TypeInv, TypeOK
      <4>2. Stream!IsStrictPrefix(packet.samples, p.samples)
        BY <2>1, <3>2, <4>1, LongerIsStrictPrefix
      <4>3. Len(p.samples) <= SAMPLES_PER_PACKET
        BY <2>1
      <4>4. Stream!Accept
        BY <2>3, <4>2, <4>3 DEF Stream!Accept
      <4> QED  BY <4>4 DEF Stream!StreamNext
    <3> QED  BY <2>1, <3>1, <3>2
  <2>4. packet' = Finalize(p, seq) => packet'.samples = p.samples
    BY <2>1 DEF Finalize, IsPacket
  <2>5. CASE IsFull(p) /\ NextPacket /\ NotOnWire
    <3>1. k + 2 >= SAMPLES_PER_PACKET
      <4> DEFINE l == Len(p.samples)
      <4>1. /\ v \in 0..2 /\ k \in Int /\ l >= SAMPLES_PER_PACKET
            /\ k + v <= SAMPLES_PER_PACKET => l = k + v
        BY <2>1, <2>5 DEF IsFull
      <4> HIDE DEF k, l
      <4> QED  BY <4>1
    <3>2. Stream!Lose
      BY <1>2, <2>5, <3>1 DEF Stream!Lose, NotOnWire
    <3> QED  BY <3>2 DEF Stream!StreamNext
  <2> QED  BY <2>2, <2>3, <2>4, <2>5
<1>4. CASE WriteDone(TRUE)
  <2>1. wire' = packet /\ NextPacket /\ pc = "write"
    BY <1>4 DEF WriteDone
  <2>2. packet = [seq |-> seq, samples |-> packet.samples]
    BY <2>1 DEF TypeInv, TypeOK, PacketShape, IsPacket
  <2>3. Len(packet.samples) = SAMPLES_PER_PACKET
    BY <2>1 DEF TypeInv, PacketShape
  <2>4. Stream!Emit
    BY <1>2, <2>1, <2>2, <2>3 DEF Stream!Emit
  <2> QED  BY <2>4 DEF Stream!StreamNext
<1>5. CASE WriteDone(FALSE)
  <2>1. NotOnWire /\ NextPacket /\ pc = "write"
    BY <1>5 DEF WriteDone
  <2>2. Len(packet.samples) + 2 >= SAMPLES_PER_PACKET
    BY <2>1 DEF TypeInv, PacketShape
  <2>3. Stream!Lose
    BY <1>2, <2>1, <2>2 DEF Stream!Lose, NotOnWire
  <2> QED  BY <2>3 DEF Stream!StreamNext
<1> QED  BY <1>1, <1>3, <1>4, <1>5
         DEF Next, TaskStep, Tick, ReadErr, ReadZero, vars, taskVars

\* The acquisition task implements SampleStream: samples leave in the order
\* they were read, whole packets at a time, each packet with the next
\* sequence number.
THEOREM TaskImplementsStream == Spec => ImplementsStream
<1>1. Init => Stream!StreamInit
  BY NewPacketType DEF Init, NewPacket, Stream!StreamInit
<1>2. TypeInv /\ [Next]_vars
        => [Stream!StreamNext]_<<packet.samples, seq, wire>>
  BY StreamStep
<1>3. Spec => []TypeInv
  BY TypeInit, TypeStep, PTL DEF Spec
<1> QED  BY <1>1, <1>2, <1>3, PTL
         DEF Spec, ImplementsStream, Stream!StreamSpec, Stream!streamVars
=============================================================================
