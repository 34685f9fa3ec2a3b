-------------------------- MODULE WireLayoutProofs --------------------------
(***************************************************************************)
(* What TLAPS proves of the packet's two layouts, for every width of a     *)
(* byte and every packet size whose header fits into two-byte fields: the  *)
(* firmware's header is the header the host reads.                         *)
(***************************************************************************)
EXTENDS WireLayout, AdcTaskProofs

-----------------------------------------------------------------------------
(* Words of two bytes.                                                     *)

\* A word below B * B has a first digit in base B and a second one below B,
\* and is what the two count for.
LEMMA TwoDigits ==
    ASSUME NEW B \in Nat \ {0}, NEW n \in 0..B*B-1
    PROVE  /\ n \div B \in 0..B-1
           /\ n = (n % B) + B * ((n \div B) % B)
<1>1. n % B \in 0..B-1 /\ n \div B \in Int /\ n = B * (n \div B) + (n % B)
  BY DivMod
<1> DEFINE q == n \div B
           r == n % B
<1> HIDE DEF q, r
<1>2. q \in Int /\ r \in 0..B-1 /\ n = B * q + r
  BY <1>1 DEF q, r
<1>3. q >= 0
  <2> SUFFICES ASSUME -q >= 1  PROVE FALSE
    BY <1>2
  <2>1. B * (-q) >= B /\ B * (0 - q) = B * 0 - B * q
    BY <1>2, MulMono, MulDistributes
  <2> QED  BY <1>2, <2>1
<1>4. q <= B - 1
  <2> SUFFICES ASSUME q - B >= 0  PROVE FALSE
    BY <1>2
  <2>1. B * (q - B) >= 0 /\ B * (q - B) = B * q - B * B
    BY <1>2, SMTT(30)
  <2> QED  BY <1>2, <2>1
<1>5. q % B = q
  BY <1>2, <1>3, <1>4, ModSmall
<1> QED  BY <1>1, <1>3, <1>4, <1>5 DEF q, r

\* What digits count for is a natural number.
LEMMA WeightedSum ==
    ASSUME NEW B \in Nat, NEW a \in Nat, NEW b \in Nat
    PROVE  a + B * b \in Nat /\ a + B * B * b \in Nat
<1>1. B * b \in Nat /\ B * B \in Nat
  BY SMTT(30)
<1>2. B * B * b \in Nat
  BY <1>1, SMTT(30)
<1> QED  BY <1>1, <1>2

-----------------------------------------------------------------------------
(* Bytes.                                                                  *)

\* A byte of a word is a byte.
LEMMA ByteOfIsByte ==
    ASSUME NEW n \in Nat, NEW k \in 0..3
    PROVE  ByteOf(n, k) \in 0..ByteRange-1 /\ ByteOf(n, k) \in Nat
<1> DEFINE w == Weights[k + 1]
<1>1. ByteRange \in Nat \ {0}
  BY LayoutAssumption
<1>2. ByteRange * ByteRange \in Nat \ {0}
  BY <1>1, SMTT(30)
<1>3. ByteRange * ByteRange * ByteRange \in Nat \ {0}
  BY <1>1, <1>2, SMTT(30)
<1>4. w \in Nat \ {0}
  BY <1>1, <1>2, <1>3 DEF Weights
<1> HIDE DEF w
<1>5. n \div w \in Int
  BY <1>4, DivMod
<1>6. (n \div w) % ByteRange \in 0..ByteRange-1
  BY <1>1, <1>5, DivMod
<1> QED  BY <1>1, <1>6 DEF ByteOf, w

\* A word of two bytes is what the host makes of its first two bytes.
LEMMA WordOfTwoBytes ==
    ASSUME NEW n \in 0..ByteRange*ByteRange-1
    PROVE  n = ByteOf(n, 0) + ByteRange * ByteOf(n, 1)
<1>1. ByteRange \in Nat \ {0}
  BY LayoutAssumption
<1>2. n \div 1 = n
  BY SMT
<1>3. ByteOf(n, 0) = n % ByteRange /\ ByteOf(n, 1) = (n \div ByteRange) % ByteRange
  BY <1>2 DEF ByteOf, Weights
<1> QED  BY <1>1, <1>3, TwoDigits

\* The memory of a full packet is bytes, and its header is what the host reads
\* as the magic word, the sequence number and the number of samples.
LEMMA PacketBytes ==
    ASSUME NEW pkt, IsPacket(pkt), Len(pkt.samples) = SAMPLES_PER_PACKET,
           NEW pad \in 0..ByteRange-1
    PROVE  LET data == AsBytes(pkt, pad) IN
           /\ \A o \in 0..PacketLen-1 : data[o] \in Nat
           /\ U16(data, 0) = MAGIC
           /\ U16(data, SeqAt) = pkt.seq
           /\ U16(data, CountAt) = SAMPLES_PER_PACKET
<1> DEFINE data == AsBytes(pkt, pad)
<1>1. /\ ByteRange \in Nat \ {0}
      /\ MAGIC \in 0..ByteRange*ByteRange-1
      /\ SeqRange \in Nat /\ ByteRange * ByteRange \in Nat
      /\ pkt.seq \in 0..ByteRange*ByteRange-1
      /\ SAMPLES_PER_PACKET \in 1..ByteRange*ByteRange-1
  <2>1. ByteRange * ByteRange \in Nat
    BY LayoutAssumption, SMTT(30)
  <2> QED  BY <2>1, LayoutAssumption, AdcAssumption, PacketSizeAssumption DEF IsPacket
<1>2. PacketLen = 8 + 16 * SAMPLES_PER_PACKET
  BY <1>1 DEF PacketLen, SampleAt
<1>3. /\ data[0] = ByteOf(MAGIC, 0) /\ data[1] = ByteOf(MAGIC, 1)
      /\ data[2] = ByteOf(pkt.seq, 0) /\ data[3] = ByteOf(pkt.seq, 1)
      /\ data[4] = ByteOf(SAMPLES_PER_PACKET, 0)
      /\ data[5] = ByteOf(SAMPLES_PER_PACKET, 1)
  <2>1. 0..5 \subseteq 0..PacketLen-1
    BY <1>1, <1>2
  <2> QED  BY <2>1 DEF AsBytes, Within, SeqAt, CountAt
<1>4. /\ U16(data, 0) = MAGIC
      /\ U16(data, SeqAt) = pkt.seq
      /\ U16(data, CountAt) = SAMPLES_PER_PACKET
  BY <1>1, <1>3, WordOfTwoBytes DEF U16, SeqAt, CountAt
<1>5. ASSUME NEW o \in 0..PacketLen-1  PROVE data[o] \in Nat
  <2>1. CASE o < 8
    <3>1. o \in 0..7
      BY <1>1, <1>2, <2>1
    <3>2. data[o] \in {ByteOf(MAGIC, 0), ByteOf(MAGIC, 1), ByteOf(pkt.seq, 0),
                       ByteOf(pkt.seq, 1), ByteOf(SAMPLES_PER_PACKET, 0),
                       ByteOf(SAMPLES_PER_PACKET, 1), pad}
      BY <1>3, <3>1 DEF AsBytes, Within, SeqAt, CountAt
    <3>3. \A n \in Nat : \A k \in 0..3 : ByteOf(n, k) \in Nat
      BY ByteOfIsByte
    <3>4. MAGIC \in Nat /\ pkt.seq \in Nat /\ SAMPLES_PER_PACKET \in Nat /\ pad \in Nat
      BY <1>1
    <3> HIDE DEF data
    <3>5. /\ ByteOf(MAGIC, 0) \in Nat /\ ByteOf(MAGIC, 1) \in Nat
          /\ ByteOf(pkt.seq, 0) \in Nat /\ ByteOf(pkt.seq, 1) \in Nat
          /\ ByteOf(SAMPLES_PER_PACKET, 0) \in Nat
          /\ ByteOf(SAMPLES_PER_PACKET, 1) \in Nat
      <4>1. 0 \in 0..3 /\ 1 \in 0..3
        OBVIOUS
      <4> QED  BY <3>3, <3>4, <4>1, Zenon
    <3> QED  BY <3>2, <3>4, <3>5, Zenon
  <2>2. CASE o >= 8
    <3> DEFINE i == 1 + (o - SampleAt(1)) \div 16
               sample == pkt.samples[i]
    <3>1. i \in 1..SAMPLES_PER_PACKET
      BY <1>1, <1>2, <2>2 DEF SampleAt
    <3>2. sample \in Sample
      BY <3>1 DEF IsPacket
    <3>3. data[o] = SampleByte(i, sample, pad, o)
      <4>1. o \notin 0..1 /\ o \notin 2..3 /\ o \notin 4..5 /\ o \notin 6..7
        BY <2>2
      <4>2. 0+2-1 = 1 /\ 2+2-1 = 3 /\ 4+2-1 = 5 /\ 6+2-1 = 7
        OBVIOUS
      <4>3. ~Within(o, 0, 2) /\ ~Within(o, 2, 2) /\ ~Within(o, 4, 2) /\ ~Within(o, 6, 2)
        BY <4>1, <4>2, Zenon DEF Within
      <4> QED  BY <4>3, Zenon DEF AsBytes, SeqAt, CountAt
    <3> HIDE DEF i, sample
    <3>4. /\ ChannelNumber[sample.channel] \in Nat
          /\ sample.timestamp_us \in Nat /\ sample.value \in Nat
      <4>1. ChannelNumber["Analog0"] = 0 /\ ChannelNumber["Analog1"] = 1
        BY DEF ChannelNumber
      <4>2. sample.channel = "Analog0" \/ sample.channel = "Analog1"
        BY <3>2 DEF Sample, Channels
      <4>3. sample.timestamp_us \in 0..TimeRange-1 /\ sample.value \in 1..MvMax
        BY <3>2 DEF Sample
      <4>4. ChannelNumber[sample.channel] \in {0, 1}
        BY <4>1, <4>2, Zenon
      <4>5. 0..TimeRange-1 \subseteq Nat /\ 1..MvMax \subseteq Nat /\ {0, 1} \subseteq Nat
        BY AdcAssumption DEF MvMax
      <4> QED  BY <4>3, <4>4, <4>5, Zenon
    <3>5. /\ Within(o, TimestampAt(i), 4) => o - TimestampAt(i) \in 0..3
          /\ Within(o, ValueAt(i), 4) => o - ValueAt(i) \in 0..3
      BY <1>2, <3>1 DEF Within, TimestampAt, ValueAt, SampleAt
    <3>6. \A n \in Nat : \A k \in 0..3 : ByteOf(n, k) \in Nat
      BY ByteOfIsByte
    <3> DEFINE t == ByteOf(sample.timestamp_us, o - TimestampAt(i))
               v == ByteOf(sample.value, o - ValueAt(i))
    <3>7. /\ Within(o, TimestampAt(i), 4) => t \in Nat
          /\ Within(o, ValueAt(i), 4) => v \in Nat
      BY <3>4, <3>5, <3>6
    <3>8. pad \in Nat
      BY <1>1
    <3> HIDE DEF t, v, data
    <3>9. \/ data[o] = ChannelNumber[sample.channel]
          \/ Within(o, TimestampAt(i), 4) /\ data[o] = t
          \/ Within(o, ValueAt(i), 4) /\ data[o] = v
          \/ data[o] = 0
          \/ data[o] = pad
      BY <3>3 DEF SampleByte, t, v
    <3> QED  BY <3>4, <3>7, <3>8, <3>9
  <2> QED  BY <1>1, <1>2, <2>1, <2>2
<1> QED  BY <1>4, <1>5

-----------------------------------------------------------------------------
(* The host's packet.                                                      *)

\* The host takes a full packet for one, with its number and all its samples.
LEMMA HostTakesPacket ==
    ASSUME NEW pkt, IsPacket(pkt), Len(pkt.samples) = SAMPLES_PER_PACKET,
           NEW pad \in Padding
    PROVE  LET p == FromBytes(AsBytes(pkt, pad)) IN
           /\ p # NoPacket
           /\ p.seq = pkt.seq
           /\ Len(p.samples) = SAMPLES_PER_PACKET
<1> DEFINE data == AsBytes(pkt, pad)
           p == FromBytes(data)
           samples == [i \in 1..SAMPLES_PER_PACKET |->
                         SampleFromBytes(data, HeaderSize + (i - 1) * SAMPLE_SIZE)]
<1>1. pad \in 0..ByteRange-1
  BY LayoutAssumption
<1>2. /\ \A o \in 0..PacketLen-1 : data[o] \in Nat
      /\ U16(data, 0) = MAGIC
      /\ U16(data, 2) = pkt.seq
      /\ U16(data, 4) = SAMPLES_PER_PACKET
  BY <1>1, PacketBytes DEF SeqAt, CountAt
<1> HIDE DEF data
<1>3. SAMPLES_PER_PACKET \in Nat /\ PacketLen = 8 + 16 * SAMPLES_PER_PACKET
  BY PacketSizeAssumption DEF PacketLen, SampleAt
<1>4. p = [seq |-> pkt.seq, samples |-> samples]
  BY <1>2, <1>3 DEF FromBytes, MAX_SAMPLES
<1> HIDE DEF p
<1>5. ASSUME NEW i \in 1..SAMPLES_PER_PACKET
      PROVE  SampleFromBytes(data, HeaderSize + (i - 1) * SAMPLE_SIZE) \in HostSample
  <2> DEFINE start == HeaderSize + (i - 1) * SAMPLE_SIZE
  <2>1. start \in 0..PacketLen-10
    BY <1>3 DEF HeaderSize, SAMPLE_SIZE
  <2> HIDE DEF start
  <2>2. ASSUME NEW o \in 0..PacketLen-4  PROVE U32(data, o) \in Nat
    <3>1. /\ data[o] \in Nat /\ data[o + 1] \in Nat
          /\ data[o + 2] \in Nat /\ data[o + 2 + 1] \in Nat
      BY <1>2, <1>3
    <3>2. ByteRange \in Nat
      BY LayoutAssumption
    <3>3. \A a, b \in Nat : a + ByteRange * b \in Nat /\ a + ByteRange * ByteRange * b \in Nat
      BY <3>2, WeightedSum
    <3>4. U16(data, o) \in Nat /\ U16(data, o + 2) \in Nat
      BY <3>1, <3>3, Zenon DEF U16
    <3> QED  BY <3>3, <3>4, Zenon DEF U32
  <2>3. data[start] \in Nat /\ U32(data, start + 1) \in Nat /\ U32(data, start + 5) \in Nat
    BY <1>2, <1>3, <2>1, <2>2
  <2> QED  BY <2>3 DEF SampleFromBytes, HostSample, start
<1>6. samples \in Seq(HostSample) /\ Len(samples) = SAMPLES_PER_PACKET
  <2>1. samples \in [1..SAMPLES_PER_PACKET -> HostSample]
    BY <1>5
  <2> QED  BY <1>3, <2>1
<1> HIDE DEF samples
<1>7. pkt.seq \in Nat
  BY AdcAssumption DEF IsPacket
<1>8. p # NoPacket
  BY <1>4, <1>6, <1>7, HostNoPacketAssumption
<1> QED  BY <1>4, <1>6, <1>8 DEF p, data

\* Only full packets are written.
FullOnWire ==
    wire # NoPacket => IsPacket(wire) /\ Len(wire.samples) = SAMPLES_PER_PACKET

\* A packet becomes the last one written when its write ends, and it was full
\* when its write began.
LEMMA FullStep == TypeInv /\ FullOnWire /\ [Next]_vars => FullOnWire'
<1> SUFFICES ASSUME TypeInv, FullOnWire, [Next]_vars  PROVE FullOnWire'
  OBVIOUS
<1>1. CASE UNCHANGED wire
  BY <1>1 DEF FullOnWire
<1>2. CASE wire' = packet /\ pc = "write"
  BY <1>2 DEF FullOnWire, TypeInv, TypeOK, PacketShape
<1> QED  BY <1>1, <1>2
         DEF Next, TaskStep, Tick, ReadErr, ReadZero, Process, WriteDone, NotOnWire,
             vars

\* The two layouts agree on the header: the host takes every packet that the
\* task writes for one, full, and with the number that counts the losses
\* before it, whatever the padding holds.
THEOREM LayoutsAgreeOnHeader == Spec => []HeaderAgrees
<1>1. Init => TypeInv /\ SeqGapIsLoss /\ FullOnWire
  BY TypeInit DEF Init, SeqGapIsLoss, FullOnWire
<1>2. TypeInv /\ SeqGapIsLoss /\ FullOnWire /\ [Next]_vars
        => (TypeInv /\ SeqGapIsLoss /\ FullOnWire)'
  BY TypeStep, GapStep, FullStep
<1>3. TypeInv /\ SeqGapIsLoss /\ FullOnWire => HeaderAgrees
  <2> SUFFICES ASSUME SeqGapIsLoss, FullOnWire, wire # NoPacket, NEW pad \in Padding
               PROVE  LET p == FromBytes(AsBytes(wire, pad)) IN
                      /\ p # NoPacket
                      /\ seq = (p.seq + 1 + gap) % SeqRange
                      /\ Len(p.samples) = SAMPLES_PER_PACKET
    BY DEF HeaderAgrees, Received
  <2>1. IsPacket(wire) /\ Len(wire.samples) = SAMPLES_PER_PACKET
    BY DEF FullOnWire
  <2>2. seq = (wire.seq + 1 + gap) % SeqRange
    BY DEF SeqGapIsLoss
  <2> QED  BY <2>1, <2>2, HostTakesPacket
<1> QED  BY <1>1, <1>2, <1>3, PTL DEF Spec
=============================================================================
