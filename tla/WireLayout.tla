----------------------------- MODULE WireLayout -----------------------------
(***************************************************************************)
(* What the bytes of a packet mean at the two ends of the serial line: the *)
(* acquisition task sends the memory of a repr(C) struct, padding included *)
(* (shared/src/lib.rs); the host unpacks little-endian fields that follow  *)
(* one another without gaps (host/daq_client.py).  That the host finds a   *)
(* packet's first byte is HostClient's subject.                            *)
(***************************************************************************)
EXTENDS AdcTask

CONSTANTS
    ByteRange,   \* 256: a word is written in digits of this base
    MAGIC,       \* 0xDA71
    Padding      \* what the bytes of the padding may happen to hold

\* The header's three fields are words of two bytes.
ASSUME LayoutAssumption ==
    /\ ByteRange \in Nat \ {0}
    /\ MAGIC \in 0..ByteRange*ByteRange-1
    /\ SeqRange <= ByteRange * ByteRange
    /\ SAMPLES_PER_PACKET < ByteRange * ByteRange
    /\ Padding \subseteq 0..ByteRange-1

\* A sample as the host keeps it, its channel a number.
HostSample == [channel : Nat, timestamp_us : Nat, value : Nat]

\* Where the parser returns None, it does not return a packet.
ASSUME HostNoPacketAssumption == NoPacket \notin [seq : Nat, samples : Seq(HostSample)]

-----------------------------------------------------------------------------
(* The firmware's side.                                                    *)

ChannelNumber == [Analog0 |-> 0, Analog1 |-> 1]

\* What the bytes of a word count for, from the first to the fourth.
Weights == <<1, ByteRange, ByteRange * ByteRange, ByteRange * ByteRange * ByteRange>>

\* The k-th byte of the little-endian word n, from 0.
ByteOf(n, k) == (n \div Weights[k + 1]) % ByteRange

\* Offsets of the fields.  The samples hold 32-bit words, so that they and
\* the words in them start at multiples of four.
SeqAt   == 2
CountAt == 4
SampleAt(i)    == 8 + 16 * (i - 1)
TimestampAt(i) == SampleAt(i) + 4
ValueAt(i)     == SampleAt(i) + 8
FlagsAt(i)     == SampleAt(i) + 12
PacketLen      == SampleAt(SAMPLES_PER_PACKET + 1)

\* The bytes from offset at of a word of n bytes.
Within(o, at, n) == o \in at..at+n-1

\* Byte o of sample number i of the packet, when the padding holds pad.
SampleByte(i, sample, pad, o) ==
    CASE o = SampleAt(i)             -> ChannelNumber[sample.channel]
      [] Within(o, TimestampAt(i), 4) -> ByteOf(sample.timestamp_us, o - TimestampAt(i))
      [] Within(o, ValueAt(i), 4)     -> ByteOf(sample.value, o - ValueAt(i))
      [] o = FlagsAt(i)              -> 0
      [] OTHER                       -> pad

\* The memory of a full packet.
AsBytes(pkt, pad) ==
    [o \in 0..PacketLen-1 |->
        CASE Within(o, 0, 2)       -> ByteOf(MAGIC, o)
          [] Within(o, SeqAt, 2)   -> ByteOf(pkt.seq, o - SeqAt)
          [] Within(o, CountAt, 2) -> ByteOf(Len(pkt.samples), o - CountAt)
          [] Within(o, 6, 2)       -> pad
          [] OTHER -> LET i == 1 + (o - SampleAt(1)) \div 16 IN
                      SampleByte(i, pkt.samples[i], pad, o)]

-----------------------------------------------------------------------------
(* The host's side.                                                        *)

MAX_SAMPLES == SAMPLES_PER_PACKET
SAMPLE_SIZE == 10
HeaderSize  == 6

\* Mutant: the fields are unpacked as big-endian.
U16_BigEndian(data, o) == ByteRange * data[o] + data[o + 1]

U16(data, o) == data[o] + ByteRange * data[o + 1]
U32(data, o) == U16(data, o) + ByteRange * ByteRange * U16(data, o + 2)

SampleFromBytes(data, start) ==
    [channel      |-> data[start],
     timestamp_us |-> U32(data, start + 1),
     value        |-> U32(data, start + 5)]

\* Sample.from_bytes is called on successive chunks of ten bytes; a header
\* that is not one, or that claims too much, makes no packet.
FromBytes(data) ==
    LET claimed == U16(data, 4) IN
    IF U16(data, 0) # MAGIC \/ claimed > MAX_SAMPLES THEN NoPacket
    ELSE [seq     |-> U16(data, 2),
          samples |-> [i \in 1..claimed |->
                         SampleFromBytes(data, HeaderSize + (i - 1) * SAMPLE_SIZE)]]

\* What the host may make of the packet last written.
Received == {FromBytes(AsBytes(wire, pad)) : pad \in Padding}

-----------------------------------------------------------------------------
(* Properties.                                                             *)

\* The host takes every packet that the task writes for one, full, and with
\* the number that counts the losses before it: the two layouts agree on the
\* header, whatever the padding holds.
HeaderAgrees ==
    wire # NoPacket =>
        \A p \in Received :
            /\ p # NoPacket
            /\ seq = (p.seq + 1 + gap) % SeqRange
            /\ Len(p.samples) = SAMPLES_PER_PACKET

\* The samples the host shows are the samples that were sent.
SamplesAgree ==
    wire # NoPacket =>
        \A p \in Received :
            p.samples = [i \in 1..Len(wire.samples) |->
                           [wire.samples[i] EXCEPT !.channel = ChannelNumber[@]]]
=============================================================================
