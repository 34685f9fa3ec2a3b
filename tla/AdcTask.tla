------------------------------ MODULE AdcTask -------------------------------
(***************************************************************************)
(* The acquisition task (firmware/src/analog.rs), which owns the USART2    *)
(* transport (firmware/src/transport.rs), with the two pieces of hardware  *)
(* that run while it is suspended: the ADC's DMA, which fills a ring       *)
(* buffer, and the USART's DMA, which drains the packet being written.     *)
(*                                                                         *)
(* Between two awaits nothing else of the firmware runs, so a step of the  *)
(* task is everything from the return of one await to the next suspension. *)
(* Time is counted in Ticks: the DMA stores one sample per Tick, whatever  *)
(* that is in seconds.                                                     *)
(***************************************************************************)
EXTENDS SamplePacket, Integers

CONSTANTS
    SeqRange,      \* 2^16: seq is a u16
    TimeRange,     \* 2^32: timestamp_us is a u32
    RingLen,       \* 4096: samples in ADC_BUF
    MeasLen,       \* 2048: samples in measurements, what one read takes
    ReadLens,      \* the lengths ring.read may report
    Means,         \* the mean counts a channel may show in one read
    WriteTicks,    \* the longest write of one packet by the USART
    PollTicks,     \* the longest a woken task waits for the executor
    StreamEnabled, \* whether set_enabled(true) was called on the transport
    NoPacket

\* The ADC converts to 12 bits.
AdcFullScale == 4095

ASSUME AdcAssumption ==
    /\ SeqRange \in Nat \ {0}
    /\ TimeRange \in Nat \ {0}
    /\ MeasLen \in Nat \ {0}
    /\ RingLen \in Nat /\ RingLen >= MeasLen
    /\ ReadLens \subseteq Nat
    /\ Means \subseteq 0..AdcFullScale
    /\ WriteTicks \in Nat
    /\ PollTicks \in Nat
    /\ StreamEnabled \in BOOLEAN

VARIABLES
    pc,             \* the await the task is suspended at: "read" or "write"
    sampler,        \* AnalogSampler: the last mean of each channel, in mV
    packet,         \* the packet being filled, or written
    seq,            \* its sequence number
    last_timestamp, \* the timestamp of the next reading
    count,          \* the length of the last read, live across the write
    unread,         \* samples in the ring not read yet; RingLen + 1 if lapped
    age,            \* Ticks since the task was woken, or its write started
    wire,           \* the last packet the USART finished sending
    \* History variables, which no action's guard reads:
    captured_us,    \* the samples the DMA has stored, at 100 us each
    behind_us,      \* those that no read reported, at 100 us each
    gap,            \* packets finished since wire that did not become wire
    solo,           \* the packet holds a reading of one channel only
    dropped         \* the valid values of this packet that push() ignored

taskVars == <<pc, sampler, packet, seq, last_timestamp, count>>
dmaVars  == <<unread, age, captured_us, behind_us>>
histVars == <<gap, solo, dropped>>
vars     == <<taskVars, dmaVars, wire, histVars>>

-----------------------------------------------------------------------------
(* The data path of one reading.                                           *)

UsPerSample == 100

Channels == {"Analog0", "Analog1"}

CountsToMv(counts) == (counts * 3300) \div AdcFullScale

\* The largest value the filter takes: it is that of 16 bits, though a
\* sample's value has 32.
MvMax == 65535

\* Mutant: the filter forgets the zero that means "no reading".
IsNan_KeepsZero(mv) == mv > MvMax

IsNan(mv) == mv = 0 \/ mv > MvMax

NewSampler == [pa0_mv |-> 0, pa1_mv |-> 0]

\* What is taken for the mean of the k samples of a channel that read c
\* each: both channels divide by half the count.
MeanOf(c, k, n) == (c * k) \div (n \div 2)

\* Mutant: the early return is inverted.
UpdateAnalog_Inverted(s, n, c0, c1) ==
    IF n >= 2 THEN s ELSE [pa0_mv |-> CountsToMv(c0), pa1_mv |-> CountsToMv(c1)]

\* Mutant: the channels' places in the interleaved samples are swapped.
UpdateAnalog_Swapped(s, n, c0, c1) ==
    IF n < 2 THEN s
    ELSE [pa0_mv |-> CountsToMv(MeanOf(c1, n \div 2, n)),
          pa1_mv |-> CountsToMv(MeanOf(c0, n - n \div 2, n))]

\* A read of fewer than two samples leaves the previous means in place.  The
\* first channel has the odd sample of an odd count.  Its samples' level, and
\* the other channel's, are inputs (c0 and c1).
UpdateAnalog(s, n, c0, c1) ==
    IF n < 2 THEN s
    ELSE [pa0_mv |-> CountsToMv(MeanOf(c0, n - n \div 2, n)),
          pa1_mv |-> CountsToMv(MeanOf(c1, n \div 2, n))]

PushValue(pkt, channel, timestamp, mv) ==
    IF IsNan(mv) THEN pkt
    ELSE Push(pkt, [channel |-> channel, timestamp_us |-> timestamp, value |-> mv])

PushReading(pkt, timestamp, s) ==
    PushValue(PushValue(pkt, "Analog0", timestamp, s.pa0_mv),
              "Analog1", timestamp, s.pa1_mv)

ValidValues(s) ==
    (IF IsNan(s.pa0_mv) THEN 0 ELSE 1) + (IF IsNan(s.pa1_mv) THEN 0 ELSE 1)

-----------------------------------------------------------------------------
Init ==
    /\ pc = "read"
    /\ sampler = NewSampler
    /\ packet = NewPacket
    /\ seq = 0
    /\ last_timestamp = 0
    /\ count = 0
    /\ unread = 0
    /\ age = 0
    /\ wire = NoPacket
    /\ captured_us = 0
    /\ behind_us = 0
    /\ gap = 0
    /\ solo = FALSE
    /\ dropped = 0

Lapped == unread > RingLen

LoseTime(samples) ==
    behind_us' = (behind_us + samples * UsPerSample) % TimeRange

\* Mutant: the read waits for the whole ring instead of half of it.
Readable_WholeRing == pc = "read" /\ unread >= RingLen

Readable == pc = "read" /\ unread >= MeasLen

\* The longest the task can stay in the await it is in, once that is over.
Deadline == IF pc = "read" THEN PollTicks ELSE WriteTicks + PollTicks

\* The ADC's DMA stores one more sample, whatever the task is doing.  It
\* overwrites the oldest unread one when the ring is full.
Tick ==
    /\ pc = "write" \/ Readable => age < Deadline
    /\ unread' = IF Lapped THEN unread ELSE unread + 1
    /\ age' = IF pc = "write" \/ Readable THEN age + 1 ELSE 0
    /\ captured_us' = (captured_us + UsPerSample) % TimeRange
    /\ LoseTime(IF Lapped THEN 1 ELSE 0)
    /\ UNCHANGED <<taskVars, wire, histVars>>

\* ring.read reports an overrun: the driver discards the ring's content and
\* the loop continues without touching packet or timestamp.
ReadErr ==
    /\ Readable /\ Lapped
    /\ unread' = 0 /\ age' = 0
    /\ LoseTime(unread)
    /\ UNCHANGED <<taskVars, captured_us, wire, histVars>>

\* ring.read returns: what it takes and does not report is lost.
TakeFromRing(reported) ==
    /\ Readable /\ ~Lapped
    /\ unread' = unread - MeasLen
    /\ age' = 0
    /\ LoseTime(MeasLen - reported)
    /\ UNCHANGED captured_us

ReadZero ==
    /\ 0 \in ReadLens
    /\ TakeFromRing(0)
    /\ UNCHANGED <<taskVars, wire, histVars>>

\* Mutant: the packet just sent is not replaced by an empty one.
NextPacket_Reused ==
    /\ seq' = (seq + 1) % SeqRange
    /\ solo' = FALSE
    /\ dropped' = 0
    /\ UNCHANGED packet

\* The end of the loop body that finished a packet, sent or not.
NextPacket ==
    /\ packet' = NewPacket
    /\ seq' = (seq + 1) % SeqRange
    /\ solo' = FALSE
    /\ dropped' = 0

NotOnWire == gap' = (gap + 1) % SeqRange /\ UNCHANGED wire

\* Mutant: the clock advances by samples per channel, not by samples.
Advance_PerChannel(n) ==
    last_timestamp' = (last_timestamp + (n \div 2) * UsPerSample) % TimeRange

Advance(n) == last_timestamp' = (last_timestamp + n * UsPerSample) % TimeRange

\* The reading's values enter packet p, which is not full before.
NoteReading(p) ==
    /\ solo' = (solo \/ ValidValues(sampler') = 1)
    /\ dropped' = dropped + ValidValues(sampler') - (Len(p.samples) - Len(packet.samples))

\* A read of n > 0 samples, its reading pushed into the packet, and, when
\* that fills the packet, the start of its transmission.  A transport that is
\* not enabled returns at once, without sending.
Process(n, c0, c1) ==
    /\ n > 0
    /\ count' = IF n < MeasLen THEN n ELSE MeasLen
    /\ TakeFromRing(count')
    /\ sampler' = UpdateAnalog(sampler, count', c0, c1)
    /\ LET p == PushReading(packet, last_timestamp, sampler') IN
       \/ /\ ~IsFull(p)
          /\ packet' = p
          /\ Advance(count')
          /\ NoteReading(p)
          /\ UNCHANGED <<pc, seq, wire, gap>>
       \/ /\ IsFull(p) /\ StreamEnabled
          /\ packet' = Finalize(p, seq)
          /\ pc' = "write"
          /\ NoteReading(p)
          /\ UNCHANGED <<seq, last_timestamp, wire, gap>>
       \/ /\ IsFull(p) /\ ~StreamEnabled
          /\ Advance(count')
          /\ NextPacket
          /\ NotOnWire
          /\ UNCHANGED pc

\* The USART's write ends; the task ignores whether it failed.
WriteDone(ok) ==
    /\ pc = "write"
    /\ pc' = "read"
    /\ IF ok THEN wire' = packet /\ gap' = 0 ELSE NotOnWire
    /\ NextPacket
    /\ Advance(count)
    /\ age' = 0
    /\ UNCHANGED <<sampler, count, unread, captured_us, behind_us>>

TaskStep ==
    \/ ReadErr
    \/ ReadZero
    \/ \E n \in ReadLens, c0, c1 \in Means : Process(n, c0, c1)
    \/ \E ok \in BOOLEAN : WriteDone(ok)

Next == Tick \/ TaskStep

Spec == Init /\ [][Next]_vars

\* The ADC converts without end, the executor polls every woken task and the
\* USART ends every write, well or not.
FairSpec == Spec /\ WF_vars(Tick) /\ WF_vars(TaskStep)

-----------------------------------------------------------------------------
(* Properties.                                                             *)

Sample ==
    [channel : Channels, timestamp_us : 0..TimeRange-1, value : 1..MvMax]

\* The placeholder for "nothing sent yet" is not a packet.
ASSUME NoPacketAssumption ==
    NoPacket \notin [seq : 0..SeqRange-1, samples : Seq(Sample)]

IsPacket(p) ==
    /\ p = [seq |-> p.seq, samples |-> p.samples]
    /\ p.seq \in 0..SeqRange-1
    /\ p.samples \in Seq(Sample)
    /\ Len(p.samples) <= SAMPLES_PER_PACKET

\* The types of the task's state; in particular a sample's value is a
\* non-zero u16 (the filter isnan lets no other through), also after a read
\* that left the initial means in place.
TypeOK ==
    /\ pc \in {"read", "write"}
    /\ sampler \in [pa0_mv : Nat, pa1_mv : Nat]
    /\ IsPacket(packet)
    /\ seq \in 0..SeqRange-1
    /\ last_timestamp \in 0..TimeRange-1
    /\ count \in 0..MeasLen
    /\ unread \in 0..RingLen+1
    /\ age \in 0..WriteTicks+PollTicks
    /\ wire = NoPacket \/ IsPacket(wire)
    /\ captured_us \in 0..TimeRange-1
    /\ behind_us \in 0..TimeRange-1
    /\ gap \in 0..SeqRange-1
    /\ solo \in BOOLEAN
    /\ dropped \in 0..2

\* The rates at which the two DMAs fit together: one packet's write and two
\* scheduling delays pass before half the ring fills up again.  At the 10 kHz
\* the README of the repository names they do; the ADC of analog.rs has no
\* trigger and converts as fast as it can.
TimingOK ==
    /\ WriteTicks + 2 * PollTicks <= MeasLen
    /\ MeasLen + PollTicks <= RingLen

\* Under TimingOK the ADC's DMA never laps the task, although the task does
\* not read the ring while it awaits the USART.
NoOverrun == ~Lapped

\* A value is lost inside the task only if it is the Analog1 half of a
\* reading whose Analog0 half is the packet's last sample, and only in a
\* packet that holds a reading of a single channel (the other one was 0 mV):
\* push() ignores a second value for a packet with one place left.
DropsOnlySplitPairs ==
    dropped > 0 =>
        /\ pc = "write"
        /\ dropped = 1
        /\ solo
        /\ packet.samples[SAMPLES_PER_PACKET].channel = "Analog0"

\* The sequence numbers on the wire skip exactly the packets that were
\* finished and not transmitted, so that a receiver can count its losses
\* (as long as there are fewer than 2^16 of them in a row).
SeqGapIsLoss ==
    IF wire = NoPacket THEN seq = gap
    ELSE seq = (wire.seq + 1 + gap) % SeqRange

\* The task's clock lags behind the ADC by exactly the samples that no read
\* reported, for ever, and by nothing else: what is stamped, in flight, unread,
\* discarded by overruns and left out of reads accounts for every sample
\* stored, however late the task got to it.
ClockLagIsDiscards ==
    LET inFlight == IF pc = "write" THEN count ELSE 0 IN
    captured_us =
        (last_timestamp + (inFlight + unread) * UsPerSample + behind_us) % TimeRange

\* A value above the inputs' full scale comes from the first channel, and
\* from a read of an odd number of samples, whose mean counts one sample too
\* many; the second channel never shows one.
OverRangeOnlyOddReads ==
    /\ sampler.pa1_mv <= 3300
    /\ sampler.pa0_mv > 3300 => count % 2 = 1 /\ sampler.pa0_mv <= 2 * 3300

\* The task implements the abstract packet stream.
Stream == INSTANCE SampleStream
    WITH Size <- SAMPLES_PER_PACKET,
         pending <- packet.samples, next <- seq, out <- wire
ImplementsStream == Stream!StreamSpec

\* While both inputs show a voltage, packets keep being written.
PacketsKeepFlowing == []<>(pc = "write")
=============================================================================
