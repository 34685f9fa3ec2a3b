---------------------------- MODULE SamplePacket ----------------------------
(***************************************************************************)
(* The packet type of shared/src/lib.rs: what the acquisition task fills,  *)
(* the transport writes and the host parses.  The fixed array and its      *)
(* count are one sequence, whose length is the count; the constant magic   *)
(* and the always-zero flags are left out.                                 *)
(***************************************************************************)
EXTENDS Naturals, Sequences

CONSTANT SAMPLES_PER_PACKET     \* 32 in the code

ASSUME PacketSizeAssumption == SAMPLES_PER_PACKET \in Nat \ {0}

NewPacket == [seq |-> 0, samples |-> <<>>]

\* A push beyond the capacity is silently ignored.
Push(pkt, sample) ==
    IF Len(pkt.samples) < SAMPLES_PER_PACKET
    THEN [pkt EXCEPT !.samples = Append(@, sample)]
    ELSE pkt

\* Mutant: an off-by-one in the capacity test.
IsFull_OffByOne(pkt) == Len(pkt.samples) > SAMPLES_PER_PACKET

IsFull(pkt) == Len(pkt.samples) >= SAMPLES_PER_PACKET

\* Mutant: the header keeps the sequence number the packet was created with.
Finalize_KeepsSeq(pkt, seq) == [pkt EXCEPT !.seq = @]

Finalize(pkt, seq) == [pkt EXCEPT !.seq = seq]
=============================================================================
