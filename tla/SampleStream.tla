---------------------------- MODULE SampleStream ----------------------------
(***************************************************************************)
(* What the acquisition side promises to whoever listens on the wire:      *)
(* samples leave in the order they were accepted, exactly Size per packet, *)
(* each in one packet only, and consecutive packets carry consecutive      *)
(* sequence numbers.  A packet may be lost as a whole, and then its number *)
(* is used up; part of a packet is never lost, repeated or reordered.      *)
(***************************************************************************)
EXTENDS Naturals, Sequences, SequencesExt

CONSTANTS Size,      \* samples in a packet
          SeqRange,  \* number of distinct sequence numbers
          NoPacket   \* no packet has reached the wire yet

VARIABLES pending,   \* accepted samples that are in no finished packet
          next,      \* the sequence number of the packet being filled
          out        \* the last packet put on the wire

streamVars == <<pending, next, out>>

StreamInit == pending = <<>> /\ next = 0 /\ out = NoPacket

Accept ==
    /\ IsStrictPrefix(pending, pending')
    /\ Len(pending') <= Size
    /\ UNCHANGED <<next, out>>

FinishPacket ==
    /\ pending' = <<>>
    /\ next' = (next + 1) % SeqRange

Emit ==
    /\ Len(pending) = Size
    /\ out' = [seq |-> next, samples |-> pending]
    /\ FinishPacket

\* A whole packet is lost: one that is full, or that the reading just taken
\* (at most one sample of each of the two channels) completes.
Lose ==
    /\ Len(pending) + 2 >= Size
    /\ UNCHANGED out
    /\ FinishPacket

StreamNext == Accept \/ Emit \/ Lose

StreamSpec == StreamInit /\ [][StreamNext]_streamVars
=============================================================================
