----------------------------- MODULE HostClient -----------------------------
(***************************************************************************)
(* The host's client (host/daq_client.py) and the serial line it reads.    *)
(*                                                                         *)
(* The line carries packets as runs of WireLen cells.  A cell stands for a *)
(* few bytes, of which the client's parser tells three kinds apart: bytes  *)
(* that read as a packet header with 1 to 32 samples, as a header with no  *)
(* samples, or as no header at all.  A packet starts with a header; since  *)
(* the payload is not escaped, cells inside it may look like one, too.     *)
(***************************************************************************)
EXTENDS Integers, Sequences, FiniteSets, FiniteSetsExt

CONSTANTS
    WireLen,     \* cells in a packet as the firmware sends it (520 bytes)
    HostLen,     \* cells in a packet as the client parses it (326 bytes)
    SeqRange,    \* 2^16: seq is a u16
    Looks,       \* what payload may look like: within {"data", "header", "empty"}
    Lossy,       \* whether the line or the OS may lose bytes
    Resets,      \* whether the board may be reset
    MaxErrors,   \* 5: errors that run() survives
    RxLen,       \* bound: cells the OS buffers before the line has to wait
    MaxPackets,  \* bound: packets the firmware sends
    Nothing      \* no packet returned yet

ASSUME HostAssumption ==
    /\ WireLen \in Nat \ {0} /\ HostLen \in Nat \ {0}
    /\ SeqRange \in Nat \ {0}
    /\ Looks \subseteq {"data", "header", "empty"}
    /\ Lossy \in BOOLEAN /\ Resets \in BOOLEAN
    /\ MaxErrors \in Nat /\ RxLen \in Nat /\ MaxPackets \in Nat
    /\ Nothing \notin [first : [id : Nat, at : Nat, seq : Nat, era : Nat], whole : BOOLEAN]

VARIABLES
    pc,           \* "start", "waiting", "spinning", "gave_up" or "closed"
    rx,           \* cells received by the OS and not read by the client
    buffer,       \* wait_for_packet's local buffer
    overdue,      \* whether max_wait has passed since wait_for_packet began
    last_seq,
    error_count,
    nextCell,     \* the next cell the firmware sends: its packet, its place in it,
                  \* the packet's seq, and how often the numbers have begun anew
    \* History variables, which no action's guard reads:
    got,          \* the packet returned last: its first cell, and if the
                  \* others are the next ones of the same packet
    missed,       \* how many packets were sent between the last two returned
    warned,       \* whether the last packet returned raised the loss warning
    renumbered,   \* whether the numbers began anew between the last two returned
    thrownAway,   \* packets whose header was dropped unparsed: flushed on
                  \* connecting, or with a buffer
    damaged,      \* packets that lost a cell, or were cut by a reset
    misleading    \* whether payload has looked like a header so far

returned == <<got, missed, warned, renumbered>>

hist == <<returned, thrownAway, damaged, misleading>>

vars == <<pc, rx, buffer, overdue, last_seq, error_count, nextCell, hist>>

-----------------------------------------------------------------------------
(* The line.                                                               *)

Init ==
    /\ pc = "start"
    /\ rx = <<>>
    /\ buffer = <<>>
    /\ overdue = FALSE
    /\ last_seq = -1
    /\ error_count = 0
    /\ nextCell = [id |-> 0, at |-> 1, seq |-> 0, era |-> 0]
    /\ got = Nothing
    /\ missed = 0
    /\ warned = FALSE
    /\ renumbered = FALSE
    /\ thrownAway = {}
    /\ damaged = {}
    /\ misleading = FALSE

\* The first cell of the packet after c's, if its number is seq.
PacketAfter(c, seq) ==
    [id |-> c.id + 1, at |-> 1, seq |-> seq, era |-> IF seq = 0 THEN c.era + 1 ELSE c.era]

CellAfter(c) == IF c.at < WireLen THEN [c EXCEPT !.at = @ + 1]
                ELSE PacketAfter(c, (c.seq + 1) % SeqRange)

\* The next cell of the stream reaches the OS, or is lost on its way there.
Arrive(look, lost) ==
    /\ nextCell.id < MaxPackets
    /\ lost \/ Len(rx) < RxLen
    /\ rx' = IF lost THEN rx ELSE Append(rx, [cell |-> nextCell, look |-> look])
    /\ nextCell' = CellAfter(nextCell)
    /\ damaged' = IF lost THEN damaged \union {nextCell.id} ELSE damaged
    /\ misleading' = (misleading \/ (nextCell.at > 1 /\ look # "data"))
    /\ UNCHANGED <<pc, buffer, overdue, last_seq, error_count, returned, thrownAway>>

\* What nextCell may be: a packet's first cell is its header.
LooksOf(c) == IF c.at = 1 THEN {"header"} ELSE Looks

Line == \E look \in LooksOf(nextCell), lost \in {FALSE, Lossy} : Arrive(look, lost)

\* The board is reset, perhaps within a packet, and numbers its packets anew.
Reset ==
    /\ Resets
    /\ nextCell.id < MaxPackets
    /\ nextCell' = PacketAfter(nextCell, 0)
    /\ damaged' = damaged \union {nextCell.id}
    /\ UNCHANGED <<pc, rx, buffer, overdue, last_seq, error_count, returned, thrownAway, misleading>>

-----------------------------------------------------------------------------
(* connect() and wait_for_packet().                                        *)

\* The packets whose header is among some cells.
HeadersIn(cells) ==
    {cells[i].cell.id : i \in {j \in DOMAIN cells : cells[j].cell.at = 1}}

\* A successful connect flushes what the OS has received so far.
Connect(ok) ==
    /\ pc = "start"
    /\ pc' = IF ok THEN "waiting" ELSE "closed"
    /\ rx' = IF ok THEN <<>> ELSE rx
    /\ thrownAway' = IF ok THEN thrownAway \union HeadersIn(rx) ELSE thrownAway
    /\ UNCHANGED <<buffer, overdue, last_seq, error_count, nextCell, returned, damaged, misleading>>

\* Time passes: the wait has lasted max_wait seconds.
Expire ==
    /\ pc \in {"waiting", "spinning"}
    /\ ~overdue
    /\ overdue' = TRUE
    /\ UNCHANGED <<pc, rx, buffer, last_seq, error_count, nextCell, hist>>

\* Mutant: new data is put in front of the old.
Extend_Front(buf, data) == data \o buf

Extend(buf, data) == buf \o data

\* The offsets at which from_bytes succeeds, having a whole packet before it.
Parsed(cells) == {i \in 1..Len(cells) - HostLen + 1 : cells[i].look # "data"}

\* Mutant: an off-by-one in the loop's condition.
Unparsed_OffByOne(cells) ==
    IF Len(cells) <= HostLen THEN cells
    ELSE SubSeq(cells, Len(cells) - HostLen + 1, Len(cells))

\* Mutant: when nothing parses, the whole buffer is deleted.
Unparsed_Cleared(cells) == IF Len(cells) < HostLen THEN cells ELSE <<>>

\* Data that does not parse is deleted from the front, as long as it is long
\* enough for a packet.
Unparsed(cells) ==
    IF Len(cells) < HostLen THEN cells
    ELSE SubSeq(cells, Len(cells) - HostLen + 2, Len(cells))

\* Mutant: the buffer outlives the call, and only a byte of it is deleted.
Leftover_AllButOne(cells, i) == SubSeq(cells, i + 1, Len(cells))

\* The buffer that the call after one that returned the packet at i begins
\* with: the packet is deleted from the buffer, but the buffer is local.
Leftover(cells, i) == <<>>

\* The sequence number the client reads from cell c, which looks like a header.
SeqIn(c) == IF c.at = 1 THEN {c.seq} ELSE 0..SeqRange-1

\* The returned packet: its first cell, and whether all of it is what the
\* firmware sent there.
Window(cells, i) ==
    [first |-> cells[i].cell,
     whole |-> \A k \in 1..HostLen-1 :
                  cells[i + k].cell = [cells[i].cell EXCEPT !.at = @ + k]]

\* Mutant: the comparison is turned round.
Warns_Reversed(s) == s >= last_seq

\* The check of run() for "possible packet loss".
Warns(s) == s <= last_seq

\* run() takes the packet at i, whose sequence number is s.
TakePacket(cells, i, s) ==
    /\ last_seq' = s
    /\ got' = Window(cells, i)
    /\ missed' = IF got = Nothing \/ got'.first.id = got.first.id THEN 0
                 ELSE got'.first.id - got.first.id - 1
    /\ warned' = Warns(s)
    /\ renumbered' = (got # Nothing /\ got'.first.era > got.first.era)
    /\ thrownAway' = thrownAway \union
           (HeadersIn(SubSeq(cells, i + HostLen, Len(cells))) \ HeadersIn(buffer'))
    /\ UNCHANGED <<damaged, misleading>>


DataWaiting == Len(rx) > 0

\* One iteration of the loop: read all there is, then parse.  The first
\* parsable offset ends it: with a packet, which is returned, or, when its
\* header says that it has no samples, in a loop that neither returns nor
\* deletes.
Poll ==
    /\ pc = "waiting" /\ ~overdue
    /\ DataWaiting
    /\ rx' = <<>>
    /\ LET data == Extend(buffer, rx) IN
       \/ /\ Parsed(data) = {}
          /\ buffer' = Unparsed(data)
          /\ UNCHANGED <<pc, overdue, last_seq, hist>>
       \/ /\ Parsed(data) # {}
          /\ LET i == Min(Parsed(data)) IN
             \/ /\ data[i].look = "header"
                /\ buffer' = Leftover(data, i)
                /\ \E s \in SeqIn(data[i].cell) : TakePacket(data, i, s)
                /\ overdue' = FALSE
                /\ UNCHANGED pc
             \/ /\ data[i].look = "empty"
                /\ pc' = "spinning"
                /\ buffer' = SubSeq(data, i, Len(data))
                /\ UNCHANGED <<overdue, last_seq, hist>>
    /\ UNCHANGED <<error_count, nextCell>>

\* wait_for_packet raises: the time is up, or the serial port failed.
WaitFails ==
    /\ error_count' = error_count + 1
    /\ pc' = IF error_count' > MaxErrors THEN "gave_up" ELSE "waiting"
    /\ buffer' = <<>>
    /\ overdue' = FALSE
    /\ thrownAway' = thrownAway \union HeadersIn(buffer)
    /\ UNCHANGED <<rx, last_seq, nextCell, returned, damaged, misleading>>

TimedOut == pc = "waiting" /\ overdue /\ WaitFails

SerialError == pc = "waiting" /\ ~overdue /\ WaitFails

\* Ctrl+C ends run() wherever it is, the parse loop included.
Interrupt ==
    /\ pc \in {"waiting", "spinning"}
    /\ pc' = "closed"
    /\ UNCHANGED <<rx, buffer, overdue, last_seq, error_count, nextCell, hist>>

Next ==
    \/ Line
    \/ Reset
    \/ \E ok \in BOOLEAN : Connect(ok)
    \/ Expire
    \/ Poll
    \/ TimedOut
    \/ SerialError
    \/ Interrupt

Spec == Init /\ [][Next]_vars

\* The client's process keeps running its loop: it reads what has come in, and
\* raises when the time is up.  Nothing obliges the user or the line.
FairSpec == Spec /\ WF_vars(Poll) /\ WF_vars(TimedOut)

-----------------------------------------------------------------------------
(* Properties.                                                             *)

Position(c) == c.id * WireLen + c.at

Cell == [id : 0..MaxPackets, at : 1..WireLen, seq : 0..SeqRange-1, era : 0..MaxPackets]

\* The types of the client's state.  Between two iterations the buffer holds
\* less than one packet, however much came in: what cannot be the start of a
\* packet any more is deleted.
TypeOK ==
    /\ pc \in {"start", "waiting", "spinning", "gave_up", "closed"}
    /\ \A q \in {rx, buffer} : q \in Seq([cell : Cell, look : {"data", "header", "empty"}])
    /\ Len(rx) <= RxLen
    /\ pc = "waiting" => Len(buffer) < HostLen
    /\ overdue \in BOOLEAN
    /\ last_seq \in -1..SeqRange-1
    /\ error_count \in 0..MaxErrors+1
    /\ nextCell \in Cell
    /\ got = Nothing \/ got \in [first : Cell, whole : BOOLEAN]
    /\ missed \in 0..MaxPackets
    /\ warned \in BOOLEAN /\ renumbered \in BOOLEAN
    /\ thrownAway \subseteq 0..MaxPackets
    /\ damaged \subseteq 0..MaxPackets
    /\ misleading \in BOOLEAN

\* Whatever the line loses, and whatever the payload looks like, the packets
\* that the client returns start ever further on in the stream, each behind
\* the whole of the one before: nothing is returned twice, or out of order.
InStreamOrder ==
    [][got' # got /\ got # Nothing
        => Position(got'.first) >= Position(got.first) + HostLen]_got

\* While no payload has looked like a header, what the client returns starts
\* where a packet starts, and is that packet unless it was damaged: it finds
\* the packets again behind every loss and every reset, also when it connects
\* in the middle of one or reads a packet in pieces.
ReturnsWholePackets ==
    got # Nothing /\ ~misleading
        => got.first.at = 1 /\ (got.first.id \notin damaged => got.whole)

\* A packet missed between two returned ones is damaged; or it comes behind a
\* damaged one, which was returned with the header of this one in it; or the
\* client had read its header and dropped it, together with its buffer.
MissedAreAccountedFor ==
    got # Nothing /\ ~misleading =>
        \A id \in got.first.id - missed .. got.first.id - 1 :
            {id, id - 1} \intersect damaged # {} \/ id \in thrownAway

\* The warning of "possible packet loss" is no sign of a loss: it comes only
\* when the numbers have begun anew since the packet before, by a wrap or a
\* reset of the board.
WarnsOfRenumbering == ~misleading /\ warned => renumbered

\* The packets of which as much has been sent as the client parses, without
\* damage to them or to the one before (which would be returned with the next
\* header in it), and whose header the client still has to look at.
Pending ==
    {id \in 0..MaxPackets-1 :
        /\ nextCell.id > id \/ (nextCell.id = id /\ nextCell.at > HostLen)
        /\ {id, id - 1} \intersect damaged = {}
        /\ id \notin thrownAway
        /\ got = Nothing \/ got.first.id < id}


\* A call that has used up its max_wait ends.
DeadlineHolds == overdue ~> (~overdue \/ pc = "closed")
=============================================================================
