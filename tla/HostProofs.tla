---------------------------- MODULE HostProofs ----------------------------
(***************************************************************************)
(* What TLAPS proves of the host's client, for every packet length, line,  *)
(* payload and bound.                                                      *)
(***************************************************************************)
EXTENDS HostClient, ModArith, SequenceTheorems, WellFoundedInduction, TLAPS

-----------------------------------------------------------------------------
(* Cells in the order of the stream.                                       *)

AnyCell == [id : Nat, at : 1..WireLen, seq : 0..SeqRange-1, era : Nat]

\* Cell d comes at least k cells behind c: it is of the same packet or of a
\* later one, which has a larger number unless numbers have begun anew.
Later(c, d, k) ==
    /\ Position(d) >= Position(c) + k
    /\ c.id <= d.id /\ c.era <= d.era
    /\ c.id < d.id /\ c.era = d.era => c.seq < d.seq
    /\ c.id = d.id => c.seq = d.seq /\ c.era = d.era

\* It comes exactly k cells behind, as far as c's packet goes, unless that
\* packet is damaged.
Follows(dam, c, d, k) ==
    /\ Later(c, d, k)
    /\ c.id \notin dam /\ c.at + k <= WireLen => d = [c EXCEPT !.at = @ + k]

\* The lengths and the range are positive.
LEMMA Lengths == WireLen \in Nat \ {0} /\ HostLen \in Nat \ {0} /\ SeqRange \in Nat \ {0}
  BY HostAssumption

\* Positions in the stream are counted from 0.
LEMMA PositionType == ASSUME NEW c \in AnyCell  PROVE Position(c) \in Nat
  BY Lengths, SMTT(30) DEF AnyCell, Position

\* The position of the next packet's first cell.
LEMMA PositionAfter ==
    ASSUME NEW c \in AnyCell, NEW s \in 0..SeqRange-1
    PROVE  /\ PacketAfter(c, s) \in AnyCell
           /\ PacketAfter(c, s).id = c.id + 1
           /\ PacketAfter(c, s).seq = s
           /\ PacketAfter(c, s).era = IF s = 0 THEN c.era + 1 ELSE c.era
           /\ Position(PacketAfter(c, s)) >= Position(c) + 1
<1> DEFINE d == PacketAfter(c, s)
<1>1. d \in AnyCell /\ d.id = c.id + 1 /\ d.at = 1 /\ d.seq = s
      /\ d.era = IF s = 0 THEN c.era + 1 ELSE c.era
  BY Lengths DEF PacketAfter, AnyCell
<1> HIDE DEF d
<1>2. /\ WireLen * (c.id + 1) = WireLen * c.id + WireLen * 1 /\ WireLen * 1 = WireLen
      /\ WireLen * c.id \in Int /\ c.id * WireLen = WireLen * c.id
      /\ (c.id + 1) * WireLen = WireLen * (c.id + 1)
      /\ c.at \in 1..WireLen
  BY Lengths, MulDistributes DEF AnyCell
<1>3. Position(d) = (c.id + 1) * WireLen + 1 /\ Position(c) = c.id * WireLen + c.at
  BY <1>1 DEF Position
<1>4. Position(d) >= Position(c) + 1
  BY <1>2, <1>3, Lengths
<1> QED  BY <1>1, <1>4 DEF d

\* Cells of one packet differ by their places.
LEMMA SamePacket ==
    ASSUME NEW c \in AnyCell, NEW d \in AnyCell, c.id = d.id, NEW k \in Nat,
           Position(d) >= Position(c) + k
    PROVE  d.at >= c.at + k
<1>1. c.id * WireLen \in Int
  BY Lengths, SMTT(30) DEF AnyCell
<1>2. d.id * WireLen = c.id * WireLen
  OBVIOUS
<1>3. c.at \in Nat /\ d.at \in Nat
  BY DEF AnyCell
<1> QED  BY <1>1, <1>2, <1>3 DEF Position

\* A number is followed by the next one, or by 0.
LEMMA NextSeq ==
    ASSUME NEW s \in 0..SeqRange-1
    PROVE  /\ (s + 1) % SeqRange \in 0..SeqRange-1
           /\ (s + 1) % SeqRange # 0 => s < (s + 1) % SeqRange
<1>1. s \in Int /\ s + 1 \in Int
  BY Lengths
<1>2. (s + 1) % SeqRange \in 0..SeqRange-1
  BY <1>1, Lengths, DivMod
<1>3. CASE s + 1 \in 0..SeqRange-1
  <2>1. (s + 1) % SeqRange = s + 1
    BY <1>3, Lengths, ModSmall
  <2> QED  BY <1>2, <2>1
<1>4. CASE s + 1 = SeqRange
  <2>1. SeqRange * 1 + 0 = SeqRange /\ 0 \in 0..SeqRange-1
    BY Lengths
  <2>2. (SeqRange * 1 + 0) % SeqRange = 0
    BY <2>1, Lengths, ModUnique
  <2>3. (s + 1) % SeqRange = 0
    BY <1>4, <2>1, <2>2
  <2> QED  BY <1>2, <2>3
<1> QED  BY <1>3, <1>4, Lengths

\* The cell after c, and the one with which a reset goes on, come behind c.
LEMMA AfterIsLater ==
    ASSUME NEW c \in AnyCell, NEW d, d = CellAfter(c) \/ d = PacketAfter(c, 0)
    PROVE  /\ d \in AnyCell
           /\ Later(c, d, 1)
           /\ d.id = c.id => /\ d = CellAfter(c) /\ c.at < WireLen
                             /\ d = [c EXCEPT !.at = @ + 1]
           /\ d.id <= c.id + 1 /\ d.era <= c.era + (d.id - c.id)
<1> DEFINE n == (c.seq + 1) % SeqRange
<1>1. n \in 0..SeqRange-1 /\ (n # 0 => c.seq < n)
  BY NextSeq DEF AnyCell
<1>2. 0 \in 0..SeqRange-1
  BY Lengths
<1> HIDE DEF n
<1>3. ASSUME NEW s \in {0, n}, d = PacketAfter(c, s)
      PROVE  /\ d \in AnyCell /\ Later(c, d, 1) /\ d.id = c.id + 1
             /\ d.era <= c.era + (d.id - c.id)
  <2>1. s \in 0..SeqRange-1 /\ (s # 0 => c.seq < s)
    BY <1>1, <1>2
  <2>2. /\ d \in AnyCell /\ d.id = c.id + 1 /\ d.seq = s
        /\ d.era = IF s = 0 THEN c.era + 1 ELSE c.era
        /\ Position(d) >= Position(c) + 1
    BY <1>3, <2>1, PositionAfter
  <2>3. c.id \in Nat /\ c.era \in Nat /\ c.seq \in Nat
    BY DEF AnyCell
  <2>4. c.id <= d.id /\ c.era <= d.era /\ d.era <= c.era + (d.id - c.id)
        /\ (c.era = d.era => s # 0)
    BY <2>2, <2>3
  <2> QED  BY <2>1, <2>2, <2>3, <2>4 DEF Later
<1>4. CASE d = CellAfter(c) /\ c.at < WireLen
  <2>1. d = [c EXCEPT !.at = @ + 1]
    BY <1>4 DEF CellAfter
  <2>2. /\ d \in AnyCell /\ d.id = c.id /\ d.at = c.at + 1 /\ d.seq = c.seq /\ d.era = c.era
        /\ c.id \in Nat /\ c.era \in Nat
    BY <1>4, <2>1, Lengths DEF AnyCell
  <2>3. Position(d) = Position(c) + 1
    <3>1. c.id * WireLen \in Int /\ c.at \in Int
      BY Lengths, SMTT(30) DEF AnyCell
    <3> QED  BY <2>2, <3>1 DEF Position
  <2>4. Later(c, d, 1)
    <3>1. Position(d) >= Position(c) + 1
      BY <2>3, PositionType
    <3> QED  BY <2>2, <3>1 DEF Later
  <2>5. d.era <= c.era + (d.id - c.id) /\ d.id <= c.id + 1
    BY <2>2
  <2> QED  BY <1>4, <2>1, <2>2, <2>4, <2>5
<1>5. CASE ~(d = CellAfter(c) /\ c.at < WireLen)
  <2>1. \E s \in {0, n} : d = PacketAfter(c, s)
    BY <1>5 DEF CellAfter, n
  <2>2. /\ d \in AnyCell /\ Later(c, d, 1) /\ d.id = c.id + 1
        /\ d.era <= c.era + (d.id - c.id)
    BY <2>1, <1>3
  <2>3. c.id \in Nat
    BY DEF AnyCell
  <2> QED  BY <2>2, <2>3
<1> QED  BY <1>4, <1>5

\* Cells of the stream are ordered, and their distances add up.
LEMMA LaterTrans ==
    ASSUME NEW b \in AnyCell, NEW c \in AnyCell, NEW d \in AnyCell,
           NEW k \in Nat, NEW l \in Nat, Later(b, c, k), Later(c, d, l)
    PROVE  Later(b, d, k + l)
<1>1. Position(b) \in Nat /\ Position(c) \in Nat /\ Position(d) \in Nat
  BY PositionType
<1>2. /\ b.id \in Nat /\ c.id \in Nat /\ d.id \in Nat
      /\ b.era \in Nat /\ c.era \in Nat /\ d.era \in Nat
      /\ b.seq \in Int /\ c.seq \in Int /\ d.seq \in Int
  BY Lengths DEF AnyCell
<1>3. Position(d) >= Position(b) + (k + l)
  BY <1>1 DEF Later
<1>4. b.id <= d.id /\ b.era <= d.era
  BY <1>2 DEF Later
<1>5. b.id < d.id /\ b.era = d.era => b.seq < d.seq
  BY <1>2 DEF Later
<1>6. b.id = d.id => b.seq = d.seq /\ b.era = d.era
  BY <1>2 DEF Later
<1> QED  BY <1>3, <1>4, <1>5, <1>6 DEF Later

\* What is later by k is later by less.
LEMMA LaterWeaker ==
    ASSUME NEW c \in AnyCell, NEW d \in AnyCell, NEW k \in Nat, NEW l \in Nat, l <= k,
           Later(c, d, k)
    PROVE  Later(c, d, l)
<1>1. Position(c) \in Nat /\ Position(d) \in Nat
  BY PositionType
<1> QED  BY <1>1 DEF Later

\* What follows c at k is followed, a cell later, by what follows c at k + 1.
LEMMA FollowsStep ==
    ASSUME NEW dam, NEW c \in AnyCell, NEW d \in AnyCell, NEW k \in Nat,
           Follows(dam, c, d, k)
    PROVE  Follows(dam, c, CellAfter(d), k + 1)
<1> DEFINE e == CellAfter(d)
<1>1. e \in AnyCell /\ Later(d, e, 1)
  BY AfterIsLater
<1>2. Later(c, e, k + 1)
  BY <1>1, LaterTrans DEF Follows
<1>3. ASSUME c.id \notin dam, c.at + (k + 1) <= WireLen
      PROVE  e = [c EXCEPT !.at = @ + (k + 1)]
  <2>1. c.at + k < WireLen /\ c.at \in Nat
    BY <1>3, Lengths DEF AnyCell
  <2>2. d = [c EXCEPT !.at = @ + k]
    BY <1>3, <2>1, Lengths DEF Follows
  <2>3. d.at = c.at + k
    BY <2>2 DEF AnyCell
  <2>4. e = [d EXCEPT !.at = @ + 1]
    BY <2>1, <2>3 DEF CellAfter
  <2>5. c.at + k + 1 = c.at + (k + 1)
    BY <2>1
  <2> QED  BY <2>2, <2>3, <2>4, <2>5 DEF AnyCell
<1> QED  BY <1>2, <1>3 DEF Follows

\* When cell d is lost, or cut off by a reset, its packet is damaged, and what
\* comes next follows c at k no less than d would have.
LEMMA FollowsLoss ==
    ASSUME NEW dam, NEW c \in AnyCell, NEW d \in AnyCell, NEW k \in Nat,
           Follows(dam, c, d, k), NEW e, e = CellAfter(d) \/ e = PacketAfter(d, 0)
    PROVE  Follows(dam \union {d.id}, c, e, k)
<1>1. e \in AnyCell /\ Later(d, e, 1)
  BY AfterIsLater
<1>2. Later(c, e, k)
  <2>1. Later(c, e, k + 1)
    BY <1>1, LaterTrans DEF Follows
  <2> QED  BY <1>1, <2>1, LaterWeaker
<1>3. ASSUME c.id \notin dam \union {d.id}, c.at + k <= WireLen  PROVE FALSE
  <2>1. d = [c EXCEPT !.at = @ + k]
    BY <1>3 DEF Follows
  <2>2. d.id = c.id
    BY <2>1 DEF AnyCell
  <2> QED  BY <1>3, <2>2
<1> QED  BY <1>2, <1>3 DEF Follows

-----------------------------------------------------------------------------
(* What has come in and has not been returned.                             *)

ReadCell == [cell : Cell, look : {"data", "header", "empty"}]

\* The cells of D are a part of the stream, in order, and c comes next.
Run(dam, D, c) ==
    /\ \A i, j \in 1..Len(D) : i <= j => Follows(dam, D[i].cell, D[j].cell, j - i)
    /\ \A i \in 1..Len(D) : Follows(dam, D[i].cell, c, (Len(D) + 1) - i)

\* All of it is behind the packet g.
Behind(g, D, c) ==
    g # Nothing =>
        /\ \A i \in 1..Len(D) : Later(g.first, D[i].cell, HostLen)
        /\ Later(g.first, c, HostLen)

\* What looks like a header is one.
Honest(D) == \A i \in 1..Len(D) : D[i].look # "data" => D[i].cell.at = 1

\* E is D without its first n cells.
Drops(D, E, n) ==
    /\ Len(D) = n + Len(E)
    /\ \A i \in 1..Len(E) : E[i] = D[n + i]

\* E is D with x behind it.
Adds(D, E, x) ==
    /\ Len(E) = Len(D) + 1
    /\ \A i \in 1..Len(D) : E[i] = D[i]
    /\ E[Len(D) + 1] = x

\* The fields of a cell.
LEMMA CellType ==
    ASSUME NEW c \in Cell
    PROVE  /\ c \in AnyCell /\ c.id \in 0..MaxPackets /\ c.at \in 1..WireLen
           /\ c.seq \in 0..SeqRange-1 /\ c.era \in 0..MaxPackets
  BY HostAssumption DEF Cell, AnyCell

\* The elements of what was read are cells and what they look like.
LEMMA ReadCellType ==
    ASSUME NEW D \in Seq(ReadCell), NEW i \in 1..Len(D)
    PROVE  D[i] \in ReadCell /\ D[i].cell \in Cell /\ D[i].cell \in AnyCell
<1>1. D[i] \in ReadCell
  OBVIOUS
<1>2. D[i].cell \in Cell
  BY <1>1 DEF ReadCell
<1> QED  BY <1>1, <1>2, CellType

\* What holds of a run of cells holds of what is left when the first are dropped.
LEMMA DropsKeeps ==
    ASSUME NEW D \in Seq(ReadCell), NEW E \in Seq(ReadCell), NEW n \in Nat, Drops(D, E, n),
           NEW dam, NEW c, NEW g
    PROVE  /\ Run(dam, D, c) => Run(dam, E, c)
           /\ Behind(g, D, c) => Behind(g, E, c)
           /\ Honest(D) => Honest(E)
<1>1. Len(D) \in Nat /\ Len(E) \in Nat /\ Len(D) = n + Len(E)
  BY DEF Drops
<1>2. \A i \in 1..Len(E) : n + i \in 1..Len(D) /\ E[i] = D[n + i]
  BY <1>1 DEF Drops
<1>3. ASSUME Run(dam, D, c)  PROVE Run(dam, E, c)
  <2>1. ASSUME NEW i \in 1..Len(E), NEW j \in 1..Len(E), i <= j
        PROVE  Follows(dam, E[i].cell, E[j].cell, j - i)
    <3>1. n + i <= n + j /\ (n + j) - (n + i) = j - i
      BY <2>1, <1>1
    <3>2. Follows(dam, D[n + i].cell, D[n + j].cell, (n + j) - (n + i))
      BY <1>2, <1>3, <3>1 DEF Run
    <3> QED  BY <1>2, <3>1, <3>2
  <2>2. ASSUME NEW i \in 1..Len(E)
        PROVE  Follows(dam, E[i].cell, c, (Len(E) + 1) - i)
    <3>1. (Len(D) + 1) - (n + i) = (Len(E) + 1) - i
      BY <1>1
    <3>2. Follows(dam, D[n + i].cell, c, (Len(D) + 1) - (n + i))
      BY <1>2, <1>3 DEF Run
    <3> QED  BY <1>2, <3>1, <3>2
  <2> QED  BY <2>1, <2>2 DEF Run
<1>4. Behind(g, D, c) => Behind(g, E, c)
  BY <1>2 DEF Behind
<1>5. Honest(D) => Honest(E)
  BY <1>2 DEF Honest
<1> QED  BY <1>3, <1>4, <1>5

\* A cell follows itself at distance 0.
LEMMA FollowsSelf == ASSUME NEW dam, NEW c \in AnyCell  PROVE Follows(dam, c, c, 0)
<1>1. Position(c) \in Nat
  BY PositionType
<1>2. c.at \in Nat /\ c = [c EXCEPT !.at = c.at + 0]
  BY Lengths DEF AnyCell
<1>3. Later(c, c, 0)
  BY <1>1 DEF Later, AnyCell
<1> QED  BY <1>2, <1>3 DEF Follows

\* A cell comes in.
LEMMA AddsKeeps ==
    ASSUME NEW D \in Seq(ReadCell), NEW E \in Seq(ReadCell), NEW x \in ReadCell, Adds(D, E, x),
           NEW dam, NEW g, g = Nothing \/ g.first \in AnyCell,
           Run(dam, D, x.cell), Behind(g, D, x.cell)
    PROVE  Run(dam, E, CellAfter(x.cell)) /\ Behind(g, E, CellAfter(x.cell))
<1> DEFINE d == x.cell
           e == CellAfter(d)
<1>1. d \in AnyCell
  BY CellType DEF ReadCell
<1>2. e \in AnyCell /\ Later(d, e, 1)
  BY <1>1, AfterIsLater
<1>3. Len(D) \in Nat /\ Len(E) = Len(D) + 1
  BY DEF Adds
<1>4. \A i \in 1..Len(E) :
          (i \in 1..Len(D) /\ E[i] = D[i]) \/ (i = Len(D) + 1 /\ E[i] = x)
  BY <1>3 DEF Adds
<1> HIDE DEF e
<1>5. ASSUME NEW i \in 1..Len(E)
      PROVE  Follows(dam, E[i].cell, d, (Len(D) + 1) - i)
  <2>1. CASE i \in 1..Len(D) /\ E[i] = D[i]
    BY <2>1 DEF Run
  <2>2. CASE i = Len(D) + 1 /\ E[i] = x
    <3>1. (Len(D) + 1) - i = 0
      BY <1>3, <2>2
    <3> QED  BY <1>1, <2>2, <3>1, FollowsSelf
  <2> QED  BY <1>4, <2>1, <2>2
<1>6. ASSUME NEW i \in 1..Len(E), NEW j \in 1..Len(E), i <= j
      PROVE  Follows(dam, E[i].cell, E[j].cell, j - i)
  <2>1. CASE j = Len(D) + 1
    <3>1. E[j] = x
      BY <1>3, <2>1 DEF Adds
    <3> QED  BY <1>5, <2>1, <3>1
  <2>2. CASE j \in 1..Len(D)
    <3>1. i \in 1..Len(D)
      BY <1>6, <1>3, <2>2
    <3>2. E[i] = D[i] /\ E[j] = D[j]
      BY <2>2, <3>1 DEF Adds
    <3> QED  BY <1>6, <2>2, <3>1, <3>2 DEF Run
  <2> QED  BY <1>3, <2>1, <2>2
<1>7. ASSUME NEW i \in 1..Len(E)
      PROVE  Follows(dam, E[i].cell, e, (Len(E) + 1) - i)
  <2>1. E[i].cell \in AnyCell
    BY ReadCellType
  <2>2. (Len(D) + 1) - i \in Nat /\ ((Len(D) + 1) - i) + 1 = (Len(E) + 1) - i
    BY <1>3
  <2>3. Follows(dam, E[i].cell, e, ((Len(D) + 1) - i) + 1)
    BY <1>1, <1>5, <2>1, <2>2, FollowsStep DEF e
  <2> QED  BY <2>2, <2>3
<1>8. Behind(g, E, e)
  <2> SUFFICES ASSUME g # Nothing
               PROVE  /\ \A i \in 1..Len(E) : Later(g.first, E[i].cell, HostLen)
                      /\ Later(g.first, e, HostLen)
    BY DEF Behind
  <2>1. Later(g.first, d, HostLen) /\ \A i \in 1..Len(D) : Later(g.first, D[i].cell, HostLen)
    BY DEF Behind
  <2>2. \A i \in 1..Len(E) : Later(g.first, E[i].cell, HostLen)
    BY <1>4, <2>1
  <2>3. Later(g.first, e, HostLen + 1)
    BY <1>1, <1>2, <2>1, Lengths, LaterTrans
  <2>4. Later(g.first, e, HostLen)
    BY <1>2, <2>3, Lengths, LaterWeaker
  <2> QED  BY <2>2, <2>4
<1> QED  BY <1>6, <1>7, <1>8 DEF Run, e

\* The next cell d is lost, or the board is reset before it: e comes next.
LEMMA LossKeeps ==
    ASSUME NEW D \in Seq(ReadCell), NEW d \in AnyCell,
           NEW e, e = CellAfter(d) \/ e = PacketAfter(d, 0),
           NEW dam, NEW g, g = Nothing \/ g.first \in AnyCell,
           Run(dam, D, d), Behind(g, D, d)
    PROVE  Run(dam \union {d.id}, D, e) /\ Behind(g, D, e)
<1>1. e \in AnyCell /\ Later(d, e, 1)
  BY AfterIsLater
<1>2. ASSUME NEW i \in 1..Len(D)
      PROVE  Follows(dam \union {d.id}, D[i].cell, e, (Len(D) + 1) - i)
  <2>1. D[i].cell \in AnyCell /\ (Len(D) + 1) - i \in Nat
    BY ReadCellType
  <2>2. Follows(dam, D[i].cell, d, (Len(D) + 1) - i)
    BY DEF Run
  <2> QED  BY <2>1, <2>2, FollowsLoss
<1>3. ASSUME NEW i \in 1..Len(D), NEW j \in 1..Len(D), i <= j
      PROVE  Follows(dam \union {d.id}, D[i].cell, D[j].cell, j - i)
  BY <1>3 DEF Run, Follows
<1>4. Behind(g, D, e)
  <2> SUFFICES ASSUME g # Nothing  PROVE Later(g.first, e, HostLen)
    BY DEF Behind
  <2>1. Later(g.first, d, HostLen)
    BY DEF Behind
  <2>2. Later(g.first, e, HostLen + 1)
    BY <1>1, <2>1, Lengths, LaterTrans
  <2> QED  BY <1>1, <2>2, Lengths, LaterWeaker
<1> QED  BY <1>2, <1>3, <1>4 DEF Run

-----------------------------------------------------------------------------
(* The invariant.                                                          *)

Looking == {"data", "header", "empty"}

\* TypeOK, conjunct by conjunct.
Types ==
    /\ pc \in {"start", "waiting", "spinning", "gave_up", "closed"}
    /\ rx \in Seq(ReadCell) /\ buffer \in Seq(ReadCell)
    /\ Len(rx) <= RxLen
    /\ pc = "waiting" => Len(buffer) < HostLen
    /\ overdue \in BOOLEAN
    /\ last_seq \in -1..SeqRange-1
    /\ error_count \in 0..MaxErrors+1
    /\ nextCell \in Cell
    /\ got = Nothing \/ got \in [first : Cell, whole : BOOLEAN]
    /\ missed \in 0..MaxPackets
    /\ warned \in BOOLEAN /\ renumbered \in BOOLEAN
    /\ thrownAway \subseteq 0..MaxPackets
    /\ damaged \subseteq 0..MaxPackets
    /\ misleading \in BOOLEAN

LEMMA TypesAreTypeOK == Types <=> TypeOK
  BY DEF Types, TypeOK, ReadCell

Shape ==
    /\ pc = "start" => buffer = <<>>
    /\ pc \in {"start", "waiting", "spinning"} => error_count <= MaxErrors
    /\ nextCell.era <= nextCell.id

\* The stream that is still to be returned: in order, and behind got.
StreamInv ==
    /\ Run(damaged, buffer \o rx, nextCell)
    /\ Behind(got, buffer \o rx, nextCell)
    /\ ~misleading => Honest(buffer \o rx)

ReturnInv ==
    /\ got = Nothing => last_seq = -1
    /\ got # Nothing /\ ~misleading => last_seq = got.first.seq
    /\ HostLen <= WireLen => ReturnsWholePackets
    /\ WarnsOfRenumbering

IInv == Types /\ Shape /\ StreamInv /\ ReturnInv

\* What is unread is the buffer and then what the OS holds.
LEMMA UnreadType ==
    ASSUME Types
    PROVE  /\ buffer \o rx \in Seq(ReadCell)
           /\ Len(buffer \o rx) = Len(buffer) + Len(rx)
           /\ \A i \in 1..Len(buffer) + Len(rx) :
                  (buffer \o rx)[i] = IF i <= Len(buffer) THEN buffer[i] ELSE rx[i - Len(buffer)]
  BY ConcatProperties DEF Types

\* What was returned last, if anything, begins at a cell.
LEMMA GotType == ASSUME Types  PROVE got = Nothing \/ got.first \in AnyCell
<1>1. ASSUME got \in [first : Cell, whole : BOOLEAN]  PROVE got.first \in AnyCell
  BY <1>1, CellType
<1> QED  BY <1>1 DEF Types

\* What was returned stays as it was returned.
LEMMA ReturnFrame ==
    ASSUME ReturnInv, UNCHANGED <<returned, last_seq>>,
           misleading => misleading', damaged \subseteq damaged'
    PROVE  ReturnInv'
<1>1. got' = got /\ warned' = warned /\ renumbered' = renumbered /\ last_seq' = last_seq
  BY DEF returned
<1>2. ReturnsWholePackets => ReturnsWholePackets'
  BY <1>1 DEF ReturnsWholePackets
<1>3. WarnsOfRenumbering'
  BY <1>1 DEF ReturnInv, WarnsOfRenumbering
<1> QED  BY <1>1, <1>2, <1>3 DEF ReturnInv

\* The invariant of the stream is about these variables only.
LEMMA StreamFrame ==
    ASSUME StreamInv, UNCHANGED <<rx, buffer, nextCell, got, damaged, misleading>>
    PROVE  StreamInv'
  BY DEF StreamInv

LEMMA InitIInv == Init => IInv
<1> SUFFICES ASSUME Init  PROVE IInv
  OBVIOUS
<1> USE DEF Init
<1>1. buffer \o rx = <<>> /\ Len(buffer \o rx) = 0 /\ <<>> \in Seq(ReadCell) /\ Len(<<>>) = 0
  OBVIOUS
<1>2. nextCell \in Cell
  BY HostAssumption DEF Cell
<1>3. Types
  <2>1. /\ overdue \in BOOLEAN /\ warned \in BOOLEAN /\ renumbered \in BOOLEAN
        /\ misleading \in BOOLEAN
    OBVIOUS
  <2>2. /\ rx \in Seq(ReadCell) /\ buffer \in Seq(ReadCell) /\ Len(rx) <= RxLen
        /\ last_seq \in -1..SeqRange-1 /\ error_count \in 0..MaxErrors+1
        /\ missed \in 0..MaxPackets
    BY <1>1, HostAssumption
  <2> QED  BY <1>2, <2>1, <2>2 DEF Types
<1>4. Shape
  BY HostAssumption DEF Shape
<1>5. StreamInv
  BY <1>1 DEF StreamInv, Run, Behind, Honest
<1>6. ReturnInv
  BY DEF ReturnInv, ReturnsWholePackets, WarnsOfRenumbering
<1> QED  BY <1>3, <1>4, <1>5, <1>6 DEF IInv

\* The cell after one that is not yet of the last packet's.
LEMMA NextCellType ==
    ASSUME NEW c \in Cell, c.id < MaxPackets, c.era <= c.id,
           NEW e, e = CellAfter(c) \/ e = PacketAfter(c, 0)
    PROVE  e \in Cell /\ e.era <= e.id
<1>1. c \in AnyCell /\ c.id \in Nat /\ c.era \in Nat
  BY CellType, HostAssumption
<1>2. /\ e \in AnyCell /\ Later(c, e, 1) /\ e.id <= c.id + 1
      /\ e.era <= c.era + (e.id - c.id)
  BY <1>1, AfterIsLater
<1>3. e.id \in Nat /\ e.era \in Nat /\ c.id <= e.id
  BY <1>2 DEF AnyCell, Later
<1>4. e.id \in 0..MaxPackets /\ e.era <= e.id /\ e.era \in 0..MaxPackets
  BY <1>1, <1>2, <1>3, HostAssumption
<1> QED  BY <1>2, <1>4 DEF AnyCell, Cell

-----------------------------------------------------------------------------
(* Every step keeps it.                                                    *)

\* A cell that arrives comes behind those that came in before.
LEMMA ArriveAdds ==
    ASSUME Types, Types', NEW x \in ReadCell, rx' = Append(rx, x), buffer' = buffer
    PROVE  Adds(buffer \o rx, (buffer \o rx)', x)
<1>1. /\ Len(rx') = Len(rx) + 1 /\ rx'[Len(rx) + 1] = x
      /\ \A i \in 1..Len(rx) : rx'[i] = rx[i]
  BY AppendProperties DEF Types
<1>2. /\ Len((buffer \o rx)') = Len(buffer') + Len(rx')
      /\ \A i \in 1..Len(buffer') + Len(rx') :
            (buffer \o rx)'[i] = IF i <= Len(buffer') THEN buffer'[i] ELSE rx'[i - Len(buffer')]
  <2>1. rx' \in Seq(ReadCell) /\ buffer' \in Seq(ReadCell)
    BY DEF Types
  <2> QED  BY <2>1, ConcatProperties
<1>3. rx \in Seq(ReadCell) /\ buffer \in Seq(ReadCell)
  BY DEF Types
<1> QED  BY <1>1, <1>2, <1>3, UnreadType DEF Adds

\* A cell that arrives, or is lost, is the next one of the stream.
LEMMA ArriveStep ==
    ASSUME IInv, NEW look \in LooksOf(nextCell), NEW lost \in BOOLEAN, Arrive(look, lost)
    PROVE  IInv'
<1> DEFINE x == [cell |-> nextCell, look |-> look]
<1>1. /\ nextCell \in Cell /\ nextCell \in AnyCell /\ nextCell.id < MaxPackets
      /\ nextCell.era <= nextCell.id /\ nextCell.id \in 0..MaxPackets
  BY CellType DEF IInv, Types, Shape, Arrive
<1>2. nextCell' = CellAfter(nextCell)
  BY DEF Arrive
<1>3. nextCell' \in Cell /\ nextCell'.era <= nextCell'.id
  BY <1>1, <1>2, NextCellType
<1>4. look \in Looking /\ (nextCell.at = 1 => look = "header")
  BY HostAssumption DEF LooksOf, Looking
<1>5. x \in ReadCell /\ x.cell = nextCell /\ x.look = look
  BY <1>1, <1>4 DEF ReadCell, Looking
<1> HIDE DEF x
<1>6. /\ rx' = IF lost THEN rx ELSE Append(rx, x)
      /\ ~lost => Len(rx) < RxLen
      /\ damaged' = IF lost THEN damaged \union {nextCell.id} ELSE damaged
      /\ misleading' = (misleading \/ (nextCell.at > 1 /\ look # "data"))
      /\ UNCHANGED <<pc, buffer, overdue, last_seq, error_count, returned, thrownAway>>
  BY DEF Arrive, x
<1>7. rx' \in Seq(ReadCell) /\ Len(rx') <= RxLen
  <2>1. CASE lost
    BY <1>6, <2>1 DEF IInv, Types
  <2>2. CASE ~lost
    <3>1. Append(rx, x) \in Seq(ReadCell) /\ Len(Append(rx, x)) = Len(rx) + 1
      BY <1>5, AppendProperties DEF IInv, Types
    <3> QED  BY <1>6, <2>2, <3>1, HostAssumption DEF IInv, Types
  <2> QED  BY <2>1, <2>2
<1>8. Types'
  <2>1. damaged' \subseteq 0..MaxPackets /\ misleading' \in BOOLEAN
    BY <1>1, <1>6 DEF IInv, Types
  <2> QED  BY <1>3, <1>6, <1>7, <2>1 DEF IInv, Types, returned
<1>9. Shape'
  BY <1>3, <1>6 DEF IInv, Shape
<1>10. ReturnInv'
  BY <1>6, ReturnFrame DEF IInv
<1>11. /\ buffer \o rx \in Seq(ReadCell) /\ (buffer \o rx)' \in Seq(ReadCell)
       /\ got' = got /\ (got = Nothing \/ got.first \in AnyCell)
       /\ Run(damaged, buffer \o rx, nextCell) /\ Behind(got, buffer \o rx, nextCell)
       /\ ~misleading => Honest(buffer \o rx)
  <2>1. (buffer \o rx)' \in Seq(ReadCell)
    BY <1>8, ConcatProperties DEF Types
  <2>2. Types /\ StreamInv /\ got' = got
    BY <1>6 DEF IInv, returned
  <2> QED  BY <2>1, <2>2, UnreadType, GotType DEF StreamInv
<1>12. CASE lost
  <2>1. (buffer \o rx)' = buffer \o rx /\ damaged' = damaged \union {nextCell.id}
    BY <1>6, <1>12
  <2>2. /\ Run(damaged \union {nextCell.id}, buffer \o rx, nextCell')
        /\ Behind(got, buffer \o rx, nextCell')
    BY <1>1, <1>2, <1>11, LossKeeps
  <2>3. StreamInv'
    BY <1>6, <1>11, <2>1, <2>2 DEF StreamInv
  <2> QED  BY <1>8, <1>9, <1>10, <2>3 DEF IInv
<1>13. CASE ~lost
  <2>1. Adds(buffer \o rx, (buffer \o rx)', x)
    BY <1>5, <1>6, <1>8, <1>13, ArriveAdds DEF IInv
  <2>2. /\ Run(damaged, (buffer \o rx)', nextCell')
        /\ Behind(got, (buffer \o rx)', nextCell')
    BY <1>2, <1>5, <1>11, <2>1, AddsKeeps
  <2>3. ~misleading' => Honest((buffer \o rx)')
    <3> SUFFICES ASSUME ~misleading', NEW i \in 1..Len((buffer \o rx)'),
                        (buffer \o rx)'[i].look # "data"
                 PROVE  (buffer \o rx)'[i].cell.at = 1
      BY DEF Honest
    <3>1. CASE i \in 1..Len(buffer \o rx)
      <4>1. (buffer \o rx)'[i] = (buffer \o rx)[i] /\ ~misleading
        BY <1>6, <2>1, <3>1 DEF Adds
      <4> QED  BY <1>11, <3>1, <4>1 DEF Honest
    <3>2. CASE i = Len(buffer \o rx) + 1
      <4>1. (buffer \o rx)'[i] = x
        BY <2>1, <3>2 DEF Adds
      <4>2. nextCell.at \in 1..WireLen /\ ~(nextCell.at > 1)
        BY <1>1, <1>5, <1>6, <4>1, CellType
      <4> QED  BY <1>5, <4>1, <4>2, Lengths
    <3> QED  BY <1>11, <2>1, <3>1, <3>2 DEF Adds
  <2>4. StreamInv'
    BY <1>6, <1>11, <1>13, <2>2, <2>3 DEF StreamInv
  <2> QED  BY <1>8, <1>9, <1>10, <2>4 DEF IInv
<1> QED  BY <1>12, <1>13

\* A reset starts an era and leaves what arrived before it alone.
LEMMA ResetStep == ASSUME IInv, Reset  PROVE IInv'
<1>1. /\ nextCell \in Cell /\ nextCell \in AnyCell /\ nextCell.id < MaxPackets
      /\ nextCell.era <= nextCell.id /\ nextCell.id \in 0..MaxPackets
  BY CellType DEF IInv, Types, Shape, Reset
<1>2. /\ nextCell' = PacketAfter(nextCell, 0)
      /\ damaged' = damaged \union {nextCell.id}
      /\ UNCHANGED <<pc, rx, buffer, overdue, last_seq, error_count, returned, thrownAway, misleading>>
  BY DEF Reset
<1>3. nextCell' \in Cell /\ nextCell'.era <= nextCell'.id
  BY <1>1, <1>2, NextCellType
<1>4. Types'
  BY <1>1, <1>2, <1>3 DEF IInv, Types, returned
<1>5. Shape'
  BY <1>2, <1>3 DEF IInv, Shape
<1>6. ReturnInv'
  BY <1>2, ReturnFrame DEF IInv
<1>7. StreamInv'
  <2>1. /\ buffer \o rx \in Seq(ReadCell) /\ (buffer \o rx)' = buffer \o rx
        /\ got' = got /\ (got = Nothing \/ got.first \in AnyCell)
        /\ Run(damaged, buffer \o rx, nextCell) /\ Behind(got, buffer \o rx, nextCell)
        /\ ~misleading => Honest(buffer \o rx)
    BY <1>2, UnreadType, GotType DEF IInv, StreamInv, returned
  <2>2. /\ Run(damaged \union {nextCell.id}, buffer \o rx, nextCell')
        /\ Behind(got, buffer \o rx, nextCell')
    BY <1>1, <1>2, <2>1, LossKeeps
  <2> QED  BY <1>2, <2>1, <2>2 DEF StreamInv
<1> QED  BY <1>4, <1>5, <1>6, <1>7 DEF IInv

\* The steps in which the client reads nothing and returns nothing.
LEMMA QuietStep ==
    ASSUME IInv, UNCHANGED <<rx, buffer, last_seq, nextCell, hist>>, Types', Shape'
    PROVE  IInv'
<1>1. UNCHANGED <<returned, damaged, misleading, got>>
  BY DEF hist, returned
<1> QED  BY <1>1, StreamFrame, ReturnFrame DEF IInv

\* The stream keeps its order when its first cells are dropped.
LEMMA StreamDrops ==
    ASSUME Types, StreamInv, Types', NEW n \in Nat, Drops(buffer \o rx, (buffer \o rx)', n),
           UNCHANGED <<nextCell, got, damaged, misleading>>
    PROVE  StreamInv'
<1>1. buffer \o rx \in Seq(ReadCell) /\ (buffer \o rx)' \in Seq(ReadCell)
  <2>1. (buffer \o rx)' \in Seq(ReadCell)
    BY ConcatProperties DEF Types
  <2> QED  BY <2>1, UnreadType
<1>2. /\ Run(damaged, (buffer \o rx)', nextCell)
      /\ Behind(got, (buffer \o rx)', nextCell)
      /\ ~misleading => Honest((buffer \o rx)')
  BY <1>1, DropsKeeps DEF StreamInv
<1> QED  BY <1>2 DEF StreamInv

\* The headers that are dropped with cells are those of known packets.
LEMMA HeadersType ==
    ASSUME NEW D \in Seq(ReadCell)
    PROVE  HeadersIn(D) \subseteq 0..MaxPackets
<1>1. ASSUME NEW i \in DOMAIN D  PROVE D[i].cell.id \in 0..MaxPackets
  <2>1. i \in 1..Len(D)
    OBVIOUS
  <2> QED  BY <2>1, ReadCellType, CellType
<1> QED  BY <1>1 DEF HeadersIn

\* Connecting drops what the OS holds, or fails and changes nothing of the stream.
LEMMA ConnectStep == ASSUME IInv, NEW ok \in BOOLEAN, Connect(ok)  PROVE IInv'
<1>1. /\ pc = "start" /\ pc' = IF ok THEN "waiting" ELSE "closed"
      /\ rx' = IF ok THEN <<>> ELSE rx
      /\ thrownAway' = IF ok THEN thrownAway \union HeadersIn(rx) ELSE thrownAway
      /\ UNCHANGED <<buffer, overdue, last_seq, error_count, nextCell, returned, damaged, misleading>>
  BY DEF Connect
<1>2. buffer = <<>> /\ Len(<<>>) = 0 /\ <<>> \in Seq(ReadCell)
  BY <1>1 DEF IInv, Shape
<1>3. /\ rx' \in Seq(ReadCell) /\ Len(rx') <= RxLen
      /\ thrownAway' \subseteq 0..MaxPackets
  <2>1. HeadersIn(rx) \subseteq 0..MaxPackets
    BY HeadersType DEF IInv, Types
  <2>2. thrownAway' \subseteq 0..MaxPackets
    BY <1>1, <2>1 DEF IInv, Types
  <2>3. rx' \in Seq(ReadCell) /\ Len(rx') <= RxLen
    BY <1>1, <1>2, HostAssumption DEF IInv, Types
  <2> QED  BY <2>2, <2>3
<1>4. Types'
  BY <1>1, <1>2, <1>3, Lengths DEF IInv, Types, returned
<1>5. Shape'
  BY <1>1 DEF IInv, Shape
<1>6. CASE ~ok
  BY <1>1, <1>4, <1>5, <1>6, QuietStep DEF hist
<1>7. CASE ok
  <2>1. UNCHANGED <<returned, damaged, misleading, got, last_seq, nextCell>>
    BY <1>1 DEF returned
  <2>2. (buffer \o rx)' = <<>> /\ Len(buffer \o rx) \in Nat
    BY <1>1, <1>2, <1>7, UnreadType DEF IInv
  <2>3. Drops(buffer \o rx, (buffer \o rx)', Len(buffer \o rx))
    BY <1>2, <2>2 DEF Drops
  <2>4. StreamInv'
    BY <1>4, <2>1, <2>2, <2>3, StreamDrops DEF IInv
  <2>5. ReturnInv'
    BY <2>1, ReturnFrame DEF IInv
  <2> QED  BY <1>4, <1>5, <2>4, <2>5 DEF IInv
<1> QED  BY <1>6, <1>7

LEMMA ExpireStep == ASSUME IInv, Expire  PROVE IInv'
<1>1. Types'
  BY DEF IInv, Types, Expire, hist, returned
<1>2. Shape'
  BY DEF IInv, Shape, Expire
<1> QED  BY <1>1, <1>2, QuietStep DEF Expire

LEMMA InterruptStep == ASSUME IInv, Interrupt  PROVE IInv'
<1>1. Types'
  BY DEF IInv, Types, Interrupt, hist, returned
<1>2. Shape'
  BY DEF IInv, Shape, Interrupt
<1> QED  BY <1>1, <1>2, QuietStep DEF Interrupt

\* With the buffer go its cells, the first that were not returned.
LEMMA WaitDrops ==
    ASSUME Types, buffer' = <<>>, rx' = rx
    PROVE  Drops(buffer \o rx, (buffer \o rx)', Len(buffer))
<1>1. rx \in Seq(ReadCell) /\ buffer \in Seq(ReadCell)
  BY DEF Types
<1>2. (buffer \o rx)' = rx
  BY <1>1, ConcatEmptySeq
<1>3. /\ Len(buffer \o rx) = Len(buffer) + Len(rx)
      /\ \A i \in 1..Len(buffer) + Len(rx) :
            (buffer \o rx)[i] = IF i <= Len(buffer) THEN buffer[i] ELSE rx[i - Len(buffer)]
  BY UnreadType
<1>4. ASSUME NEW i \in 1..Len(rx)  PROVE rx[i] = (buffer \o rx)[Len(buffer) + i]
  <2>1. /\ Len(buffer) + i \in 1..Len(buffer) + Len(rx) /\ ~(Len(buffer) + i <= Len(buffer))
        /\ (Len(buffer) + i) - Len(buffer) = i
    BY <1>1
  <2> QED  BY <1>3, <2>1
<1> QED  BY <1>2, <1>3, <1>4 DEF Drops

\* A wait that ends without a packet keeps or drops what is unread.
LEMMA WaitFailsStep == ASSUME IInv, pc = "waiting", WaitFails  PROVE IInv'
<1>1. /\ error_count' = error_count + 1
      /\ pc' = IF error_count' > MaxErrors THEN "gave_up" ELSE "waiting"
      /\ buffer' = <<>> /\ overdue' = FALSE
      /\ thrownAway' = thrownAway \union HeadersIn(buffer)
      /\ UNCHANGED <<rx, last_seq, nextCell, returned, damaged, misleading>>
  BY DEF WaitFails
<1>2. error_count \in 0..MaxErrors /\ error_count' \in 0..MaxErrors+1
  BY <1>1, HostAssumption DEF IInv, Types, Shape
<1>3. /\ buffer' \in Seq(ReadCell) /\ Len(buffer') < HostLen
      /\ thrownAway' \subseteq 0..MaxPackets
  <2>1. buffer' \in Seq(ReadCell) /\ Len(buffer') = 0
    BY <1>1
  <2>2. HeadersIn(buffer) \subseteq 0..MaxPackets
    BY HeadersType DEF IInv, Types
  <2>3. thrownAway' \subseteq 0..MaxPackets
    BY <1>1, <2>2 DEF IInv, Types
  <2> QED  BY <2>1, <2>3, Lengths
<1>4. pc' \in {"waiting", "gave_up"} /\ (pc' = "waiting" => error_count' <= MaxErrors)
  BY <1>1, <1>2, HostAssumption
<1>5. Types'
  BY <1>1, <1>2, <1>3, <1>4 DEF IInv, Types, returned
<1>6. Shape'
  BY <1>1, <1>4 DEF IInv, Shape
<1>7. Drops(buffer \o rx, (buffer \o rx)', Len(buffer))
  BY <1>1, WaitDrops DEF IInv
<1>8. StreamInv'
  <2>1. UNCHANGED <<nextCell, got, damaged, misleading>> /\ Len(buffer) \in Nat
    BY <1>1 DEF returned, IInv, Types
  <2> QED  BY <1>5, <1>7, <2>1, StreamDrops DEF IInv
<1>9. ReturnInv'
  BY <1>1, ReturnFrame DEF IInv
<1> QED  BY <1>5, <1>6, <1>8, <1>9 DEF IInv

\* The least of some natural numbers is one of them.
LEMMA MinIsIn ==
    ASSUME NEW S \in SUBSET Nat, S # {}
    PROVE  Min(S) \in S /\ \A y \in S : Min(S) <= y
<1>1. \E x \in S : \A y \in S : ~(<<y, x>> \in OpToRel(<, Nat))
  BY NatLessThanWellFounded, WFMin
<1>2. PICK x \in S : \A y \in S : ~(<<y, x>> \in OpToRel(<, Nat))
  BY <1>1
<1>3. ASSUME NEW y \in S  PROVE x <= y
  <2>1. ~(y < x)
    BY <1>2 DEF OpToRel
  <2> QED  BY <2>1
<1> QED  BY <1>3 DEF Min

\* What is left of D from its cell i on.
LEMMA SuffixDrops ==
    ASSUME NEW D \in Seq(ReadCell), NEW i \in 1 .. Len(D) + 1
    PROVE  /\ SubSeq(D, i, Len(D)) \in Seq(ReadCell)
           /\ Len(SubSeq(D, i, Len(D))) = (Len(D) - i) + 1
           /\ Drops(D, SubSeq(D, i, Len(D)), i - 1)
<1> DEFINE n == Len(D)
           E == SubSeq(D, i, n)
<1>1. n \in Nat /\ i \in Int /\ i >= 1 /\ \A j \in i..n : D[j] \in ReadCell
  OBVIOUS
<1>2. /\ E \in Seq(ReadCell)
      /\ Len(E) = IF i <= n THEN (n - i) + 1 ELSE 0
      /\ \A j \in 1 .. (n - i) + 1 : E[j] = D[i + j - 1]
  BY <1>1, SubSeqProperties
<1>3. i <= n + 1
  OBVIOUS
<1> HIDE DEF n, E
<1>4. Len(E) = (n - i) + 1
  BY <1>1, <1>2, <1>3
<1>5. \A j \in 1..Len(E) : E[j] = D[(i - 1) + j]
  <2>1. \A j \in 1..Len(E) : i + j - 1 = (i - 1) + j
    BY <1>1, <1>4
  <2> QED  BY <1>2, <1>4, <2>1
<1>6. n = (i - 1) + Len(E)
  BY <1>1, <1>4
<1> QED  BY <1>2, <1>4, <1>5, <1>6 DEF Drops, n, E

\* What is deleted when nothing parses begins where something might have.
LEMMA UnparsedDrops ==
    ASSUME NEW D \in Seq(ReadCell)
    PROVE  /\ Unparsed(D) \in Seq(ReadCell) /\ Len(Unparsed(D)) < HostLen
           /\ \E m \in Nat : /\ Drops(D, Unparsed(D), m)
                             /\ 1..m \subseteq 1..(Len(D) - HostLen) + 1
<1> DEFINE n == Len(D)
           i == (n - HostLen) + 2
<1>1. n \in Nat /\ HostLen \in Nat \ {0}
  BY Lengths
<1>2. CASE n < HostLen
  <2>1. Unparsed(D) = D
    BY <1>2 DEF Unparsed
  <2>2. Drops(D, D, 0) /\ 0 \in Nat /\ 1..0 \subseteq 1..(n - HostLen) + 1
    BY <1>1 DEF Drops
  <2> QED  BY <1>2, <2>1, <2>2
<1>3. CASE ~(n < HostLen)
  <2>1. Unparsed(D) = SubSeq(D, i, n)
    BY <1>3 DEF Unparsed
  <2>2. i \in 1 .. n + 1 /\ (n - i) + 1 = HostLen - 1 /\ i - 1 = (n - HostLen) + 1
        /\ i - 1 \in Nat
    BY <1>1, <1>3
  <2> HIDE DEF i
  <2>3. /\ SubSeq(D, i, n) \in Seq(ReadCell)
        /\ Len(SubSeq(D, i, n)) = (n - i) + 1
        /\ Drops(D, SubSeq(D, i, n), i - 1)
    BY <2>2, SuffixDrops
  <2>4. Len(SubSeq(D, i, n)) < HostLen
    BY <1>1, <2>2, <2>3
  <2>5. 1 .. i - 1 \subseteq 1..(n - HostLen) + 1
    BY <2>2
  <2> QED  BY <2>1, <2>2, <2>3, <2>4, <2>5
<1> QED  BY <1>2, <1>3

\* What is read without a packet in it: as much as may be the start of one
\* is kept.
LEMMA PollKeepsStep ==
    ASSUME IInv, pc = "waiting", rx' = <<>>, buffer' = Unparsed(buffer \o rx),
           UNCHANGED <<pc, overdue, last_seq, hist, error_count, nextCell>>
    PROVE  IInv'
<1> DEFINE D == buffer \o rx
<1>1. D \in Seq(ReadCell) /\ Types
  BY UnreadType DEF IInv
<1>2. /\ Unparsed(D) \in Seq(ReadCell) /\ Len(Unparsed(D)) < HostLen
      /\ \E m \in Nat : Drops(D, Unparsed(D), m)
  <2> HIDE DEF D
  <2> QED  BY <1>1, UnparsedDrops
<1>3. (buffer \o rx)' = Unparsed(D)
  BY <1>2, ConcatEmptySeq
<1> HIDE DEF D
<1>4. /\ rx' \in Seq(ReadCell) /\ Len(rx') = 0 /\ buffer' \in Seq(ReadCell)
      /\ Len(buffer') < HostLen
  BY <1>2 DEF D
<1>5. Types'
  BY <1>1, <1>4, HostAssumption DEF Types, hist, returned
<1>6. Shape'
  BY DEF IInv, Shape
<1>7. UNCHANGED <<nextCell, got, damaged, misleading, returned, last_seq>>
  BY DEF hist, returned
<1>8. StreamInv'
  BY <1>2, <1>3, <1>5, <1>7, StreamDrops DEF IInv, D
<1>9. ReturnInv'
  BY <1>7, ReturnFrame DEF IInv
<1> QED  BY <1>5, <1>6, <1>8, <1>9 DEF IInv

\* What the client reads of a whole packet is a part of the stream.
LEMMA WindowFacts ==
    ASSUME NEW D \in Seq(ReadCell), NEW dam, NEW c \in AnyCell, Run(dam, D, c),
           NEW i \in Parsed(D)
    PROVE  /\ i \in 1..Len(D) /\ D[i].look # "data"
           /\ D[i].cell \in Cell /\ D[i].cell \in AnyCell
           /\ Window(D, i) \in [first : Cell, whole : BOOLEAN]
           /\ Window(D, i).first = D[i].cell
           /\ Later(D[i].cell, c, HostLen)
           /\ D[i].cell.at = 1 /\ D[i].cell.id \notin dam /\ HostLen <= WireLen
                => Window(D, i).whole
<1>1. /\ i \in 1..(Len(D) - HostLen) + 1 /\ D[i].look # "data" /\ Len(D) \in Nat
      /\ i \in 1..Len(D)
  BY Lengths DEF Parsed
<1>2. D[i].cell \in Cell /\ D[i].cell \in AnyCell
  BY <1>1, ReadCellType
<1>3. Window(D, i) \in [first : Cell, whole : BOOLEAN] /\ Window(D, i).first = D[i].cell
  BY <1>2 DEF Window
<1>4. Later(D[i].cell, c, HostLen)
  <2>1. Later(D[i].cell, c, (Len(D) + 1) - i)
    BY <1>1 DEF Run, Follows
  <2>2. (Len(D) + 1) - i \in Nat /\ HostLen <= (Len(D) + 1) - i /\ HostLen \in Nat
    BY <1>1, Lengths
  <2> QED  BY <1>2, <2>1, <2>2, LaterWeaker
<1>5. ASSUME D[i].cell.at = 1, D[i].cell.id \notin dam, HostLen <= WireLen,
             NEW k \in 1..HostLen-1
      PROVE  D[i + k].cell = [D[i].cell EXCEPT !.at = @ + k]
  <2>1. i + k \in 1..Len(D) /\ i <= i + k /\ (i + k) - i = k /\ 1 + k <= WireLen
    BY <1>1, <1>5, Lengths
  <2>2. Follows(dam, D[i].cell, D[i + k].cell, k)
    BY <1>1, <2>1 DEF Run
  <2> QED  BY <1>5, <2>1, <2>2 DEF Follows
<1>6. D[i].cell.at = 1 /\ D[i].cell.id \notin dam /\ HostLen <= WireLen
        => Window(D, i).whole
  BY <1>5 DEF Window
<1> QED  BY <1>1, <1>2, <1>3, <1>4, <1>6

\* A packet is returned.
LEMMA PollReturnsStep ==
    ASSUME IInv, pc = "waiting", rx' = <<>>, NEW i \in Parsed(buffer \o rx),
           buffer' = Leftover(buffer \o rx, i),
           NEW s \in SeqIn((buffer \o rx)[i].cell), TakePacket(buffer \o rx, i, s),
           overdue' = FALSE, UNCHANGED <<pc, error_count, nextCell>>
    PROVE  IInv'
<1> DEFINE D == buffer \o rx
           c == D[i].cell
<1>1. D \in Seq(ReadCell) /\ Run(damaged, D, nextCell) /\ Behind(got, D, nextCell)
      /\ (~misleading => Honest(D)) /\ nextCell \in AnyCell
  BY UnreadType, CellType DEF IInv, StreamInv, Types
<1>2. /\ i \in 1..Len(D) /\ D[i].look # "data" /\ c \in Cell /\ c \in AnyCell
      /\ Window(D, i) \in [first : Cell, whole : BOOLEAN]
      /\ Window(D, i).first = c
      /\ Later(c, nextCell, HostLen)
      /\ c.at = 1 /\ c.id \notin damaged /\ HostLen <= WireLen => Window(D, i).whole
  <2> HIDE DEF D
  <2> QED  BY <1>1, WindowFacts DEF D
<1> HIDE DEF D, c
<1>3. s \in 0..SeqRange-1 /\ (c.at = 1 => s = c.seq)
  <2>1. c.seq \in 0..SeqRange-1
    BY <1>2, CellType
  <2> QED  BY <2>1 DEF SeqIn, c, D
<1>4. /\ last_seq' = s /\ got' = Window(D, i)
      /\ missed' = IF got = Nothing \/ got'.first.id = got.first.id THEN 0
                   ELSE (got'.first.id - got.first.id) - 1
      /\ warned' = (s <= last_seq)
      /\ renumbered' = (got # Nothing /\ got'.first.era > got.first.era)
      /\ thrownAway' = thrownAway \union
            (HeadersIn(SubSeq(D, i + HostLen, Len(D))) \ HeadersIn(buffer'))
      /\ damaged' = damaged /\ misleading' = misleading
  BY DEF TakePacket, Warns, D
<1>5. got # Nothing => got.first \in AnyCell /\ got.first \in Cell /\ Later(got.first, c, HostLen)
  <2>1. got # Nothing => got \in [first : Cell, whole : BOOLEAN]
    BY DEF IInv, Types
  <2> QED  BY <1>1, <1>2, <2>1, CellType DEF Behind, c
<1>6. buffer' = <<>> /\ (buffer \o rx)' = <<>> /\ Len(<<>>) = 0 /\ <<>> \in Seq(ReadCell)
  BY DEF Leftover
<1>7. got' # Nothing
  <2>1. \A x \in Cell : x \in [id : Nat, at : Nat, seq : Nat, era : Nat]
    BY HostAssumption DEF Cell
  <2> QED  BY <1>2, <1>4, <2>1, HostAssumption
<1>8. missed' \in 0..MaxPackets
  <2>1. CASE got = Nothing \/ got'.first.id = got.first.id
    BY <1>4, <2>1, HostAssumption
  <2>2. CASE got # Nothing /\ got'.first.id # got.first.id
    <3>1. got.first.id \in 0..MaxPackets /\ c.id \in 0..MaxPackets /\ got.first.id <= c.id
      BY <1>2, <1>5, <2>2, CellType DEF Later
    <3> QED  BY <1>2, <1>4, <2>2, <3>1, HostAssumption
  <2> QED  BY <2>1, <2>2
<1>9. thrownAway' \subseteq 0..MaxPackets
  <2>1. /\ i + HostLen \in Int /\ i + HostLen >= 1 /\ Len(D) \in Int
        /\ \A j \in i + HostLen .. Len(D) : D[j] \in ReadCell
    BY <1>1, <1>2, Lengths
  <2>2. SubSeq(D, i + HostLen, Len(D)) \in Seq(ReadCell)
    BY <2>1, SubSeqProperties
  <2>3. HeadersIn(SubSeq(D, i + HostLen, Len(D))) \subseteq 0..MaxPackets
    BY <2>2, HeadersType
  <2> QED  BY <1>4, <2>3 DEF IInv, Types
<1>10. Types'
  <2>1. warned' \in BOOLEAN /\ renumbered' \in BOOLEAN /\ overdue' \in BOOLEAN
    <3>1. warned' = (s <= last_seq)
      BY <1>4
    <3>2. renumbered' = (got # Nothing /\ got'.first.era > got.first.era)
      BY <1>4
    <3>3. warned' \in BOOLEAN
      BY <3>1
    <3>4. renumbered' \in BOOLEAN
      BY <3>2
    <3>5. overdue' \in BOOLEAN
      OBVIOUS
    <3> QED  BY <3>3, <3>4, <3>5
  <2>2. last_seq' \in -1..SeqRange-1
    BY <1>3, <1>4, Lengths
  <2>3. Len(rx') <= RxLen /\ Len(buffer') < HostLen /\ rx' \in Seq(ReadCell)
    BY <1>6, HostAssumption
  <2> QED  BY <1>2, <1>4, <1>6, <1>8, <1>9, <2>1, <2>2, <2>3 DEF IInv, Types
<1>11. Shape'
  BY DEF IInv, Shape
<1>12. StreamInv'
  <2>1. Run(damaged', (buffer \o rx)', nextCell') /\ Honest((buffer \o rx)')
    BY <1>6 DEF Run, Honest
  <2>2. Behind(got', (buffer \o rx)', nextCell')
    BY <1>2, <1>4, <1>6 DEF Behind
  <2> QED  BY <2>1, <2>2 DEF StreamInv
<1>13. ~misleading => c.at = 1
  BY <1>1, <1>2 DEF Honest, c
<1>14. HostLen <= WireLen => ReturnsWholePackets'
  BY <1>2, <1>4, <1>13 DEF ReturnsWholePackets
<1>15. WarnsOfRenumbering'
  <2> SUFFICES ASSUME ~misleading, s <= last_seq
               PROVE  got # Nothing /\ c.era > got.first.era
    BY <1>2, <1>4 DEF WarnsOfRenumbering
  <2>1. s = c.seq /\ c.at = 1 /\ s \in 0..SeqRange-1
    BY <1>3, <1>13
  <2>2. got # Nothing
    <3>1. last_seq # -1
      BY <2>1, Lengths
    <3> QED  BY <3>1 DEF IInv, ReturnInv
  <2>3. last_seq = got.first.seq
    BY <2>2 DEF IInv, ReturnInv
  <2>4. got.first \in AnyCell /\ Later(got.first, c, HostLen)
    BY <1>5, <2>2
  <2>5. got.first.id # c.id
    <3> SUFFICES ASSUME got.first.id = c.id  PROVE FALSE
      OBVIOUS
    <3>1. c.at >= got.first.at + HostLen
      BY <1>2, <2>4, Lengths, SamePacket DEF Later
    <3>2. got.first.at >= 1 /\ got.first.at \in Int
      BY <2>4, Lengths DEF AnyCell
    <3> QED  BY <2>1, <3>1, <3>2, Lengths
  <2>6. /\ got.first.id \in Nat /\ c.id \in Nat /\ got.first.era \in Nat /\ c.era \in Nat
        /\ got.first.seq \in Int /\ c.seq \in Int
    BY <1>2, <2>4, Lengths DEF AnyCell
  <2>7. got.first.id < c.id /\ got.first.era <= c.era
    BY <2>4, <2>5, <2>6 DEF Later
  <2>8. got.first.era # c.era
    BY <2>1, <2>3, <2>4, <2>6, <2>7 DEF Later
  <2> QED  BY <2>2, <2>6, <2>7, <2>8
<1>16. ReturnInv'
  BY <1>2, <1>3, <1>4, <1>7, <1>13, <1>14, <1>15 DEF ReturnInv
<1> QED  BY <1>10, <1>11, <1>12, <1>16 DEF IInv

\* The client is caught in the parse loop.
LEMMA PollSpinsStep ==
    ASSUME IInv, pc = "waiting", pc' = "spinning", rx' = <<>>, NEW i \in Parsed(buffer \o rx),
           buffer' = SubSeq(buffer \o rx, i, Len(buffer \o rx)),
           UNCHANGED <<overdue, last_seq, hist, error_count, nextCell>>
    PROVE  IInv'
<1> DEFINE D == buffer \o rx
<1>1. D \in Seq(ReadCell)
  BY UnreadType DEF IInv
<1>2. i \in 1..Len(D) /\ Len(D) \in Nat
  BY <1>1, Lengths DEF Parsed
<1> HIDE DEF D
<1>3. /\ SubSeq(D, i, Len(D)) \in Seq(ReadCell)
      /\ Drops(D, SubSeq(D, i, Len(D)), i - 1)
  <2>1. i \in 1 .. Len(D) + 1
    BY <1>2
  <2> QED  BY <1>1, <2>1, SuffixDrops
<1>5. buffer' = SubSeq(D, i, Len(D)) /\ (buffer \o rx)' = SubSeq(D, i, Len(D))
  <2>1. buffer' = SubSeq(D, i, Len(D))
    BY DEF D
  <2> QED  BY <1>3, <2>1, ConcatEmptySeq
<1>6. rx' \in Seq(ReadCell) /\ Len(rx') <= RxLen
  BY HostAssumption
<1>7. Types'
  BY <1>3, <1>5, <1>6 DEF IInv, Types, hist, returned
<1>8. Shape'
  BY DEF IInv, Shape
<1>9. UNCHANGED <<nextCell, got, damaged, misleading, returned, last_seq>>
  BY DEF hist, returned
<1>10. StreamInv'
  <2>1. i - 1 \in Nat /\ Drops(buffer \o rx, (buffer \o rx)', i - 1)
    BY <1>2, <1>3, <1>5 DEF D
  <2> QED  BY <1>7, <1>9, <2>1, StreamDrops DEF IInv
<1>11. ReturnInv'
  BY <1>9, ReturnFrame DEF IInv
<1> QED  BY <1>7, <1>8, <1>10, <1>11 DEF IInv

\* A poll that finds nothing to return, spins, or returns a packet.
LEMMA PollStep == ASSUME IInv, Poll  PROVE IInv'
<1> DEFINE D == buffer \o rx
           i == Min(Parsed(D))
<1>1. /\ pc = "waiting" /\ rx' = <<>> /\ UNCHANGED <<error_count, nextCell>>
      /\ \/ /\ Parsed(D) = {} /\ buffer' = Unparsed(D)
            /\ UNCHANGED <<pc, overdue, last_seq, hist>>
         \/ /\ Parsed(D) # {} /\ buffer' = Leftover(D, i)
            /\ \E s \in SeqIn(D[i].cell) : TakePacket(D, i, s)
            /\ overdue' = FALSE /\ UNCHANGED pc
         \/ /\ Parsed(D) # {} /\ pc' = "spinning" /\ buffer' = SubSeq(D, i, Len(D))
            /\ UNCHANGED <<overdue, last_seq, hist>>
  BY DEF Poll, Extend
<1>2. ASSUME Parsed(D) # {}  PROVE i \in Parsed(D)
  <2>1. Parsed(D) \in SUBSET Nat
    BY DEF Parsed
  <2> HIDE DEF D
  <2> QED  BY <1>2, <2>1, MinIsIn
<1>3. CASE Parsed(D) = {} /\ buffer' = Unparsed(D) /\ UNCHANGED <<pc, overdue, last_seq, hist>>
  BY <1>1, <1>3, PollKeepsStep
<1>4. CASE /\ Parsed(D) # {} /\ buffer' = Leftover(D, i)
           /\ \E s \in SeqIn(D[i].cell) : TakePacket(D, i, s)
           /\ overdue' = FALSE /\ UNCHANGED pc
  <2>1. PICK s \in SeqIn(D[i].cell) : TakePacket(D, i, s)
    BY <1>4
  <2>2. i \in Parsed(D) /\ UNCHANGED <<pc, error_count, nextCell>>
    BY <1>1, <1>2, <1>4
  <2> HIDE DEF i
  <2> QED  BY <1>1, <1>4, <2>1, <2>2, PollReturnsStep
<1>5. CASE /\ Parsed(D) # {} /\ pc' = "spinning" /\ buffer' = SubSeq(D, i, Len(D))
           /\ UNCHANGED <<overdue, last_seq, hist>>
  <2>1. i \in Parsed(D)
    BY <1>2, <1>5
  <2> HIDE DEF i
  <2> QED  BY <1>1, <1>5, <2>1, PollSpinsStep
<1> QED  BY <1>1, <1>3, <1>4, <1>5

\* Every step keeps the invariant.
LEMMA NextIInv == IInv /\ [Next]_vars => IInv'
<1> SUFFICES ASSUME IInv, [Next]_vars  PROVE IInv'
  OBVIOUS
<1>1. CASE Line
  <2>1. PICK look \in LooksOf(nextCell), lost \in {FALSE, Lossy} : Arrive(look, lost)
    BY <1>1 DEF Line
  <2>2. lost \in BOOLEAN
    BY <2>1, HostAssumption
  <2> QED  BY <2>1, <2>2, ArriveStep
<1>2. CASE Reset
  BY <1>2, ResetStep
<1>3. CASE \E ok \in BOOLEAN : Connect(ok)
  BY <1>3, ConnectStep
<1>4. CASE Expire
  BY <1>4, ExpireStep
<1>5. CASE Poll
  BY <1>5, PollStep
<1>6. CASE TimedOut \/ SerialError
  BY <1>6, WaitFailsStep DEF TimedOut, SerialError
<1>7. CASE Interrupt
  BY <1>7, InterruptStep
<1>8. CASE UNCHANGED vars
  <2>1. UNCHANGED <<rx, buffer, last_seq, nextCell, hist, pc, overdue, error_count>>
    BY <1>8 DEF vars
  <2>2. Types'
    BY <2>1 DEF IInv, Types, hist, returned
  <2>3. Shape'
    BY <2>1 DEF IInv, Shape
  <2> QED  BY <2>1, <2>2, <2>3, QuietStep
<1> QED  BY <1>1, <1>2, <1>3, <1>4, <1>5, <1>6, <1>7, <1>8 DEF Next

LEMMA Inductive == Spec => []IInv
  BY InitIInv, NextIInv, PTL DEF Spec

-----------------------------------------------------------------------------
(* The theorems.                                                           *)

\* The client keeps its types, and between two polls its buffer holds less
\* than a packet, on any line and for any payload.
THEOREM TypeCorrect == Spec => []TypeOK
<1>1. IInv => TypeOK
  BY TypesAreTypeOK DEF IInv
<1> QED  BY <1>1, Inductive, PTL

\* Whatever is lost, and whatever the payload looks like, every packet that
\* wait_for_packet returns is behind the whole of the one before.
THEOREM ReturnsInOrder == Spec => InStreamOrder
<1>1. ASSUME IInv, [Next]_vars
      PROVE  [got' # got /\ got # Nothing
                => Position(got'.first) >= Position(got.first) + HostLen]_got
  <2> SUFFICES ASSUME got' # got, got # Nothing
               PROVE  Position(got'.first) >= Position(got.first) + HostLen
    OBVIOUS
  <2> DEFINE D == buffer \o rx
             i == Min(Parsed(D))
  <2>1. Parsed(D) # {} /\ \E s : TakePacket(D, i, s)
    <3>1. CASE Poll
      <4>1. \/ UNCHANGED hist
            \/ Parsed(D) # {} /\ \E s : TakePacket(D, i, s)
        BY <3>1 DEF Poll, Extend
      <4>2. UNCHANGED hist => got' = got
        BY DEF hist, returned
      <4> QED  BY <4>1, <4>2
    <3>2. CASE Line \/ Reset \/ Expire \/ TimedOut \/ SerialError \/ Interrupt
               \/ UNCHANGED vars \/ \E ok \in BOOLEAN : Connect(ok)
      BY <3>2 DEF Line, Arrive, Reset, Expire, TimedOut, SerialError, WaitFails, Interrupt,
                  Connect, vars, hist, returned
    <3> QED  BY <1>1, <3>1, <3>2 DEF Next
  <2>2. got'.first = D[i].cell /\ i \in 1..Len(D)
    <3>1. got'.first = D[i].cell
      <4>1. Window(D, i).first = D[i].cell
        BY DEF Window
      <4>2. got' = Window(D, i)
        <5> HIDE DEF D, i
        <5> QED  BY <2>1 DEF TakePacket
      <4> HIDE DEF D, i
      <4> QED  BY <4>1, <4>2
    <3>2. D \in Seq(ReadCell) /\ Parsed(D) \in SUBSET Nat
      BY <1>1, UnreadType DEF IInv, Parsed
    <3>3. i \in Parsed(D)
      <4> HIDE DEF D
      <4> QED  BY <2>1, <3>2, MinIsIn
    <3>4. i \in 1..Len(D)
      <4> HIDE DEF i, D
      <4> QED  BY <3>2, <3>3, Lengths DEF Parsed
    <3> QED  BY <3>1, <3>4
  <2>3. Later(got.first, D[i].cell, HostLen)
    <3> HIDE DEF i
    <3> QED  BY <1>1, <2>2 DEF IInv, StreamInv, Behind
  <2> QED  BY <2>2, <2>3 DEF Later
<1> QED  BY <1>1, Inductive, PTL DEF Spec, InStreamOrder

\* While no payload has looked like a header, every packet that the client
\* returns starts where one starts, and is what was sent unless it was damaged:
\* behind every loss, reset, timeout or reconnection.
THEOREM WholePacketsReturned ==
    ASSUME HostLen <= WireLen
    PROVE  Spec => []ReturnsWholePackets
<1>1. IInv => ReturnsWholePackets
  BY DEF IInv, ReturnInv
<1> QED  BY <1>1, Inductive, PTL

\* The warning of "possible packet loss" means that the numbers have begun
\* anew, and nothing else.
THEOREM WarningMeansRenumbering == Spec => []WarnsOfRenumbering
<1>1. IInv => WarnsOfRenumbering
  BY DEF IInv, ReturnInv
<1> QED  BY <1>1, Inductive, PTL

-----------------------------------------------------------------------------
(* Where the headers have gone.  An invariant of its own, beside IInv: a   *)
(* header that was sent behind one that is still unread is unread as well, *)
(* or its packet is damaged.                                               *)

\* The packets whose first cell comes behind cell c and before cell d.
Between(c, d) == {id \in Nat : c.id < id /\ (id < d.id \/ (id = d.id /\ d.at > 1))}

\* A header looks like one.
Shown(D) == \A i \in 1..Len(D) : D[i].cell.at = 1 => D[i].look # "data"

\* No header is missing in D from its first cell to c, but of damaged packets.
Complete(dam, D, c) ==
    \A i \in 1..Len(D) : Between(D[i].cell, c) \subseteq dam \union HeadersIn(D)

\* What MissedAreAccountedFor allows.
Excused(dam, thrown) == {id \in Int : {id, id - 1} \intersect dam # {} \/ id \in thrown}

\* Nor behind the packet g, but of packets that may be missed.
Accounted(g, dam, thrown, D, c) ==
    g # Nothing => Between(g.first, c) \subseteq Excused(dam, thrown) \union HeadersIn(D)

MissedInv ==
    /\ pc = "start" => got = Nothing
    /\ Shown(buffer \o rx)
    /\ Complete(damaged, buffer \o rx, nextCell)
    /\ ~misleading => Accounted(got, damaged, thrownAway, buffer \o rx, nextCell)
    /\ MissedAreAccountedFor

\* The packets whose header is among some cells.
LEMMA HeadersAre ==
    ASSUME NEW D \in Seq(ReadCell), NEW id
    PROVE  id \in HeadersIn(D) <=> \E k \in 1..Len(D) : D[k].cell.at = 1 /\ D[k].cell.id = id
<1>1. DOMAIN D = 1..Len(D)
  OBVIOUS
<1> QED  BY <1>1, Zenon DEF HeadersIn

\* One cell further on there is one header more at most, and that is d.
LEMMA BetweenStep ==
    ASSUME NEW c \in AnyCell, NEW d \in AnyCell, c.id <= d.id,
           NEW e, e = CellAfter(d) \/ e = PacketAfter(d, 0), NEW id \in Between(c, e)
    PROVE  id \in Between(c, d) \/ (id = d.id /\ d.at = 1)
<1>1. /\ c.id \in Nat /\ d.id \in Nat /\ d.at \in Nat /\ d.at >= 1 /\ d.id \in Nat
  BY Lengths DEF AnyCell
<1>2. e.at > 1 => e.id = d.id
  <2>1. PacketAfter(d, 0).at = 1 /\ PacketAfter(d, (d.seq + 1) % SeqRange).at = 1
    BY DEF PacketAfter
  <2>2. [d EXCEPT !.at = @ + 1].id = d.id
    BY DEF AnyCell
  <2>3. e = [d EXCEPT !.at = @ + 1] \/ e = PacketAfter(d, 0)
           \/ e = PacketAfter(d, (d.seq + 1) % SeqRange)
    BY DEF CellAfter
  <2>4. CASE e = [d EXCEPT !.at = @ + 1]
    BY <2>2, <2>4, Zenon
  <2>5. CASE e.at = 1
    BY <2>5
  <2> QED  BY <2>1, <2>3, <2>4, <2>5
<1>3. e.id <= d.id + 1 /\ e \in AnyCell
  BY AfterIsLater
<1>4. e.id \in Nat /\ e.at \in Nat
  BY <1>3, Lengths DEF AnyCell
<1>5. id \in Nat /\ c.id < id /\ (id < e.id \/ (id = e.id /\ e.at > 1))
  BY DEF Between
<1>6. id <= d.id
  BY <1>1, <1>2, <1>3, <1>4, <1>5
<1> QED  BY <1>1, <1>5, <1>6 DEF Between

\* Dropping cells from the front drops the headers among them.
LEMMA DropHeaders ==
    ASSUME NEW D \in Seq(ReadCell), NEW E \in Seq(ReadCell), NEW n \in Nat, Drops(D, E, n),
           NEW id \in HeadersIn(D)
    PROVE  id \in HeadersIn(E) \/ \E k \in 1..n : D[k].cell.at = 1 /\ D[k].cell.id = id
<1>1. PICK k \in 1..Len(D) : D[k].cell.at = 1 /\ D[k].cell.id = id
  BY HeadersAre
<1>2. CASE k > n
  <2>1. k - n \in 1..Len(E) /\ n + (k - n) = k
    BY <1>2 DEF Drops
  <2>2. E[k - n] = D[k]
    BY <2>1 DEF Drops
  <2> QED  BY <1>1, <2>1, <2>2, HeadersAre
<1> QED  BY <1>1, <1>2

\* What is said of the packets behind each cell holds of the cells that are left
\* when the first ones are dropped.
LEMMA DropsComplete ==
    ASSUME NEW D \in Seq(ReadCell), NEW E \in Seq(ReadCell), NEW n \in Nat, Drops(D, E, n),
           NEW dam, NEW c, Run(dam, D, c), Shown(D), Complete(dam, D, c)
    PROVE  Shown(E) /\ Complete(dam, E, c)
<1>1. Len(D) \in Nat /\ Len(E) \in Nat /\ Len(D) = n + Len(E)
  BY DEF Drops
<1>2. \A i \in 1..Len(E) : n + i \in 1..Len(D) /\ E[i] = D[n + i]
  BY <1>1 DEF Drops
<1>3. Shown(E)
  BY <1>2 DEF Shown
<1>4. ASSUME NEW i \in 1..Len(E), NEW id \in Between(E[i].cell, c), id \notin dam
      PROVE  id \in HeadersIn(E)
  <2>1. n + i \in 1..Len(D) /\ E[i] = D[n + i]
    BY <1>2
  <2>2. id \in HeadersIn(D)
    BY <1>4, <2>1 DEF Complete
  <2>3. ASSUME NEW k \in 1..n, D[k].cell.id = id  PROVE FALSE
    <3>1. k \in 1..Len(D) /\ k <= n + i
      BY <1>1
    <3>2. D[k].cell.id <= D[n + i].cell.id
      BY <2>1, <3>1 DEF Run, Follows, Later
    <3>3. D[n + i].cell.id < id /\ id \in Nat
      BY <2>1 DEF Between
    <3>4. D[n + i].cell.id \in Nat
      BY <2>1, ReadCellType DEF AnyCell
    <3> QED  BY <2>3, <3>2, <3>3, <3>4
  <2> QED  BY <2>2, <2>3, DropHeaders
<1> QED  BY <1>3, <1>4 DEF Complete

\* A cell comes in, or is lost: what is known of the headers before it stays.
LEMMA AddsHeaders ==
    ASSUME NEW D \in Seq(ReadCell), NEW E \in Seq(ReadCell), NEW x \in ReadCell, Adds(D, E, x)
    PROVE  /\ HeadersIn(D) \subseteq HeadersIn(E)
           /\ x.cell.at = 1 => x.cell.id \in HeadersIn(E)
<1>1. Len(D) \in Nat /\ Len(E) = Len(D) + 1 /\ E[Len(D) + 1] = x
  BY DEF Adds
<1>2. ASSUME NEW id \in HeadersIn(D)  PROVE id \in HeadersIn(E)
  <2>1. PICK k \in 1..Len(D) : D[k].cell.at = 1 /\ D[k].cell.id = id
    BY HeadersAre
  <2>2. k \in 1..Len(E) /\ E[k] = D[k]
    BY <1>1 DEF Adds
  <2> QED  BY <2>1, <2>2, HeadersAre
<1>3. ASSUME x.cell.at = 1  PROVE x.cell.id \in HeadersIn(E)
  <2>1. Len(D) + 1 \in 1..Len(E)
    BY <1>1
  <2> QED  BY <1>1, <1>3, <2>1, HeadersAre
<1> QED  BY <1>2, <1>3

\* It holds when the next cell of the stream is added at the end.
LEMMA AddsComplete ==
    ASSUME NEW D \in Seq(ReadCell), NEW E \in Seq(ReadCell), NEW x \in ReadCell, Adds(D, E, x),
           NEW dam, Run(dam, D, x.cell), Shown(D), Complete(dam, D, x.cell),
           x.cell.at = 1 => x.look # "data"
    PROVE  Shown(E) /\ Complete(dam, E, CellAfter(x.cell))
<1> DEFINE d == x.cell
           e == CellAfter(d)
<1>1. Len(D) \in Nat /\ Len(E) = Len(D) + 1 /\ d \in AnyCell
  BY CellType DEF Adds, ReadCell
<1>2. \A i \in 1..Len(E) :
          (i \in 1..Len(D) /\ E[i] = D[i]) \/ (i = Len(D) + 1 /\ E[i] = x)
  BY <1>1 DEF Adds
<1>3. Shown(E)
  BY <1>2 DEF Shown
<1>4. HeadersIn(D) \subseteq HeadersIn(E) /\ (d.at = 1 => d.id \in HeadersIn(E))
  BY AddsHeaders
<1> HIDE DEF e
<1>5. ASSUME NEW i \in 1..Len(E), NEW id \in Between(E[i].cell, e), id \notin dam
      PROVE  id \in HeadersIn(E)
  <2>1. CASE i \in 1..Len(D) /\ E[i] = D[i]
    <3>1. D[i].cell \in AnyCell /\ D[i].cell.id <= d.id
      BY <2>1, ReadCellType DEF Run, Follows, Later
    <3>2. id \in Between(D[i].cell, d) \/ (id = d.id /\ d.at = 1)
      BY <1>1, <1>5, <2>1, <3>1, BetweenStep DEF e
    <3> QED  BY <1>4, <1>5, <2>1, <3>2 DEF Complete
  <2>2. CASE E[i] = x
    <3>1. d.id \in Nat /\ d.id <= d.id
      BY <1>1 DEF AnyCell
    <3>2. id \in Between(d, d) \/ (id = d.id /\ d.at = 1)
      BY <1>1, <1>5, <2>2, <3>1, BetweenStep DEF e
    <3> QED  BY <1>4, <3>1, <3>2 DEF Between
  <2> QED  BY <1>2, <2>1, <2>2
<1> QED  BY <1>3, <1>5 DEF Complete, e

\* A cell or a rest of a packet that is lost damages its packet.
LEMMA LossComplete ==
    ASSUME NEW D \in Seq(ReadCell), NEW d \in AnyCell,
           NEW e, e = CellAfter(d) \/ e = PacketAfter(d, 0),
           NEW dam, Run(dam, D, d), Complete(dam, D, d)
    PROVE  Complete(dam \union {d.id}, D, e)
<1>1. ASSUME NEW i \in 1..Len(D), NEW id \in Between(D[i].cell, e)
      PROVE  id \in (dam \union {d.id}) \union HeadersIn(D)
  <2>1. D[i].cell \in AnyCell /\ D[i].cell.id <= d.id
    BY ReadCellType DEF Run, Follows, Later
  <2>2. id \in Between(D[i].cell, d) \/ id = d.id
    BY <1>1, <2>1, BetweenStep
  <2> QED  BY <2>2 DEF Complete
<1> QED  BY <1>1 DEF Complete

\* What is excused stays so.
LEMMA MissedFrame ==
    ASSUME MissedAreAccountedFor, UNCHANGED <<got, missed>>, misleading => misleading',
           damaged \subseteq damaged', thrownAway \subseteq thrownAway'
    PROVE  MissedAreAccountedFor'
  BY DEF MissedAreAccountedFor

\* A packet that is damaged is excused, and whatever was stays so.
LEMMA ExcusedGrows ==
    ASSUME NEW dam, NEW thrown, NEW id \in Nat
    PROVE  Excused(dam, thrown) \union {id} \subseteq Excused(dam \union {id}, thrown)
<1>1. Excused(dam, thrown) \subseteq Excused(dam \union {id}, thrown)
  BY DEF Excused
<1>2. id \in Excused(dam \union {id}, thrown)
  <2>1. id \in Int /\ id \in {id, id - 1} \intersect (dam \union {id})
    OBVIOUS
  <2> QED  BY <2>1, Zenon DEF Excused
<1> QED  BY <1>1, <1>2

\* The header of a packet arrives, or the packet is damaged.
LEMMA ArriveAccounts ==
    ASSUME IInv, IInv', MissedInv, NEW look \in LooksOf(nextCell), NEW lost \in BOOLEAN,
           Arrive(look, lost)
    PROVE  MissedInv'
<1> DEFINE x == [cell |-> nextCell, look |-> look]
           D == buffer \o rx
           E == (buffer \o rx)'
<1>1. /\ D \in Seq(ReadCell) /\ E \in Seq(ReadCell) /\ nextCell \in AnyCell /\ x \in ReadCell
      /\ nextCell.id \in Nat /\ (got = Nothing \/ got.first \in AnyCell)
  <2>1. E \in Seq(ReadCell)
    BY ConcatProperties DEF IInv, Types
  <2>2. nextCell \in Cell /\ nextCell \in AnyCell /\ look \in Looking
    BY CellType, HostAssumption DEF IInv, Types, LooksOf, Looking
  <2> QED  BY <2>1, <2>2, UnreadType, GotType DEF IInv, ReadCell, Looking, AnyCell
<1>2. /\ nextCell' = CellAfter(nextCell)
      /\ damaged' = IF lost THEN damaged \union {nextCell.id} ELSE damaged
      /\ misleading' = (misleading \/ (nextCell.at > 1 /\ look # "data"))
      /\ got' = got /\ missed' = missed /\ pc' = pc /\ thrownAway' = thrownAway
  BY DEF Arrive, returned
<1>3. MissedAreAccountedFor'
  BY <1>2, MissedFrame DEF MissedInv
<1>4. /\ Run(damaged, D, nextCell) /\ Behind(got, D, nextCell)
      /\ Shown(D) /\ Complete(damaged, D, nextCell)
      /\ ~misleading => Accounted(got, damaged, thrownAway, D, nextCell)
  BY DEF IInv, StreamInv, MissedInv
<1>5. ASSUME got # Nothing, ~misleading',
             NEW id \in Between(got.first, nextCell')
      PROVE  \/ id \in Excused(damaged, thrownAway) \union HeadersIn(D)
             \/ id = nextCell.id /\ nextCell.at = 1
  <2>1. got.first \in AnyCell /\ got.first.id <= nextCell.id
    BY <1>1, <1>4, <1>5 DEF Behind, Later
  <2>2. id \in Between(got.first, nextCell) \/ (id = nextCell.id /\ nextCell.at = 1)
    BY <1>1, <1>2, <1>5, <2>1, BetweenStep
  <2> QED  BY <1>2, <1>4, <1>5, <2>2 DEF Accounted
<1>6. CASE lost
  <2>1. E = D /\ damaged' = damaged \union {nextCell.id}
    BY <1>2, <1>6 DEF Arrive
  <2>2. Complete(damaged', D, nextCell')
    BY <1>1, <1>2, <1>4, <2>1, LossComplete
  <2> HIDE DEF D, E
  <2>3. ASSUME ~misleading'  PROVE Accounted(got, damaged', thrownAway, D, nextCell')
    <3>1. Excused(damaged, thrownAway) \union {nextCell.id} \subseteq Excused(damaged', thrownAway)
      BY <1>1, <2>1, ExcusedGrows
    <3> QED  BY <1>5, <2>3, <3>1 DEF Accounted
  <2> QED  BY <1>2, <1>3, <1>4, <2>1, <2>2, <2>3 DEF MissedInv, D, E
<1>7. CASE ~lost
  <2>1. rx' = Append(rx, x) /\ buffer' = buffer /\ damaged' = damaged
    BY <1>2, <1>7 DEF Arrive
  <2>2. Adds(D, E, x)
    BY <1>1, <2>1, ArriveAdds DEF IInv
  <2>3. x.cell = nextCell /\ (nextCell.at = 1 => x.look # "data")
    BY DEF LooksOf
  <2> HIDE DEF D, E, x
  <2>4. Shown(E) /\ Complete(damaged, E, nextCell')
    BY <1>1, <1>2, <1>4, <2>2, <2>3, AddsComplete
  <2>5. HeadersIn(D) \subseteq HeadersIn(E) /\ (nextCell.at = 1 => nextCell.id \in HeadersIn(E))
    BY <1>1, <2>2, <2>3, AddsHeaders
  <2>6. ~misleading' => Accounted(got, damaged, thrownAway, E, nextCell')
    BY <1>5, <2>5 DEF Accounted
  <2> QED  BY <1>2, <1>3, <2>1, <2>4, <2>6 DEF MissedInv, D, E
<1> QED  BY <1>6, <1>7

\* A packet that a reset cuts short is damaged.
LEMMA ResetAccounts == ASSUME IInv, MissedInv, Reset  PROVE MissedInv'
<1> DEFINE D == buffer \o rx
<1>1. /\ D \in Seq(ReadCell) /\ nextCell \in AnyCell /\ nextCell.id \in Nat
      /\ got = Nothing \/ got.first \in AnyCell
  BY UnreadType, GotType, CellType DEF IInv, Types, AnyCell
<1>2. /\ nextCell' = PacketAfter(nextCell, 0) /\ damaged' = damaged \union {nextCell.id}
      /\ misleading' = misleading /\ got' = got /\ missed' = missed /\ pc' = pc
      /\ thrownAway' = thrownAway /\ (buffer \o rx)' = D
  BY DEF Reset, returned
<1> HIDE DEF D
<1>3. MissedAreAccountedFor'
  BY <1>2, MissedFrame DEF MissedInv
<1>4. /\ Run(damaged, D, nextCell) /\ Behind(got, D, nextCell)
      /\ Shown(D) /\ Complete(damaged, D, nextCell)
      /\ ~misleading => Accounted(got, damaged, thrownAway, D, nextCell)
  BY DEF IInv, StreamInv, MissedInv, D
<1>5. Complete(damaged', D, nextCell')
  BY <1>1, <1>2, <1>4, LossComplete
<1>6. ASSUME ~misleading, got # Nothing, NEW id \in Between(got.first, nextCell')
      PROVE  id \in Excused(damaged', thrownAway) \union HeadersIn(D)
  <2>1. got.first \in AnyCell /\ got.first.id <= nextCell.id
    BY <1>1, <1>4, <1>6 DEF Behind, Later
  <2>2. id \in Between(got.first, nextCell) \/ id = nextCell.id
    BY <1>1, <1>2, <1>6, <2>1, BetweenStep
  <2>3. id \in Excused(damaged, thrownAway) \union HeadersIn(D) \/ id = nextCell.id
    BY <1>4, <1>6, <2>2 DEF Accounted
  <2>4. Excused(damaged, thrownAway) \union {nextCell.id} \subseteq Excused(damaged', thrownAway)
    BY <1>1, <1>2, ExcusedGrows
  <2> QED  BY <2>3, <2>4
<1>7. ~misleading => Accounted(got, damaged', thrownAway, D, nextCell')
  BY <1>6 DEF Accounted
<1> QED  BY <1>2, <1>3, <1>4, <1>5, <1>7 DEF MissedInv

\* Cells are dropped from the front; the headers among them, if packets have
\* been returned, are listed.
LEMMA DropsAccount ==
    ASSUME IInv, IInv', MissedInv, NEW n \in Nat, Drops(buffer \o rx, (buffer \o rx)', n),
           UNCHANGED <<nextCell, got, missed, damaged, misleading>>,
           thrownAway \subseteq thrownAway', pc' = "start" => pc = "start",
           got # Nothing /\ ~misleading =>
              \A k \in 1..n : (buffer \o rx)[k].cell.at = 1
                                 => (buffer \o rx)[k].cell.id \in thrownAway'
    PROVE  MissedInv'
<1> DEFINE D == buffer \o rx
           E == (buffer \o rx)'
<1>1. D \in Seq(ReadCell) /\ E \in Seq(ReadCell)
  <2>1. E \in Seq(ReadCell)
    BY ConcatProperties DEF IInv, Types
  <2> QED  BY <2>1, UnreadType DEF IInv
<1>2. MissedAreAccountedFor'
  BY MissedFrame DEF MissedInv
<1>3. /\ Run(damaged, D, nextCell) /\ Shown(D) /\ Complete(damaged, D, nextCell)
      /\ ~misleading => Accounted(got, damaged, thrownAway, D, nextCell)
      /\ Drops(D, E, n)
      /\ got # Nothing /\ ~misleading =>
            \A k \in 1..n : D[k].cell.at = 1 => D[k].cell.id \in thrownAway'
  BY DEF IInv, StreamInv, MissedInv
<1> HIDE DEF D, E
<1>4. Shown(E) /\ Complete(damaged, E, nextCell)
  BY <1>1, <1>3, DropsComplete
<1>5. ASSUME ~misleading, got # Nothing, NEW id \in Between(got.first, nextCell)
      PROVE  id \in Excused(damaged, thrownAway') \union HeadersIn(E)
  <2>1. id \in Excused(damaged, thrownAway) \union HeadersIn(D)
    BY <1>3, <1>5 DEF Accounted
  <2>2. CASE id \in Excused(damaged, thrownAway)
    BY <2>2 DEF Excused
  <2>3. CASE id \in HeadersIn(D)
    <3>1. id \in HeadersIn(E) \/ id \in thrownAway'
      BY <1>1, <1>3, <1>5, <2>3, DropHeaders
    <3> QED  BY <1>5, <3>1 DEF Excused, Between
  <2> QED  BY <2>1, <2>2, <2>3
<1>6. ~misleading => Accounted(got, damaged, thrownAway', E, nextCell)
  BY <1>5 DEF Accounted
<1> QED  BY <1>2, <1>4, <1>6 DEF MissedInv, E

\* Steps that leave cells and history alone keep the account.
LEMMA QuietAccounts ==
    ASSUME MissedInv, UNCHANGED <<rx, buffer, nextCell, hist>>, pc' = "start" => pc = "start"
    PROVE  MissedInv'
<1>1. UNCHANGED <<got, missed, damaged, misleading, thrownAway>>
  BY DEF hist, returned
<1>2. MissedAreAccountedFor'
  BY <1>1, MissedFrame DEF MissedInv
<1> QED  BY <1>1, <1>2 DEF MissedInv

\* Connecting drops cells before anything has been returned.
LEMMA ConnectAccounts ==
    ASSUME IInv, IInv', MissedInv, NEW ok \in BOOLEAN, Connect(ok)
    PROVE  MissedInv'
<1>1. /\ pc = "start" /\ pc' = IF ok THEN "waiting" ELSE "closed"
      /\ rx' = IF ok THEN <<>> ELSE rx
      /\ thrownAway' = IF ok THEN thrownAway \union HeadersIn(rx) ELSE thrownAway
      /\ UNCHANGED <<buffer, nextCell, returned, got, missed, damaged, misleading>>
  BY DEF Connect, returned
<1>2. buffer = <<>> /\ got = Nothing
  BY <1>1 DEF IInv, Shape, MissedInv
<1>3. CASE ~ok
  BY <1>1, <1>3, QuietAccounts DEF hist
<1>4. CASE ok
  <2>1. (buffer \o rx)' = <<>> /\ Len(<<>>) = 0 /\ Len(buffer \o rx) \in Nat
    BY <1>1, <1>2, <1>4, UnreadType DEF IInv
  <2>2. Drops(buffer \o rx, (buffer \o rx)', Len(buffer \o rx))
    BY <2>1 DEF Drops
  <2> QED  BY <1>1, <1>2, <1>4, <2>1, <2>2, DropsAccount
<1> QED  BY <1>3, <1>4

\* What a failed wait throws away is excused.
LEMMA WaitFailsAccounts ==
    ASSUME IInv, IInv', MissedInv, pc = "waiting", WaitFails
    PROVE  MissedInv'
<1>1. /\ pc' # "start" /\ buffer' = <<>>
      /\ thrownAway' = thrownAway \union HeadersIn(buffer)
      /\ UNCHANGED <<rx, nextCell, got, missed, damaged, misleading>>
  BY DEF WaitFails, returned
<1>2. buffer \in Seq(ReadCell) /\ rx \in Seq(ReadCell) /\ Len(buffer) \in Nat
  BY DEF IInv, Types
<1>3. Drops(buffer \o rx, (buffer \o rx)', Len(buffer))
  BY <1>1, WaitDrops DEF IInv
<1>4. ASSUME NEW k \in 1..Len(buffer), (buffer \o rx)[k].cell.at = 1
      PROVE  (buffer \o rx)[k].cell.id \in thrownAway'
  <2>1. (buffer \o rx)[k] = buffer[k]
    <3>1. k \in 1..Len(buffer) + Len(rx) /\ k <= Len(buffer)
      BY <1>2
    <3> QED  BY <3>1, UnreadType DEF IInv
  <2>2. buffer[k].cell.id \in HeadersIn(buffer)
    BY <1>2, <1>4, <2>1, HeadersAre
  <2> QED  BY <1>1, <2>1, <2>2
<1> QED  BY <1>1, <1>2, <1>3, <1>4, DropsAccount

\* Before the first cell that parses, as before one that would, no header is.
LEMMA NoHeaderBefore ==
    ASSUME NEW D \in Seq(ReadCell), Shown(D), NEW k \in 1..(Len(D) - HostLen) + 1,
           k \notin Parsed(D)
    PROVE  D[k].cell.at # 1
<1>1. k \in 1..Len(D)
  BY Lengths
<1>2. k \in 1..Len(D) - HostLen + 1
  BY Lengths
<1>3. ~(D[k].look # "data")
  BY <1>2 DEF Parsed
<1> QED  BY <1>1, <1>3 DEF Shown

\* A poll without a packet drops no header of a packet that was sent.
LEMMA PollKeepsAccounts ==
    ASSUME IInv, IInv', MissedInv, rx' = <<>>, Parsed(buffer \o rx) = {},
           buffer' = Unparsed(buffer \o rx), UNCHANGED <<pc, hist, nextCell>>
    PROVE  MissedInv'
<1> DEFINE D == buffer \o rx
<1>1. D \in Seq(ReadCell) /\ Shown(D)
  BY UnreadType DEF IInv, MissedInv
<1>2. PICK m \in Nat : Drops(D, Unparsed(D), m) /\ 1..m \subseteq 1..(Len(D) - HostLen) + 1
  <2> HIDE DEF D
  <2> QED  BY <1>1, UnparsedDrops
<1>3. (buffer \o rx)' = Unparsed(D)
  <2>1. Unparsed(D) \in Seq(ReadCell)
    <3> HIDE DEF D
    <3> QED  BY <1>1, UnparsedDrops
  <2> QED  BY <2>1, ConcatEmptySeq
<1>4. UNCHANGED <<nextCell, got, missed, damaged, misleading, thrownAway, pc>>
  BY DEF hist, returned
<1>5. \A k \in 1..m : (buffer \o rx)[k].cell.at # 1
  <2>1. Parsed(D) = {}
    OBVIOUS
  <2> HIDE DEF D
  <2>2. \A k \in 1..m : D[k].cell.at # 1
    BY <1>1, <1>2, <2>1, NoHeaderBefore
  <2> QED  BY <2>2 DEF D
<1> QED  BY <1>2, <1>3, <1>4, <1>5, DropsAccount

\* A poll that is to spin keeps everything from the first header on.
LEMMA PollSpinsAccounts ==
    ASSUME IInv, IInv', MissedInv, rx' = <<>>, pc' = "spinning", NEW i \in Parsed(buffer \o rx),
           \A k \in Parsed(buffer \o rx) : i <= k,
           buffer' = SubSeq(buffer \o rx, i, Len(buffer \o rx)), UNCHANGED <<hist, nextCell>>
    PROVE  MissedInv'
<1> DEFINE D == buffer \o rx
<1>1. D \in Seq(ReadCell) /\ Shown(D) /\ i \in Parsed(D) /\ \A k \in Parsed(D) : i <= k
  BY UnreadType DEF IInv, MissedInv
<1>2. buffer' = SubSeq(D, i, Len(D))
  OBVIOUS
<1> HIDE DEF D
<1>3. i \in 1..(Len(D) - HostLen) + 1 /\ i \in 1..Len(D) + 1 /\ i - 1 \in Nat /\ Len(D) \in Nat
  BY <1>1, Lengths DEF Parsed
<1>4. SubSeq(D, i, Len(D)) \in Seq(ReadCell) /\ Drops(D, SubSeq(D, i, Len(D)), i - 1)
  BY <1>1, <1>3, SuffixDrops
<1>5. (buffer \o rx)' = SubSeq(D, i, Len(D))
  BY <1>2, <1>4, ConcatEmptySeq
<1>6. UNCHANGED <<nextCell, got, missed, damaged, misleading, thrownAway>>
  BY DEF hist, returned
<1>7. ASSUME NEW k \in 1 .. i - 1  PROVE D[k].cell.at # 1
  <2>1. k \in 1..(Len(D) - HostLen) + 1 /\ ~(i <= k)
    BY <1>3, Lengths
  <2>2. k \notin Parsed(D)
    BY <1>1, <2>1
  <2> QED  BY <1>1, <2>1, <2>2, NoHeaderBefore
<1> QED  BY <1>3, <1>4, <1>5, <1>6, <1>7, DropsAccount DEF D

\* A header that is returned in the window of another packet's comes behind a
\* damaged one: a whole packet is longer than the window.
LEMMA SwallowedBehindDamaged ==
    ASSUME HostLen <= WireLen, NEW D \in Seq(ReadCell), NEW dam, NEW d \in AnyCell,
           Run(dam, D, d), Complete(dam, D, d),
           NEW i \in 1..Len(D), D[i].cell.at = 1,
           NEW k \in 1..Len(D), k < i + HostLen, D[k].cell.at = 1, D[k].cell.id > D[i].cell.id
    PROVE  D[k].cell.id - 1 \in dam
<1> DEFINE c == D[i].cell
           id == D[k].cell.id
<1>1. /\ c \in AnyCell /\ D[k].cell \in AnyCell /\ c.id \in Nat /\ id \in Nat /\ id - 1 \in Nat
      /\ d.id \in Nat /\ id <= d.id /\ id > c.id
  <2>1. c \in AnyCell /\ D[k].cell \in AnyCell /\ id <= d.id
    BY ReadCellType DEF Run, Follows, Later
  <2>2. c.id \in Nat /\ id \in Nat /\ d.id \in Nat
    BY <2>1 DEF AnyCell
  <2>3. id > c.id /\ id - 1 \in Nat
    BY <2>2
  <2> QED  BY <2>1, <2>2, <2>3
\* A packet's header at l and another's, less than a packet further on.
<1>2. ASSUME NEW l \in 1..Len(D), l >= i, D[l].cell.at = 1, D[l].cell.id = id - 1,
             id - 1 \notin dam
      PROVE  FALSE
  <2>1. l < k
    <3>1. CASE k <= l
      <4>1. D[k].cell.id <= D[l].cell.id
        BY <3>1 DEF Run, Follows, Later
      <4> QED  BY <1>1, <1>2, <4>1
    <3> QED  BY <3>1
  <2>2. 1 + (k - l) <= WireLen /\ l <= k
    BY <1>2, <2>1, Lengths
  <2>3. Follows(dam, D[l].cell, D[k].cell, k - l)
    BY <2>2 DEF Run
  <2>4. D[k].cell = [D[l].cell EXCEPT !.at = @ + (k - l)]
    BY <1>2, <2>2, <2>3 DEF Follows
  <2>5. D[k].cell.id = D[l].cell.id
    BY <2>4, ReadCellType DEF AnyCell
  <2> QED  BY <1>1, <1>2, <2>5
<1>3. CASE id - 1 = c.id
  BY <1>2, <1>3
<1>4. CASE id - 1 # c.id
  <2>1. id - 1 \in Between(c, d)
    BY <1>1, <1>4 DEF Between
  <2>2. id - 1 \in dam \/ id - 1 \in HeadersIn(D)
    BY <2>1 DEF Complete
  <2>3. ASSUME id - 1 \in HeadersIn(D), id - 1 \notin dam  PROVE FALSE
    <3>1. PICK l \in 1..Len(D) : D[l].cell.at = 1 /\ D[l].cell.id = id - 1
      BY <2>3, HeadersAre
    <3>2. l >= i
      <4>1. CASE l <= i
        <5>1. D[l].cell.id <= c.id
          BY <4>1 DEF Run, Follows, Later
        <5> QED  BY <1>1, <1>4, <3>1, <5>1
      <4> QED  BY <4>1
    <3> QED  BY <1>2, <2>3, <3>1, <3>2
  <2> QED  BY <2>2, <2>3
<1> QED  BY <1>3, <1>4

\* A packet is returned.
LEMMA PollReturnsAccounts ==
    ASSUME IInv, MissedInv, HostLen <= WireLen, pc = "waiting", rx' = <<>>,
           NEW i \in Parsed(buffer \o rx), \A k \in Parsed(buffer \o rx) : i <= k,
           buffer' = Leftover(buffer \o rx, i),
           NEW s, TakePacket(buffer \o rx, i, s), UNCHANGED <<pc, nextCell>>
    PROVE  MissedInv'
<1> DEFINE D == buffer \o rx
           c == D[i].cell
           E == SubSeq(D, i + HostLen, Len(D))
<1>1. /\ D \in Seq(ReadCell) /\ Run(damaged, D, nextCell) /\ Behind(got, D, nextCell)
      /\ Shown(D) /\ Complete(damaged, D, nextCell) /\ nextCell \in AnyCell
      /\ ~misleading => Honest(D) /\ Accounted(got, damaged, thrownAway, D, nextCell)
      /\ i \in Parsed(D) /\ \A k \in Parsed(D) : i <= k
  BY UnreadType, CellType DEF IInv, StreamInv, MissedInv, Types
<1>2. buffer' = <<>> /\ (buffer \o rx)' = <<>> /\ Len(<<>>) = 0 /\ <<>> \in Seq(ReadCell)
  BY DEF Leftover
<1>3. HeadersIn(<<>>) = {}
  <2>1. ASSUME NEW id \in HeadersIn(<<>>)  PROVE FALSE
    <3>1. \E k \in 1..Len(<<>>) : TRUE
      BY <1>2, <2>1, HeadersAre
    <3> QED  BY <1>2, <3>1
  <2> QED  BY <2>1
<1>4. /\ got' = Window(D, i)
      /\ missed' = IF got = Nothing \/ got'.first.id = got.first.id THEN 0
                   ELSE (got'.first.id - got.first.id) - 1
      /\ thrownAway' = thrownAway \union HeadersIn(E)
      /\ damaged' = damaged /\ misleading' = misleading
  BY <1>2, <1>3 DEF TakePacket
<1>5. /\ i \in 1..Len(D) /\ D[i].look # "data" /\ c \in AnyCell /\ got'.first = c
      /\ i + HostLen \in 1 .. Len(D) + 1 /\ Len(D) \in Nat
      /\ c.id \in Nat /\ c.id <= nextCell.id /\ nextCell.id \in Nat
  <2>1. i \in 1..Len(D) /\ D[i].look # "data" /\ c \in AnyCell /\ Window(D, i).first = c
    <3> HIDE DEF D
    <3> QED  BY <1>1, WindowFacts DEF D
  <2> HIDE DEF D
  <2>2. i + HostLen \in 1 .. Len(D) + 1 /\ Len(D) \in Nat
    BY <1>1, Lengths DEF Parsed
  <2>3. c.id <= nextCell.id
    BY <1>1, <2>1 DEF Run, Follows, Later
  <2> QED  BY <1>1, <1>4, <2>1, <2>2, <2>3 DEF AnyCell
<1> HIDE DEF D, E
<1>6. ~misleading => c.at = 1
  BY <1>1, <1>5 DEF Honest
\* Those that are missed now.
<1>7. ASSUME ~misleading, got # Nothing, NEW id \in Nat, got.first.id < id, id < c.id
      PROVE  id \in Excused(damaged, thrownAway)
  <2>1. id \in Between(got.first, nextCell)
    BY <1>5, <1>7 DEF Between
  <2>2. id \in Excused(damaged, thrownAway) \union HeadersIn(D)
    BY <1>1, <1>7, <2>1 DEF Accounted
  <2>3. ASSUME id \in HeadersIn(D)  PROVE FALSE
    <3>1. PICK k \in 1..Len(D) : D[k].cell.at = 1 /\ D[k].cell.id = id
      BY <1>1, <2>3, HeadersAre
    <3>2. k < i
      <4>1. CASE i <= k
        <5>1. c.id <= D[k].cell.id
          BY <1>1, <1>5, <4>1 DEF Run, Follows, Later
        <5> QED  BY <1>5, <1>7, <3>1, <5>1
      <4> QED  BY <1>5, <4>1
    <3>3. k \in 1..(Len(D) - HostLen) + 1
      BY <1>5, <3>2, Lengths
    <3>4. k \notin Parsed(D)
      BY <1>1, <1>5, <3>2
    <3> QED  BY <1>1, <3>1, <3>3, <3>4, NoHeaderBefore
  <2> QED  BY <2>2, <2>3
<1>8. MissedAreAccountedFor'
  <2> SUFFICES ASSUME ~misleading, NEW id \in c.id - missed' .. c.id - 1
               PROVE  {id, id - 1} \intersect damaged # {} \/ id \in thrownAway'
    BY <1>4, <1>5 DEF MissedAreAccountedFor
  <2>1. CASE got = Nothing \/ c.id = got.first.id
    <3>1. missed' = 0
      BY <1>4, <1>5, <2>1
    <3> QED  BY <1>5, <3>1
  <2>2. CASE got # Nothing /\ c.id # got.first.id
    <3>1. got.first.id \in Nat
      BY <2>2, GotType DEF IInv, AnyCell
    <3>2. missed' = (c.id - got.first.id) - 1
      BY <1>4, <1>5, <2>2
    <3>3. id \in Nat /\ got.first.id < id /\ id < c.id
      <4>1. missed' \in Int /\ c.id - missed' = got.first.id + 1 /\ c.id \in Nat
        BY <1>5, <3>1, <3>2
      <4>2. id \in got.first.id + 1 .. c.id - 1
        BY <4>1
      <4> HIDE DEF c
      <4> QED  BY <3>1, <4>1, <4>2
    <3> QED  BY <1>4, <1>7, <2>2, <3>3 DEF Excused
  <2> QED  BY <2>1, <2>2
\* Those behind the packet returned.
<1>9. ASSUME ~misleading, NEW id \in Between(c, nextCell)
      PROVE  id \in Excused(damaged, thrownAway')
  <2>1. id \in damaged \/ id \in HeadersIn(D)
    BY <1>1, <1>5, <1>9 DEF Complete
  <2>2. id \in Nat /\ id > c.id
    BY <1>5 DEF Between
  <2>3. CASE id \in damaged
    BY <2>2, <2>3 DEF Excused
  <2>4. CASE id \in HeadersIn(D)
    <3>1. PICK k \in 1..Len(D) : D[k].cell.at = 1 /\ D[k].cell.id = id
      BY <1>1, <2>4, HeadersAre
    <3>2. CASE k < i + HostLen
      <4>1. id - 1 \in damaged
        BY <1>1, <1>5, <1>6, <1>9, <2>2, <3>1, <3>2, SwallowedBehindDamaged
      <4> QED  BY <2>2, <4>1 DEF Excused
    <3>3. CASE k >= i + HostLen
      <4>1. /\ E \in Seq(ReadCell) /\ Drops(D, E, (i + HostLen) - 1)
        BY <1>1, <1>5, SuffixDrops DEF E
      <4>2. (i + HostLen) - 1 \in Nat
        BY <1>5
      <4>3. \A l \in 1 .. (i + HostLen) - 1 : D[l].cell.at = 1 => D[l].cell.id # id
        <5> SUFFICES ASSUME NEW l \in 1 .. (i + HostLen) - 1, D[l].cell.id = id,
                            D[l].cell.at = 1
                     PROVE  FALSE
          OBVIOUS
        <5>1. l < k /\ l <= k /\ l \in 1..Len(D)
          BY <1>5, <3>3, Lengths
        <5>2. Position(D[k].cell) >= Position(D[l].cell) + (k - l)
          BY <1>1, <5>1 DEF Run, Follows, Later
        <5>3. D[l].cell \in AnyCell /\ D[k].cell \in AnyCell /\ k - l \in Nat
          BY <1>1, <5>1, ReadCellType
        <5>4. D[k].cell.at >= D[l].cell.at + (k - l)
          BY <3>1, <5>2, <5>3, SamePacket
        <5> QED  BY <3>1, <5>1, <5>4
      <4>4. id \in HeadersIn(E)
        BY <1>1, <2>4, <4>1, <4>2, <4>3, DropHeaders
      <4> QED  BY <1>4, <2>2, <4>4 DEF Excused
    <3> QED  BY <1>5, <3>2, <3>3, Lengths
  <2> QED  BY <2>1, <2>3, <2>4
<1>10. ~misleading => Accounted(got', damaged, thrownAway', <<>>, nextCell)
  BY <1>5, <1>9 DEF Accounted
<1>11. Shown(<<>>) /\ Complete(damaged, <<>>, nextCell)
  BY <1>2 DEF Shown, Complete
<1>12. ~misleading' => Accounted(got', damaged', thrownAway', (buffer \o rx)', nextCell')
  BY <1>2, <1>4, <1>10
<1>13. Shown((buffer \o rx)') /\ Complete(damaged', (buffer \o rx)', nextCell')
  BY <1>2, <1>4, <1>11
<1> QED  BY <1>8, <1>12, <1>13 DEF MissedInv

\* A poll that returns a packet takes its cells, and no header of another.
LEMMA PollAccounts ==
    ASSUME IInv, IInv', MissedInv, HostLen <= WireLen, Poll
    PROVE  MissedInv'
<1> DEFINE D == buffer \o rx
           i == Min(Parsed(D))
<1>1. /\ pc = "waiting" /\ rx' = <<>> /\ UNCHANGED nextCell
      /\ \/ /\ Parsed(D) = {} /\ buffer' = Unparsed(D)
            /\ UNCHANGED <<pc, hist>>
         \/ /\ Parsed(D) # {} /\ buffer' = Leftover(D, i) /\ UNCHANGED pc
            /\ \E s : TakePacket(D, i, s)
         \/ /\ Parsed(D) # {} /\ pc' = "spinning" /\ buffer' = SubSeq(D, i, Len(D))
            /\ UNCHANGED hist
  BY DEF Poll, Extend
<1>2. ASSUME Parsed(D) # {}  PROVE i \in Parsed(D) /\ \A k \in Parsed(D) : i <= k
  <2>1. Parsed(D) \in SUBSET Nat
    BY DEF Parsed
  <2> HIDE DEF D
  <2> QED  BY <1>2, <2>1, MinIsIn
<1>3. CASE Parsed(D) = {} /\ buffer' = Unparsed(D) /\ UNCHANGED <<pc, hist>>
  BY <1>1, <1>3, PollKeepsAccounts
<1>4. CASE /\ Parsed(D) # {} /\ buffer' = Leftover(D, i) /\ UNCHANGED pc
           /\ \E s : TakePacket(D, i, s)
  <2>1. PICK s : TakePacket(D, i, s)
    BY <1>4
  <2>2. i \in Parsed(D) /\ \A k \in Parsed(D) : i <= k
    BY <1>2, <1>4
  <2> HIDE DEF i
  <2> QED  BY <1>1, <1>4, <2>1, <2>2, PollReturnsAccounts
<1>5. CASE /\ Parsed(D) # {} /\ pc' = "spinning" /\ buffer' = SubSeq(D, i, Len(D))
           /\ UNCHANGED hist
  <2>1. i \in Parsed(D) /\ \A k \in Parsed(D) : i <= k
    BY <1>2, <1>5
  <2> HIDE DEF i
  <2> QED  BY <1>1, <1>5, <2>1, PollSpinsAccounts
<1> QED  BY <1>1, <1>3, <1>4, <1>5

LEMMA InitAccounts == Init => MissedInv
<1> SUFFICES ASSUME Init  PROVE MissedInv
  OBVIOUS
<1>1. buffer \o rx = <<>> /\ Len(<<>>) = 0 /\ got = Nothing
  BY DEF Init
<1> QED  BY <1>1 DEF MissedInv, Shown, Complete, Accounted, MissedAreAccountedFor

\* Every step keeps the account of the packets.
LEMMA NextAccounts ==
    ASSUME HostLen <= WireLen, IInv, IInv', MissedInv, [Next]_vars
    PROVE  MissedInv'
<1>1. CASE Line
  <2>1. PICK look \in LooksOf(nextCell), lost \in {FALSE, Lossy} : Arrive(look, lost)
    BY <1>1 DEF Line
  <2>2. lost \in BOOLEAN
    BY <2>1, HostAssumption
  <2> QED  BY <2>1, <2>2, ArriveAccounts
<1>2. CASE Reset
  BY <1>2, ResetAccounts
<1>3. CASE \E ok \in BOOLEAN : Connect(ok)
  BY <1>3, ConnectAccounts
<1>4. CASE Poll
  BY <1>4, PollAccounts
<1>5. CASE TimedOut \/ SerialError
  BY <1>5, WaitFailsAccounts DEF TimedOut, SerialError
<1>6. CASE Expire \/ Interrupt \/ UNCHANGED vars
  <2>1. UNCHANGED <<rx, buffer, nextCell, hist>> /\ (pc' = "start" => pc = "start")
    BY <1>6 DEF Expire, Interrupt, vars
  <2> QED  BY <2>1, QuietAccounts
<1> QED  BY <1>1, <1>2, <1>3, <1>4, <1>5, <1>6 DEF Next

\* Every packet missed between two returned ones has a reason: bytes of it or
\* of the one before were lost or cut off by a reset, or the client had read
\* its header and dropped it with a buffer (wait_for_packet's is local, and
\* goes with a timeout, an error or a packet returned before its end).
THEOREM MissedHaveReasons ==
    ASSUME HostLen <= WireLen
    PROVE  Spec => []MissedAreAccountedFor
<1>1. IInv /\ IInv' /\ MissedInv /\ [Next]_vars => MissedInv'
  BY NextAccounts
<1>2. MissedInv => MissedAreAccountedFor
  BY DEF MissedInv
<1> QED  BY InitAccounts, Inductive, <1>1, <1>2, PTL DEF Spec
=============================================================================
