--------------------------------- MODULE Mpu ---------------------------------
(***************************************************************************)
(* The memory protection unit and the register writes of mpu::init         *)
(* (firmware/src/mpu.rs).  Addresses are counted in granules of 256 bytes, *)
(* the size of the smallest region that the code sets up.                  *)
(*                                                                         *)
(* The unit (Cortex-M4, external) holds eight regions; an access is judged *)
(* by the highest one that contains it.                                    *)
(***************************************************************************)
EXTENDS Integers, Sequences, FiniteSetsExt

VARIABLES
    ctrl,      \* MPU_CTRL: the bits ENABLE and PRIVDEFENA that are set
    rnr,       \* MPU_RNR: the region that RBAR and RASR belong to
    region,    \* for each region the base written last, and its attributes
    written    \* how many of init's writes have been done

mpuVars == <<ctrl, rnr, region, written>>

Regions == 0..7

KB == 4             \* granules in a kilobyte
MB == 1024 * KB

\* RASR as it is after reset: the region is off.
Off == [on |-> FALSE, size |-> 0, ap |-> "none", xn |-> FALSE, mem |-> "normal"]

\* A boot loader may leave the unit on, with a map of its own in the regions
\* that init sets up: all memory open.  The other four, which init does not
\* touch, are taken to be off.
Open == [base |-> 0, rasr |-> [on |-> TRUE, size |-> 31, ap |-> "full",
                               xn |-> FALSE, mem |-> "normal"]]

MpuInit ==
    /\ ctrl \in {{}, {"ENABLE", "PRIVDEFENA"}}
    /\ rnr \in {0, 7}
    /\ \E open \in {{}, 0..3} :
         region = [n \in Regions |-> IF n \in open THEN Open
                                     ELSE [base |-> 0, rasr |-> Off]]
    /\ written = 0

-----------------------------------------------------------------------------
(* The writes of init.                                                     *)

\* size_field; the shift that puts the field in its place is left out.
SizeField(size_exp) == size_exp - 1

Write(reg, val) == [reg |-> reg, val |-> val]

\* Mutant: the region is selected after its base has been written.
ConfigureRegion_SelectLate(n, base, size, ap, xn, mem) ==
    << Write("RBAR", base),
       Write("RNR", n),
       Write("RASR", [on |-> TRUE, size |-> size, ap |-> ap, xn |-> xn, mem |-> mem]) >>

\* configure_region
ConfigureRegion(n, base, size, ap, xn, mem) ==
    << Write("RNR", n),
       Write("RBAR", base),
       Write("RASR", [on |-> TRUE, size |-> size, ap |-> ap, xn |-> xn, mem |-> mem]) >>

Flash       == 524288      \* 0x0800_0000
Sram        == 2097152     \* 0x2000_0000
Peripherals == 4194304     \* 0x4000_0000
Guard       == 2097504     \* 0x2001_6000

\* init
Writes ==
    << Write("CTRL", {}) >>
    \o ConfigureRegion(0, Flash, SizeField(19), "read", FALSE, "normal")
    \o ConfigureRegion(1, Sram, SizeField(17), "full", TRUE, "normal")
    \o ConfigureRegion(2, Peripherals, SizeField(29), "full", TRUE, "device")
    \o ConfigureRegion(3, Guard, SizeField(8), "none", TRUE, "normal")
    \o << Write("CTRL", {"ENABLE", "PRIVDEFENA"}) >>

MpuDone == written = Len(Writes)

\* write_reg: the next one of init's writes reaches the unit.
WriteReg ==
    /\ ~MpuDone
    /\ LET w == Writes[written + 1] IN
       /\ ctrl' = IF w.reg = "CTRL" THEN w.val ELSE ctrl
       /\ rnr' = IF w.reg = "RNR" THEN w.val ELSE rnr
       /\ region' = CASE w.reg = "RBAR" -> [region EXCEPT ![rnr].base = w.val]
                      [] w.reg = "RASR" -> [region EXCEPT ![rnr].rasr = w.val]
                      [] OTHER          -> region
    /\ written' = written + 1

-----------------------------------------------------------------------------
(* What the unit makes of it.                                              *)

\* The granules of a region: 2^(size + 1) bytes, from a base of which the
\* unit ignores the bits below that size.
Length(r) == 2 ^ (r.rasr.size - 7)

Covers(r, a) ==
    /\ r.rasr.on
    /\ r.base \div Length(r) = a \div Length(r)

Covering(a) == {n \in Regions : Covers(region[n], a)}

Rights(ap, xn, mem) == [ap |-> ap, xn |-> xn, mem |-> mem]

\* What the default map says, which depends on the address, and nothing at all.
DefaultMap == Rights("default", FALSE, "default")
NoMap      == Rights("none", TRUE, "default")

\* Where no region says anything, the default map holds, if it is to.
Access(a) ==
    IF "ENABLE" \notin ctrl THEN DefaultMap
    ELSE IF Covering(a) # {}
         THEN LET rasr == region[Max(Covering(a))].rasr
              IN Rights(rasr.ap, rasr.xn, rasr.mem)
    ELSE IF "PRIVDEFENA" \in ctrl THEN DefaultMap ELSE NoMap

-----------------------------------------------------------------------------
(* Properties.                                                             *)

\* The address map, as granules of each kind of memory: their ends, and
\* something in the middle.  System is where the unit's own registers are.
Granules(kind) ==
    CASE kind = "flash"       -> {Flash, Flash + 32*KB, Flash + 512*KB - 1}
      [] kind = "sram"        -> {Sram, Guard - 1, Guard + 1, Sram + 96*KB - 1}
      [] kind = "guard"       -> {Guard}
      [] kind = "peripherals" -> {Peripherals, Peripherals + MB, Peripherals + 512*MB - 1}
      [] kind = "system"      -> {14680064 + 237}

Kinds == {"flash", "sram", "guard", "peripherals", "system"}

Intended(kind) ==
    CASE kind = "flash"       -> Rights("read", FALSE, "normal")
      [] kind = "sram"        -> Rights("full", TRUE, "normal")
      [] kind = "guard"       -> Rights("none", TRUE, "normal")
      [] kind = "peripherals" -> Rights("full", TRUE, "device")
      [] kind = "system"      -> DefaultMap

\* The whole of the intended map is in force.
WholeMap ==
    /\ "ENABLE" \in ctrl
    /\ \A kind \in Kinds : \A a \in Granules(kind) : Access(a) = Intended(kind)

\* From init's first write on, the unit is never on with anything but the
\* whole of the intended map, whatever was in its registers before: no write
\* is made under rules that are half of the old and half of the new.
OnlyWholeMapInForce == written > 0 /\ "ENABLE" \in ctrl => WholeMap
=============================================================================
