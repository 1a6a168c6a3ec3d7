-------------------------------- MODULE Pci --------------------------------
(***************************************************************************)
(* The scans of the configuration space in PCI/pci.c: the two searches,    *)
(* PciFindDeviceByID and PciFindDeviceByClass, and PciListDevicesAttached, *)
(* which also finds out base and size of a function's first memory BAR by  *)
(* writing ones to it.  One step is the visit of one function or one group *)
(* of accesses of PciGetDeviceMMIORegion to the BARs.                      *)
(*                                                                         *)
(* A register of Word values stands for the 32-bit BAR; its four low bits  *)
(* are the flags, as in the code.  The code takes the six registers behind *)
(* the header's common part for BARs, of a bridge too, of which only the   *)
(* first two are.  The other fields PciReadFullDevice reads, the BAR's     *)
(* index and the 64-bit flag are left out.                                 *)
(***************************************************************************)
EXTENDS Integers, Sequences

CONSTANTS
    Buses,      \* the values of a uint8_t bus: 256
    ListBuses,  \* the buses PciListDevicesAttached visits: 8
    Slots,      \* 32
    Funcs,      \* 8
    Word,       \* the values of a register: 2^32
    Machines    \* external: the configuration spaces a machine may have

ASSUME PciAssumption ==
    /\ {Buses, Slots, Funcs} \subseteq Nat \ {0}
    /\ ListBuses \in 1 .. Buses - 1
    /\ Word \in Nat /\ Word > 16 /\ Word % 16 = 0

Loc == (0 .. Buses - 1) \X (0 .. Slots - 1) \X (0 .. Funcs - 1)
Calls == {"PciFindDeviceByID", "PciFindDeviceByClass", "PciListDevicesAttached"}

(* A function: the searches it matches, the multi-function bit of its      *)
(* header, whether the header is a bridge's, and the registers the code    *)
(* takes for BARs.  The size of a BAR is that of what it maps; that of     *)
(* another register is the number of values its writable bits have.        *)
Function == [matches : SUBSET Calls, multi : BOOLEAN, bridge : BOOLEAN,
             bars : Seq(0 .. Word - 1), size : Seq(Nat)]

(* Function 0 is there where any other is, and says whether others are.    *)
ASSUME MachinesAssumption ==
    \A m \in Machines : m \in [DOMAIN m -> Function] /\ \A l \in DOMAIN m :
        /\ l \in Loc
        /\ <<l[1], l[2], 0>> \in DOMAIN m
        /\ l[3] # 0 => m[<<l[1], l[2], 0>>].multi

VARIABLES
    config,     \* external: what is at each location where a function is
    call,
    at,         \* the call's next step
    bus, slot, func,
    region,     \* what PciGetDeviceMMIORegion stored for the functions listed
    start       \* history: config before the call

vars == <<config, call, at, bus, slot, func, region, start>>

here == <<bus, slot, func>>

this == config[here]

Init ==
    /\ config \in Machines
    /\ start = config
    /\ call \in Calls
    /\ at = "scan"
    /\ bus = 0 /\ slot = 0 /\ func = 0
    /\ region = <<>>

-----------------------------------------------------------------------------
(* The three loops.                                                        *)

(* bus is a uint8_t: below 256 after every increment.                      *)
NextBus == (bus + 1) % Buses

(* Mutant of NextSlot: the last slot is left out.                          *)
NextSlotShort ==
    /\ func' = 0
    /\ IF slot + 2 < Slots THEN slot' = slot + 1 /\ UNCHANGED bus
                           ELSE slot' = 0 /\ bus' = NextBus

NextSlot ==
    /\ func' = 0
    /\ IF slot + 1 < Slots THEN slot' = slot + 1 /\ UNCHANGED bus
                           ELSE slot' = 0 /\ bus' = NextBus

NextFunc ==
    IF func + 1 < Funcs THEN func' = func + 1 /\ UNCHANGED <<bus, slot>>
                        ELSE NextSlot

(* The list's own loop over the buses ends at ListBuses.                   *)
ListGoesOn == at' = IF bus' = ListBuses THEN "done" ELSE "scan"

Present == here \in DOMAIN config

(* A vendor of 0xFFFF: the loops continue with the next function.          *)
Absent ==
    /\ at = "scan" /\ ~Present
    /\ NextFunc
    /\ IF call = "PciListDevicesAttached" THEN ListGoesOn ELSE UNCHANGED at
    /\ UNCHANGED <<config, call, region, start>>

(* Mutant of Matches: any function is taken.                               *)
MatchesAny == Present
Matches == call \in this.matches

(* A search: it returns a function that matches, and goes on with the next *)
(* slot behind any function 0 that does not.  (The return behind the loops,*)
(* PCI_DEVICE_NONE, is never reached.)                                     *)
Find ==
    /\ at = "scan" /\ Present
    /\ call # "PciListDevicesAttached"
    /\ IF Matches
       THEN at' = "done" /\ UNCHANGED <<bus, slot, func>>
       ELSE /\ IF func = 0 THEN NextSlot ELSE NextFunc
            /\ UNCHANGED at
    /\ UNCHANGED <<config, call, region, start>>

-----------------------------------------------------------------------------
(* PciGetDeviceMMIORegion.                                                 *)

Ones == Word - 1
Flags(r) == r % 16              \* r & 0xF
Base(r) == r - Flags(r)         \* r & ~0xF
IsIO(r) == r % 2 = 1
IsWide(r) == (r % 8) \div 2 = 2 \* (r & 0x6) == 0x4

Memory(bars) == {i \in DOMAIN bars : bars[i] # 0 /\ ~IsIO(bars[i])}
First(bars) == CHOOSE i \in Memory(bars) : \A j \in Memory(bars) : i <= j

(* External: the registers that are BARs.  Behind those of a bridge come   *)
(* its bus numbers and windows.                                            *)
BarsOf(d) == IF d.bridge THEN DOMAIN d.bars \cap {1, 2} ELSE DOMAIN d.bars

(* What the code takes for the first memory BAR of d is not a BAR.         *)
Mistaken(d) == Memory(d.bars) # {} /\ First(d.bars) \notin BarsOf(d)

(* External: what register i of d holds after v is written to it.  In a BAR*)
(* the bits below the size of what it maps are not writable.  The upper    *)
(* bits of another register are status bits, which writing ones clears,    *)
(* and writing back what they were does not set.                           *)
Aligned(v, size) == v - (v % size)
Written(d, i, v) ==
    IF i \notin BarsOf(d) THEN v % d.size[i]
    ELSE IF i - 1 \in DOMAIN d.bars /\ ~IsIO(d.bars[i - 1]) /\ IsWide(d.bars[i - 1])
    THEN Aligned(v, IF d.size[i - 1] > Word THEN d.size[i - 1] \div Word ELSE 1)
    ELSE Aligned(v, d.size[i]) + Flags(d.bars[i])

(* External: the size of the first memory BAR is a power of two that holds *)
(* the flags, and the base a multiple of it; what a 32-bit BAR maps is     *)
(* smaller than 2^32.                                                      *)
BarFits(d) ==
    LET i == First(d.bars)
        s == d.size[i]
    IN  /\ i \in DOMAIN d.size /\ s > 0 /\ s % 16 = 0
        /\ IsWide(d.bars[i]) => i + 1 \in BarsOf(d)
        /\ \/ Word % s = 0 /\ s < Word /\ Base(d.bars[i]) % s = 0
           \/ /\ IsWide(d.bars[i]) /\ s % Word = 0 /\ Word % (s \div Word) = 0
              /\ Base(d.bars[i]) = 0 /\ d.bars[i + 1] % (s \div Word) = 0

(* The registers one sizing writes, of the function whose registers were   *)
(* bars when it was read.                                                  *)
Sizing(bars) ==
    {First(bars)} \cup {j \in {First(bars) + 1} : IsWide(bars[First(bars)])}

ASSUME BarsAssumption ==
    \A m \in Machines : \A l \in DOMAIN m :
        CASE Memory(m[l].bars) = {} -> TRUE
          [] Mistaken(m[l]) -> \A j \in Sizing(m[l].bars) :
                /\ j \in DOMAIN m[l].bars /\ j \in DOMAIN m[l].size
                /\ m[l].size[j] > 0
          [] OTHER -> BarFits(m[l])

(* Writes to the register taken for the first memory BAR, and to the next  *)
(* if it is wide: both as dev->bar has them.                               *)
BarsWritten(d, bars, low, high) ==
    [j \in DOMAIN d.bars |->
        IF j \in Sizing(bars) THEN Written(d, j, IF j = First(bars) THEN low ELSE high)
                              ELSE d.bars[j]]

WriteBar(bars, low, high) ==
    config' = [config EXCEPT ![here].bars = BarsWritten(this, bars, low, high)]

(* The visit of a function by the list: PciReadFullDevice, of which region *)
(* keeps the BARs, and the first accesses to them.                         *)
Listed(r) == region' = [l \in DOMAIN region \cup {here} |->
                           IF l = here THEN r ELSE region[l]]

List ==
    /\ at = "scan" /\ Present
    /\ call = "PciListDevicesAttached"
    /\ Listed([bars |-> this.bars, base |-> 0, size |-> 0])
    /\ IF Memory(this.bars) = {}
       THEN at' = "next" /\ UNCHANGED config
       ELSE at' = "size" /\ WriteBar(this.bars, Ones, Ones)
    /\ UNCHANGED <<call, bus, slot, func, start>>

(* MMIOSize has as many bits as one register.  Mutant: with the flags.     *)
SizeWithFlags(low, high) == (Word * Word - (high * Word + low)) % Word
SizeOf(low, high) == (Word * Word - (high * Word + Base(low))) % Word

(* Reads the masks back.  high is all ones for a 32-bit BAR.               *)
ReadSize ==
    /\ at = "size"
    /\ LET bars == region[here].bars
           i    == First(bars)
       IN  region' = [region EXCEPT
              ![here].base = Base(bars[i]) + IF IsWide(bars[i]) THEN bars[i + 1] * Word
                                                                ELSE 0,
              ![here].size = SizeOf(this.bars[i], IF IsWide(bars[i]) THEN this.bars[i + 1]
                                                                     ELSE Ones)]
    /\ at' = "restore"
    /\ UNCHANGED <<config, call, bus, slot, func, start>>

Restore ==
    /\ at = "restore"
    /\ LET bars == region[here].bars
           i    == First(bars)
       IN  WriteBar(bars, bars[i], IF IsWide(bars[i]) THEN bars[i + 1] ELSE 0)
    /\ at' = "next"
    /\ UNCHANGED <<call, bus, slot, func, region, start>>

(* Mutant of AfterListed: the multi-function bit is not looked at.         *)
AfterListedFirst == IF func = 0 THEN NextSlot ELSE NextFunc

(* Behind a function 0 without the multi-function bit comes the next slot. *)
AfterListed == IF func = 0 /\ ~this.multi THEN NextSlot ELSE NextFunc

Continue ==
    /\ at = "next"
    /\ AfterListed
    /\ ListGoesOn
    /\ UNCHANGED <<config, call, region, start>>

Next == Absent \/ Find \/ List \/ ReadSize \/ Restore \/ Continue

(* The caller waits for its call to return.                                *)
Spec == Init /\ [][Next]_vars /\ WF_vars(Next)

-----------------------------------------------------------------------------
Before(l, m) ==
    \/ l[1] < m[1]
    \/ l[1] = m[1] /\ l[2] < m[2]
    \/ l[1] = m[1] /\ l[2] = m[2] /\ l[3] < m[3]

(* What a search returns matches, is a function 0, and is the first such;  *)
(* a matching function behind a function 0 is never returned.              *)
FindsFirst ==
    at = "done" /\ call # "PciListDevicesAttached" =>
        /\ Present /\ func = 0 /\ call \in this.matches
        /\ \A l \in DOMAIN config :
              l[3] = 0 /\ call \in config[l].matches => ~Before(l, here)

(* A search returns if some function 0 matches, on whatever bus it is.  If *)
(* none does it has nothing to return, by FindsFirst, and runs for ever.   *)
SearchReturns ==
    (\E l \in DOMAIN config : l[3] = 0 /\ call \in config[l].matches) ~> at = "done"

(* What sizing leaves of a function: all of it, but for the status bits in *)
(* the registers that are mistaken for BARs.                               *)
Kept(d) ==
    IF Mistaken(d)
    THEN [d EXCEPT !.bars = [j \in DOMAIN d.bars |->
             IF j \in Sizing(d.bars) THEN d.bars[j] % d.size[j]
                                       ELSE d.bars[j]]]
    ELSE d

(* The list contains every function of the buses it visits, and leaves     *)
(* every register as it found it, of bridges too, but for the status bits  *)
(* of a bridge's registers that it sized.                                  *)
ListsAll ==
    at = "done" /\ call = "PciListDevicesAttached" =>
        /\ DOMAIN region = {l \in DOMAIN config : l[1] < ListBuses}
        /\ config = [l \in DOMAIN start |->
              IF l[1] < ListBuses THEN Kept(start[l]) ELSE start[l]]

(* The region r of function d is what its first memory BAR maps, with the  *)
(* size cut to the width of MMIOSize, and empty if it has none.            *)
IsRegionOf(r, d) ==
    LET i == First(d.bars)
    IN  IF Memory(d.bars) \cap BarsOf(d) = {}
        THEN r.base = 0 /\ r.size = 0
        ELSE /\ r.size = d.size[i] % Word
             /\ r.base % Word = Base(d.bars[i])
             /\ r.base \div Word = IF IsWide(d.bars[i]) THEN d.bars[i + 1] ELSE 0

(* The list stores the region of every function behind it, unless it takes *)
(* bus numbers or a window of a bridge for a BAR: PciGetDeviceMMIORegion   *)
(* never looks at the header type, and stores a region that is none.       *)
RegionsRight ==
    \A l \in DOMAIN region \ {here} :
        IsRegionOf(region[l], start[l]) \/ Mistaken(start[l])
=============================================================================
