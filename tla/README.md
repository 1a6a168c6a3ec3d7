# A TLA+ model of the ASNU kernel (TerracottaOS)

This directory models the kernel under `src/ASNU/src`: an x86-64 kernel, booted
by Limine on one processor, that sets up physical and virtual memory, lets the
timer and keyboard interrupts in, and starts two test processes under a
round-robin scheduler. All paths below are relative to `src/ASNU/src`.

## The system: inventory

| component | source | state it keeps | operations | who calls it |
|---|---|---|---|---|
| boot | `init.c` `kmain`, `test_sched` | two indices, two bases | checks of the bootloader's answers, one pass over its memory map, `pmm_init`'s arguments, the pages of two processes | bootloader |
| physical memory | `PMM/pmm.c` | `pmm_file`, the bitmap | `pmm_init`, `kalloc`, `palloc`, `kfree` | vmm, `create_proc`, `test_sched` |
| virtual memory | `VMM/vmm.c` | `PML4`, the tables, cr3 | `vmm_init`, `mmap`, `unmap` | `kmain`, `exception_handler` |
| interrupts | `IDT/idt.c`, `IDT/idt.asm` | the IDT, the 8259's masks | `idt_init`, `exception_handler`, `idt_keyboard_handler`, EOI | hardware |
| timer | `Drivers/PIT/driver.c` | `PitTicks` | `pit_init`, `pit_handler` | hardware |
| scheduler | `sched/scheduler.c` | `proc_list`, `proc_count`, `current_proc`, the `Procedure`s | `scheduler_init`, `create_proc`, `register_proc`, `scheduler_tick`, `context_switch` | `kmain`, `pit_handler` |
| keyboard | `Drivers/PS2Keyboard/driver.c` | ring buffer, shift, caps, prefix | `KeyboardDriverMain`, `kbd_getc`, `kbd_gets` | hardware; no reader in the tree yet |
| serial log | `Serial/serial.c` | log id, the static buffer of `serial_i2s` | `serial_fwrite` and the conversions | everyone |
| PCI | `PCI/pci.c` | none (configuration space) | scans, BAR sizing, names | nobody yet |
| xHCI | `Drivers/XHCI/driver.c` | event ring, two flags | `xHciInit`, `XhciIrqHandler` | nobody; dropped by the linker |
| strings | `string.c` | `strtok`'s static | memory and string functions | everyone |
| ports, panic, GDT | `KiSimple.c`, `GDT/` | none to speak of | port access, constant tables | everyone |
| printk, flanterm | `printk/` | vendored | formatting | everyone |

How they interact: `kmain` runs `pmm_init`, `vmm_init`, `gdt_init`, `pit_init`,
`idt_init` (which ends with `sti`), `scheduler_init` and `test_sched` in this
order. From the `sti` on, the two interrupt handlers run between any two
instructions of `kmain` and of the processes, with interrupts off. The
scheduler's statics are shared by `kmain` (`register_proc`) and the tick; the
keyboard's ring by its handler and a reader. The memory managers are called by
`kmain` and, through a page fault, by `exception_handler`. There are no locks.
Nothing is persistent, and there is one processor: interleaving means
interrupts, and failure means a fault that halts or a page that is not there.

What is hard: the interleavings of a tick with `register_proc` and of a key with
`kbd_getc`; a switch that leaves a handler without coming back; asm blocks that
overwrite the registers they address memory with; `palloc` failing in the middle
of a walk; stale translations; boundaries of the bitmap and of the ring. Every
such place is listed under `hazards` in `PROJECT.json`, at its line.

What makes each component correct: no page has two owners and none is lost
(memory); a mapping changes one translation (virtual memory); one process runs,
every ready one is found (scheduler); each interrupt is ended once and ticks go
on (interrupts); registers arrive where they belong (context switch);
characters arrive once, in order (keyboard); log lines are those of their
callers (serial); a scan ends and restores what it changed (PCI).

## Modules

| module | models | composition |
|---|---|---|
| `PageAllocator` | abstract page allocator | specification that `Pmm` implements |
| `Pmm`, `MCPmm` | `PMM/pmm.c` | |
| `PmmProofs` | theorems about `Pmm` | extends `Pmm` |
| `MemMap` | `init.c`, lines 112 to 148 | |
| `Boot`, `MCBoot` | `kmain` up to the first `register_proc` | extends `MemMap`: its regions, `pmm_init`, `vmm_init`, `test_sched` and `create_proc` on one physical memory |
| `BootProofs` | theorems about `MemMap` and `Boot` | extends `Boot` |
| `Scheduler` | `sched/scheduler.c`, `test_sched` | |
| `TimerIrq` | `idt_init`, both handlers, the 8259 | extends `Scheduler`: its actions run inside `pit_handler` and between interrupts |
| `SchedulerProofs` | theorems about `Scheduler` and `TimerIrq` | extends `TimerIrq` |
| `RegSwitch` | the two asm blocks of `context_switch` | its result is `RestoreOutcomes` of `Scheduler` |
| `Exceptions` | `IDT/idt.asm`, the descriptors, `exception_handler`'s ends | what its mapping does is in `Vmm` |
| `MCRegs` | | runs `RegSwitch` and `Exceptions`, the hand-written assembly |
| `RegsProofs` | theorems about `RegSwitch` and `Exceptions` | extends both |
| `Vmm`, `MCVmm` | `VMM/vmm.c`, the page fault path of `exception_handler` | |
| `VmmProofs` | theorems about `Vmm` | extends `Vmm` |
| `Keyboard` | `Drivers/PS2Keyboard/driver.c` | |
| `KeyboardProofs` | theorems about `Keyboard` | extends `Keyboard` |
| `Serial` | `Serial/serial.c` | |
| `Strings` | `string.c` | |
| `LibraryProofs` | theorems about `Serial` and `Strings` | extends both |
| `MCLibrary` | | runs `Serial` and `Strings`, which share nothing |
| `Pci`, `MCPci` | `PCI/pci.c` without its names | |
| `PciProofs` | theorems about `Pci` | extends `Pci` |

Definitions keep the names of the source; the `map` of `PROJECT.json` names the
lines of each. Operators named as a variant of another (`ListFullLate`,
`pit_handler_no_eoi`, ...) are not part of any specification: each is a
plausible bug, and the property it is listed with must catch it.

### Pmm

The bitmap is the set of indices whose bit is set. `TakePage` is the search loop
that `kalloc` and `palloc` share, `Release` is `kfree` with its early returns.
`dirty` says which pages hold bytes of a caller; `span` and `claims` are history:
what the callers asked for. `kalloc` computes `pages_needed` and takes one page,
and the model does the same. Calls are one step each. `palloc`'s load and store
of a bitmap byte could be torn by a tick, but the only allocations with
interrupts on are `kmain`'s, and a tick that takes the processor from `kmain`
never gives it back. `BitmapSetBit` has no caller.

`Pmm.cfg` uses eight pages at address 4096, one whole byte of bits, and the
sizes 0, 236 (a `Procedure`) and 4096: with eight pages the bitmap's first and
last bit, the full bitmap and every pattern of holes occur. `PmmTail.cfg` uses
five pages.

### MemMap

One step per entry of the memory map, then the call. If an index is still -1,
the length is read through a pointer in front of the array and is one of
`Stray`; if that access faults instead, the kernel halts, which is a behaviour
that ends in front of the call. `MemMap` is checked as part of `Boot`.

### Boot

`MemMap` with what follows it: each of the bootloader's four answers may be
missing (`hcf`), `pmm_init` computes the bitmap's size and clears, and then
`vmm_init`, `test_sched` and `create_proc` take seven pages. Memory is a line of
physical addresses; what matters is which bytes are the bitmap, which are
cleared and which belong to a page. No step asks whether the bitmap fits into the
second region or whether there is one. So `BitmapInPlace` speaks of the boots
where it fits (`Fits`); in the others a page may hold bytes of the bitmap, and as
soon as such a page is written nothing is known of the bits: the model ends
there (`corrupt`). Where `palloc` returns NULL, the first write through it is a
fault. `Direct` is the offset that `PA2VA` and `VA2PA` hard-code, `HhdmOffset` the
one the bootloader names: they are the same number in the run, because that is
what Limine does, but `PagesApart` says what depends on it.

`MCBoot`: a page of two bytes and every map of up to four adjacent regions,
usable or not, of 1, 2, 16 or 34 bytes: less than a page, one page, the eight
pages of one byte of bits, and 17 pages, whose three bytes do not fit into a
region of one page. The regions lie next to each other, so a bitmap that does
not fit reaches into the next region. Ties, a largest region in front of, between
and behind others, none at all, and a pool that runs out in the middle of
`test_sched` all occur.

### Scheduler

A process is named by its number. `kmain` is a sequence of steps: `create_proc`
for all, then for each process the stores of `register_proc` (slot and count,
READY, `current_proc`, RUNNING), with a tick possible between any two.
`proc_list[proc_count++] = proc` are two stores, which C leaves unordered: one
compiler stores the slot first, another the count, and the model has both orders
(`RegisterCount`, `RegisterSlot`). A tick between them finds NULL in the slot that
already counts, or a slot that does not count yet. A tick runs inside a gate and is one step: the search
of `find_next_proc` and the bookkeeping of `context_switch`. Where the restore
block ends up is a constant, `RestoreOutcomes`: it jumps or it faults. RegSwitch
says that it faults; the properties are checked for both, so that they tell what
holds once the restore is repaired. A fault halts, because `exception_handler`
halts for addresses in the first page. `create_proc` may find no page for the
`Procedure` (NULL) or none for the stack (a fault).

`kmain` is never saved as a process: a tick that switches away from it loses it,
and its registers go to the first process. A process that is appended but not
yet READY then stays NEW for ever. This is the code's behaviour and the
properties are stated so that they hold with it.

`Scheduler.cfg` has four processes, three slots and a switch every second tick.
`waited` counts switches to others while a process is READY.

### TimerIrq

The 8259 with requests and lines in service, the interrupt flag, and the handler
in progress around the scheduler. `pit_handler` calls `scheduler_tick` and then
sends the EOI: when the tick switches, it leaves through the jump and the EOI is
not sent. `saved_if` is the IF bit of each `Regs.rflags`: `create_proc` sets it,
the save inside a gate clears it. `Finish` is a process returning to its fake
return address 0, which halts. The bootloader hands over with interrupts off
(`IrqInit`); `idt_pic_remap`, a part of `idt_init`, makes the 8259 forget what it
has seen.

Fairness: weak fairness of the processor's steps (`Kernel`, the handlers,
`idt_init`), of the 8259's delivery and of the PIT's next tick: hardware that
runs, and code that has the processor and no wait in it. No fairness of the
keyboard's `Raise`, for nobody has to type, nor of a process's `Finish`.

### RegSwitch

Both asm blocks as a list of moves; `save_base` and `restore_base` are the
registers through which the compiler addresses the `Procedure`s, any of the
fifteen but rsp. The blocks name no clobbers, so nothing keeps those registers
out of the lists. When the first block begins, the processor does not hold the
interrupted code's registers any more: the compiler has loaded prev's address
into one of them, the handler and the scheduler may have used others (`used`, one
of the sets in `Overwritten`), and the stack pointer and the flags are those of
the handler. `Found` says which value a register has. The values are told
apart: the interrupted code's (`Live`), the handler's (`Handlers`), the two
addresses and what `create_proc` stored.

`LostBySave` says what the saved context lacks: exactly those registers and the
instruction pointer, which is never stored. `SaveKeepsProcess` is what the comment
over the block promises, for the registers that no code in front of the block has
used: it fails for the one that addresses prev. The run has the set of registers
gcc uses by then, one of a single preserved register, and the empty set.

The first switch of a boot is modelled: `next` has its initial registers, and
there may be no `prev`.

### Exceptions

One step per instruction of the stubs. The processor pushes its frame, and for
some vectors an error code; the stubs differ in whether they pop one, as written
down by hand in `idt.asm`. `register` keeps `rsi` and `rdi`, which the stubs use,
one register for those a C function may change and one for those it restores.
`exception_handler` halts, or maps the address and returns, or faults itself at
address 0 when `palloc` has no page for a table; so two exceptions nest, and the
second one halts. What the code of a page fault gets back: its `rdi` and the
preserved registers, and never `rsi` or the others, because
`exception_handler` is an ordinary function and no stub saves them. This is the
code's behaviour, and `RegistersComeBack` is worded with it. The stubs of the
vectors 21 and 29 do not pop the code that newer processors push; their handler
does not return.

### Vmm

An address is its four indices, with two values each, and a frame is a number:
the tree of tables keeps its depth and loses its width. A table's entries are
frames or `Absent`. `Pool` is what `palloc` has, `Junk` what its frames hold
before they are cleared; `Junk` names one of the bootloader's tables, so that a
table that is not cleared leads somewhere. `Descend` is one level of `mmap`,
which may find no page: the clearing then faults at NULL and halts with the
tables linked so far. `tlb` is what the processor has cached. `unmap` has no
caller in the tree and `mmap` only the fault handler; both are modelled for any
caller but for page 0.

A fault is an access to an address that does not translate, or a write to the
kernel's page, which the bootloader maps read-only. `exception_handler` does not
look at the error code: it replaces the entry of a present page too. The retried
access works in the lower half and faults again in the upper half, where the
frame named by the address has bits that no physical address has
(`Reserved`); `MmapTranslates` says exactly this.

The direct map has one large page, an entry of the directory that holds data
where others name a table. The processor stops its walk there; `mmap` and `unmap`
do not ask and use the data as a page table. `OthersKeepTheirTranslation` says
that this is the only way they write into data and that no other address is
disturbed, `MmapTranslates` that the large page keeps its translation. No caller
in the tree maps or unmaps the direct map; the model lets one.

`MCVmm` has the bootloader's four tables for the kernel's page, its directory of
the direct map, five frames and five addresses: page 0, one that shares two
levels with it, the kernel's page, one next to it that needs a page table, and
one in the large page. The five frames are just used up by these, and other
callers of `palloc` can take them away at any time. One target is enough, since
the frame that a fault maps an address to is another.

Left out: large pages of the level above (the walk errs there in the same way),
tables inside the memory that the large page maps, access rights other than the
kernel page's, and the direct map's offset (in `Boot`).

### Keyboard

The handler runs behind an interrupt gate, so one scan code is one step:
`Prefix` (0xE0), `Prefixed` (a code that follows it), `ShiftMake`, `ShiftBreak`,
`CapsMake` and `CharMake`, which picks from the layouts and pushes. A letter, a
digit, enter and backspace stand for the rows of the layouts. `held` is external:
the shift keys that are down. The flag `shift` is one for both keys, and
`ShiftFollowsKeys` says what it can still promise: it is set while both are down
and clear while none is. With one down it may be either, since the release of
the other clears it.

`kbd_getc` is split at its loads and stores of the shared indices and the
buffer, and at `cursor_read++` (`Return`): until the first of these a backspace is
dropped. `kbd_gets` is the loop around it. In the ring a character is the number
of its key press and a kind: plain, backspace or enter. `out` keeps the cells in
front of the caller's array, because a backspace on an empty line makes `read`
negative. `full` records whether an overflow has happened and whether one fell
inside `kbd_getc`.

`Keyboard.cfg`: four slots (so three characters fit), an array of four and six
key presses: an overflow, then as many characters as fit again. The escape
sequences and the echo are left out.

### Serial

One step per piece of the format `serial_fwrite` looks at, plus the call with its
log id. The statics of `serial_i2s` live on between calls. A line is not
interleaved with another, although the tick writes to the log: with interrupts
on, `kmain` logs nothing (it is in `scheduler_init` and `test_sched`), and a
process that logs runs behind a switch whose tick was never acknowledged, so no
tick follows (theorem `FirstSwitchIsLast`). The handlers themselves run with interrupts
off. If the EOI were repaired, a tick could change `serial_i2s`'s statics under
a process's call, and the model would need that step. Faults inside
`serial_fwrite` are not modelled.

In the run numbers are small, and a buffer of two cells stands for
`serial_write_hex`'s sixteen (`HexCells`): `%p` of a word with as many digits as
cells stores the NUL one cell behind it. The model records this in `overrun`, and
`StaysInside` bounds when it can happen. A format is given by its pieces as
`serial_fwrite` takes them, so the `%016X` of `idt.c:67` is `%0`, which has no
case in the switch, and three characters; the formats are one per directive,
combinations the kernel uses, and formats that end inside a directive.
`FormatsAssumption` says that a directive without a case takes no argument from
one behind it. `MaxLines` bounds the calls.

### Strings

Each function of `string.c` is called once on any memory of five cells with
three byte values, `strtok` repeatedly; `StringsDoTheirWork` compares memory and
result with definitions by quantifiers. What differs from the C library is in
these definitions: `strchr` and `strrchr` do not find the terminator.

`MCLibrary` is the run of both: they share no state, so a behaviour runs one.

### Pci

One step per function visited, and two more where `PciGetDeviceMMIORegion` sizes
a BAR: ones are written, the mask is read, the register is restored. `bus` is a
`uint8_t`: `Buses` stands for its 256 values and `NextBus` wraps. A register has
`Word` values for 2^32, and four bits of flags. A search that finds nothing never returns;
`SearchReturns` therefore asks only for machines with a matching function 0, and
`FindsFirst` says that nothing else is ever returned.

`MCPci` has all machines with up to two slots in use on three buses of two slots,
two of the buses visited by the list; functions without a BAR, with an I/O BAR in
front of a 32-bit one, and with 64-bit ones of 2^4, 2^7 (which the 32-bit
`MMIOSize` cuts to 0) and 2^8 bytes. An I/O BAR may
have the bit that makes a memory BAR a 64-bit one. Fairness: `WF_vars(Next)`, a
caller that waits for its call. `BarsAssumption` says what PCI
says of a BAR: a size divides the range of a register and the base is one of its
multiples.

A function may be a bridge. The code never looks at the header type and takes six
registers for BARs, of which a bridge has two; the next ones are its bus numbers
and its windows, with status bits that writing ones clears. `Mistaken` are the
bridges of which it sizes such a register: one whose bus numbers look like a
32-bit BAR or like a 64-bit one, with a window as its upper half. `RegionsRight`
leaves these out, for the stored region is none, and holds for every other
function, a bridge with a memory BAR of its own included. `ListsAll` has them all:
the bus numbers are restored, too, and only status bits are lost (`Kept`). While
they hold ones the buses behind the bridge are out of reach, but nothing is read
there before they are restored. `MCPci` has a bridge of each kind.
`PciFindDeviceByLocation`, `PciCheckVendor` and the tables of
names have no behaviour beyond a read.

## Runs

| run | result | shows |
|---|---|---|
| `Pmm.cfg` | pass | bits and pointers agree, one owner per page, freed pages zeroed, kept ones not; refinement of `PageAllocator` |
| `PmmTail.cfg` | violation of `PointerInRegion` | with a number of pages that is no multiple of 8, `palloc` hands out pages behind the region |
| `Boot.cfg` | pass | the largest region is found, the one kept as the second is the largest in front of it, arguments are paired correctly; a bitmap that fits is in place; all pages of the boot are apart and in the largest region |
| `Scheduler.cfg` | pass | one process RUNNING, sound list, bounded overtaking, due ticks switch |
| `TimerIrq.cfg` | pass | interrupts of `kmain` are ended once, processes start with interrupts on, ticks are served |
| `Regs.cfg` | pass | what a saved context lacks: the base register, those the handler used, rsp, flags and rip, and nothing else; exception stubs hand over vector and code, return to their frame and keep `rdi` |
| `RegSwitchSave.cfg` | violation of `SaveKeepsProcess` | the save block stores prev's address in place of the process's base register |
| `RegSwitchJump.cfg` | violation of `RestoreJumps` | the restore block overwrites its own base register and faults |
| `Vmm.cfg` | pass | tables form a tree of pages of their own; a mapping is local, and writes into data only for an address in a large page; stale translations come from remapping only; which faults are over after the handler |
| `Keyboard.cfg` | pass | shift and layout follow the keys; characters once and in order, no loss before an overflow, NULs only by a race, lines edited correctly |
| `Pci.cfg` | pass | a search returns the first function 0 that matches, the list has every function, sizes and bases are right but for bridges mistaken, and registers restored but for status bits of these |
| `Library.cfg` | pass | every line is that of its format and arguments; buffers are left only by a full-width `%p`; the string functions do what they are for |

Deadlock is not checked: the machine halts after a fault, the boot loop ends in
`hlt`, a call that returned has no next step, and bounded histories stop. The
three violations are findings; `PROJECT.json` quotes the line each contradicts.

Where the code fails and no passing property can say otherwise, the properties
are worded around it, and the hazard in `PROJECT.json` names none of them:
`kalloc` of more than a page; a bitmap that does not fit; a direct map at another
offset than `PA2VA`'s; page faults that never end; an overflow inside `kbd_getc`
that makes it return characters again; a backspace on an empty line; one of two
shift keys released; a search without a match, and later functions in a search;
bridges whose registers are taken for BARs; registers that a page fault changes;
directives that `serial_fwrite` does not know.

`MemMap`'s second region is the largest of those in front of the largest one, not
the second largest of all, which is what the names and the log call it.

`InOrder` of `Keyboard` excludes an overflow inside `kbd_getc` because the
property fails there: `kbd_buf_tail` is loaded twice, and characters pushed after
an overflow between the loads are returned twice (or, with more slots, out of
order).

## Proofs

All are proved for every value of the constants that the named assumptions allow
(`RegionAssumption`, `SizesAssumption`, `ForeignAssumption`,
`MemoryMapsAssumption`, `HhdmAssumption`, `StrayAssumption`,
`SchedulerAssumption`, `BootAssumption`, `OrderAssumption`, `VmmAssumption`,
`KeyboardAssumption`, `RegSwitchAssumption`, `PciAssumption`, `MachinesAssumption`, `BarsAssumption`,
`StringsAssumption`, `SerialAssumption`, `FormatsAssumption`; TLC evaluates them
in the runs).

* `PmmProofs`. `Inv` adds to `TypeOK`, `Accounting` and `ScrubbedPool` that
  `pmm_file` is either all zero or what `pmm_init` stored (`FileOK`): without it
  nothing is known of the loop's bound. `IndexOfAddr` says that `kfree` finds the
  bit `palloc` set. From `Inv` follow `TypeCorrect`, `AccountingHolds`,
  `PoolIsScrubbed` and, as an action property, `StoredDataIsKept`.
  `NobodyShares` needs in addition that the count of owners is that of the
  pointers (`ClaimsAreSpans`) and assumes `OnePage`: no size beyond a page.
  `ImplementsPageAllocator` maps every step to a step or a stutter of
  `PageAllocator` and assumes `NoSpareBits`: every bit stands for a page of the
  region. Without it a page behind the end that `kfree` ignores is lost and the
  refinement fails.
* `SchedulerProofs`. `OneRunning` and `ListSound` are not inductive: `Inv` adds
  where `kmain` is in `register_proc` (`RegisterState`), that nothing is on the
  list before the first append (`NothingYet`), that the slots behind the count are
  NULL but for one just stored (`SlotsBehind`), and that the current process is
  on the list (`CurrentListed`). It gives `TypeCorrect`, `OneProcessRuns` and
  `RunnableAreListed`, with a lemma per step of `kmain` and one for the tick.
  `DueTicksSwitch` needs that the search looks at every slot and at
  `current_proc` last (`LooksEverywhere`, `CurrentIsLast`).
  `NobodyIsOvertakenTwice` rests on a second invariant, `TurnComes`: what a
  process has waited and what the search has in front of it are together less
  than a round, for a switch moves the search's start at least as far as it adds
  to the wait; and nothing has waited while the list can still grow.
  Of `TimerIrq`, `IrqInv` keeps the scheduler's `Inv` and adds that before the
  first switch no process has been saved inside a gate (`FlagsAreInitial`), and
  that a process runs with interrupts on and the timer's line in service
  (`ProcessUndisturbed`): the 8259 then offers nothing, so no tick can save the
  process with IF clear. From it follow `InterruptsAckedOnce`,
  `ProcessesStartInterruptible`, `SchedulerSoundUnderInterrupts`, and
  `FirstSwitchIsLast`: the EOI is behind the switch, so no second tick comes. The second would not survive a repair of the EOI alone:
  a process saved by a tick would come back with interrupts off.
* `BootProofs`. Of `MemMap`, `Inv` adds that the bases are those of the entries,
  rebased once the call is made. It gives `TypeCorrect`, `FindsLargest`,
  `FindsSecondBefore` and `HandsOverEntries`. Of `Boot`: nothing is freed during the boot, so the bits that are set are
  the first ones and the n-th call returns the n-th page or NULL
  (`TakenInOrder`); with `FileStored` (the fields of `pmm_file` and the cleared
  ranges) and `MemMap`'s invariant this gives `BitmapStaysInPlace` and
  `BootPagesApart`. `OrderAssumption` is what the boot protocol says of the map:
  sorted, usable entries without overlap. It puts the second region in front
  of the largest one in memory.

* `VmmProofs`. `Inv` says of the tables, as nodes (a level and the indices that
  lead to it), that no two nodes are reached at the same page and that every page
  reached is taken or the bootloader's (`Tree`); and that what the processor has
  cached of an address in a large page is right. `Descend` keeps the tree because
  a page it links was free, hence at no node (`Link`); the last store keeps it
  because only the page table's entries change (`Write`); `vmm_init`'s copy keeps
  it because the old top table is no longer reached (`Copy`). From it follow
  `TablesStayATree`, `MappingsAreLocal`, `OnlyMmapMakesStale` and, assuming
  `FramesApart` (the numbers a fault maps its address to are not those of the
  kernel's frame or the data's, as in the run), `MmapReaches`.
* `KeyboardProofs`. The ring alone does not give the order of characters, for
  `kbd_getc` looks at it in several loads with the interrupt in between. `Inv`
  says that the filled slots hold consecutive numbers up to the last typed
  (`Consecutive`), and what the reader may still rely on at each of its steps
  (`ReaderSound`). It gives `CharactersInOrder`, `NulOnlyByRace` and
  `NothingLostBeforeOverflow`; `ShiftIsHeld` and `LayoutFollowsKeys` need only
  the keys held. `LineIsWhatWasTyped` is about what `kbd_gets` has made of its
  characters, a recursive function of them (`Edits`): `GetsSound` says that `out`
  and `read` are where that function is, store by store.
* `PciProofs`. `Inv` says that what lies before the place the loops have reached
  has been seen: no match is behind a search (`SearchSound`), every function
  behind a list is on it with the right region, and the only register that may
  differ from what it was, but for the lost status bits, is the one being sized,
  whose value the call still has (`ListSound`). It gives `SearchFindsFirst`, `ListIsComplete` and
  `ListHasRegions`. What they need of the bits of a BAR are lemmas: the mask read
  back is the two's complement of the size (`SizedRight`, from `SizedLow` for its
  low half), none is in front of the first memory BAR while it holds the mask
  (`SizedFirst`), and the last write restores it (`SizedBack`; `SizedMistaken` for
  a bridge's register that is no BAR).
* `LibraryProofs`. The loops of `string.c` are written as the first index at which
  their condition fails; `FirstStop` says that it is there, as the least
  counterexample to the loop running on. A lemma per function follows: those that
  write are `With` a sequence at an address (`CopyIs` says what the recursion of
  the copying loops ends with, upwards and downwards, which is where an
  overlapping `memmove` is right), those that compare stop where the sequences
  first differ (`CompareAt`), those that search are a minimum or a maximum. A
  series of `strtok` has passed a number of runs and cut behind each (`Series`);
  `NextRun` and `NoneIsLeft` say that a call passes exactly the next run or there
  is none. `StringsInv` adds this, and that the memory keeps its type, to
  `StringsDoTheirWork`.
  Of `Serial`, the conversions first: `DigitsSound` says that the loops store the
  digits of a number's places and stop at its highest, so that reversed and filled
  up they are the reference's `Numeral` (`PaddedIs`, `UnpaddedIs`, `SignedIs`,
  `DecimalIs`). Then the line: `SerialInv` says that `serial_fwrite` has passed a
  number of pieces of its format (`Within`: where it reads, what it has written,
  and that the arguments left are those of the pieces ahead) or is behind the
  terminator of a format that ends inside a directive (`Beyond`), and that the
  cache of `serial_i2s` holds the numeral of its value (`CacheSound`), without
  which the ids would be wrong. `PiecePasses` takes a step of the loop from one
  piece to the next; `Seen` is what it reads of the piece. From `SerialInv`
  follow `LinesAreRight` and `CallsStayInside`, for all formats that
  `FormatsAssumption` allows and numbers of any size.
* `RegsProofs`. Of `RegSwitch`: the base register holds the `Procedure`'s address
  or the zero that the block itself has loaded over it (`BasesSound`), and the
  first block leaves the registers alone and has stored what it found in them
  (`SavesWhatItFound`). So the saved context lacks what
  `LostBySave` lists and no more (`SaveLosesItsBase`), and since every base is
  among the first seventeen loads the eighteenth step, the jump, is never reached
  (`SwitchNeverJumps`): the finding of `RegSwitchJump.cfg` for each of the choices.
  Of `Exceptions`: `ExcInv` says for each place in a stub what is on the stack and
  in the argument registers. An exception inside the handler is the fault at
  address 0, which is not handled; only the outermost one returns, so that only
  its words of the stack need to be known (`Outermost`).

The provers have no induction over data. Where a recursive definition or a loop
over a sequence is proved about, the induction is a least counterexample
(`LeastOf`: a non-empty set of naturals has a least element).

Only model-checked: liveness (`TicksServed` and `SearchReturns`), which the prover
does not handle. Every other property of the passing runs is a theorem.

## Plan

1. Done: every part of the kernel that runs and has behaviour of its own, from
   the bootloader's answers to the processes' end; proofs of `Pmm`, `MemMap`,
   `Boot`, `Scheduler`, `TimerIrq`, `Vmm`, `Keyboard`, `Pci`, `Serial`,
   `Strings`, `RegSwitch` and `Exceptions`.
2. Next in the model: `palloc` of `Pmm` under `Vmm` in place of `Pool`.
3. Next proofs: those of that composition. (`BoundedWait` says nothing more over
   `TimerIrq`, where the first switch is the last.)

## Not modelled, and why

`printk` and flanterm are vendored; the GDT, the ports, the panic message and
the logo (`DisplaySplash`, without a caller) hold no state that matters; the build
files and the boot configuration are not part of the running kernel.
`create_proc`'s bookkeeping fields and pids are read by nothing but a log line.
Log output is left out of every module but `Serial`.

xHCI is dead code. Nothing calls it, and the linker drops unused functions
(`--gc-sections`), so that the two functions it calls and the tree does not
define are not missed. It writes the event ring's address through
`interrupter[0..2]`, which are other registers of the controller, and its handler
tests the cycle bit in a word that does not hold it: there would be no events,
and so no behaviour to state properties of.
