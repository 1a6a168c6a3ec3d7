-------------------------------- MODULE Boot --------------------------------
(***************************************************************************)
(* kmain (init.c) from its checks of the bootloader's answers to the first *)
(* call of register_proc: the choice of the two regions (MemMap), pmm_init *)
(* on them, and the pages that vmm_init, test_sched and create_proc take.  *)
(* It puts the parts together on one physical memory: what is the bitmap,  *)
(* what is cleared, and which bytes each page has.                         *)
(*                                                                         *)
(* Nothing is freed before the processes run, and a tick finds no process  *)
(* to switch to.  gdt_init, pit_init, idt_init and scheduler_init touch    *)
(* none of this state.                                                     *)
(***************************************************************************)
EXTENDS MemMap, Sequences

CONSTANTS
    PAGE,       \* bytes of a page: 4096
    Direct      \* the offset that PA2VA and VA2PA hard-code

ASSUME BootAssumption == PAGE \in Nat \ {0} /\ Direct \in Nat

(* The bootloader sorts the map, and usable entries do not overlap.        *)
ASSUME OrderAssumption ==
    \A m \in MemoryMaps : \A j, k \in DOMAIN m :
        j < k /\ m[j].usable /\ m[k].usable => m[j].base + m[j].length <= m[k].base

Requests == {"base_revision", "framebuffer", "memmap", "hhdm"}

(* Whose page the n-th call of palloc or kalloc takes.                     *)
Owners == <<"PML4", "stack0", "heap0", "stack1", "heap1", "proc0", "proc1">>
StackOf(proc) == IF proc = "proc0" THEN 2 ELSE 4

VARIABLES
    answered,   \* external: the requests with a response kmain can use
    at,         \* where kmain is, or how it ended
    pmm_file,   \* the fields of *pmm_file
    bitmap,     \* the indices of the bits that are set
    cleared,    \* the physical addresses of what pmm_init has zeroed
    held,       \* the pointers the calls returned, in the order of Owners
    cr3         \* the physical address of the table the processor walks

bootVars == <<vars, answered, at, pmm_file, bitmap, cleared, held, cr3>>
memory == <<pmm_file, bitmap, cleared>>

BootInit ==
    /\ Init
    /\ answered \in SUBSET Requests
    /\ at = "check"
    /\ pmm_file = [base |-> 0, length |-> 0, bitmap_base |-> 0, bitmap_length |-> 0]
    /\ bitmap = {} /\ cleared = {}
    /\ held = <<>>
    /\ cr3 = 0

(* Any answer that is missing, or says that there is nothing, ends in hcf. *)
Check ==
    /\ at = "check"
    /\ at' = IF answered = Requests THEN "scan" ELSE "hcf"
    /\ UNCHANGED <<vars, answered, memory, held, cr3>>

(* The loop over the memory map.                                           *)
Enumerate ==
    /\ at = "scan"
    /\ Scan
    /\ UNCHANGED <<answered, at, memory, held, cr3>>

-----------------------------------------------------------------------------
(* A pointer into the direct map, and the bytes behind it.                 *)
Physical(ptr) == ptr - HhdmOffset
Bytes(ptr, n) == Physical(ptr) .. Physical(ptr) + n - 1
Page(ptr) == Bytes(ptr, PAGE)

(* Mutant of BitmapSize: a bit per byte of a page's number.                *)
BitmapSizeInBits(length) == length \div PAGE
BitmapSize(length) == (length \div PAGE + 7) \div 8

(* pmm_init, called with what CallPmmInit makes of the regions.            *)
pmm_init ==
    /\ at = "scan"
    /\ CallPmmInit
    /\ pmm_file' = [base |-> call'.largest_base, length |-> call'.largest_length,
                    bitmap_base |-> call'.second_largest_base,
                    bitmap_length |-> BitmapSize(call'.largest_length)]
    /\ cleared' = Bytes(call'.second_largest_base, pmm_file'.bitmap_length)
                    \cup Bytes(call'.second_largest_base, call'.second_largest_length)
    /\ bitmap' = {}
    /\ at' = "run"
    /\ UNCHANGED <<answered, held, cr3>>

Bits == 0 .. pmm_file.bitmap_length * 8 - 1
TheBitmap == Bytes(pmm_file.bitmap_base, pmm_file.bitmap_length)

Pointers == {NULL} \cup {pmm_file.base + b * PAGE : b \in Bits}

(* Mutant of Alloc: the page's bit stays clear.                            *)
AllocUnmarked(ptr) ==
    /\ \/ Bits \subseteq bitmap /\ ptr = NULL
       \/ \E b \in Bits \ bitmap :
             /\ \A c \in Bits \ bitmap : b <= c
             /\ ptr = pmm_file.base + b * PAGE
    /\ UNCHANGED bitmap

(* What palloc, or kalloc of a size up to a page, returns.                 *)
Alloc(ptr) ==
    \/ /\ Bits \subseteq bitmap
       /\ ptr = NULL
       /\ UNCHANGED bitmap
    \/ \E b \in Bits \ bitmap :
          /\ \A c \in Bits \ bitmap : b <= c
          /\ ptr = pmm_file.base + b * PAGE
          /\ bitmap' = bitmap \cup {b}

Due(owner) == at = "run" /\ Len(held) < Len(Owners) /\ Owners[Len(held) + 1] = owner

(* Pages are written; if one of them holds bytes of the bitmap then nothing*)
(* is known of the bits from there on, and the model ends.                 *)
Write(ptrs, next) ==
    at' = IF NULL \in ptrs THEN "fault"
          ELSE IF \E p \in ptrs : Page(p) \cap TheBitmap # {} THEN "corrupt" ELSE next

VA2PA(ptr) == ptr - Direct

(* vmm_init copies the bootloader's table to its page and switches to it.  *)
vmm_init ==
    /\ Due("PML4")
    /\ \E ptr \in Pointers :
          /\ Alloc(ptr)
          /\ held' = <<ptr>>
          /\ Write({ptr}, "run")
          /\ cr3' = IF ptr = NULL THEN cr3 ELSE VA2PA(ptr)
    /\ UNCHANGED <<vars, answered, pmm_file, cleared>>

(* test_sched takes a page for a stack or a heap and stores its pointer.   *)
TakeForProc(owner) ==
    /\ Due(owner)
    /\ \E ptr \in Pointers :
          /\ Alloc(ptr)
          /\ held' = Append(held, ptr)
    /\ UNCHANGED <<vars, answered, at, pmm_file, cleared, cr3>>

(* create_proc: without a page it returns NULL; with one it clears the     *)
(* Procedure and stores a return address at the top of the stack.          *)
create_proc(proc) ==
    /\ Due(proc)
    /\ \E ptr \in Pointers :
          /\ Alloc(ptr)
          /\ held' = Append(held, ptr)
          /\ IF ptr = NULL THEN UNCHANGED at
                           ELSE Write({ptr, held[StackOf(proc)]}, "run")
    /\ UNCHANGED <<vars, answered, pmm_file, cleared, cr3>>

BootNext ==
    \/ Check
    \/ Enumerate
    \/ pmm_init
    \/ vmm_init
    \/ \E owner \in {"stack0", "heap0", "stack1", "heap1"} : TakeForProc(owner)
    \/ \E proc \in {"proc0", "proc1"} : create_proc(proc)

BootSpec == BootInit /\ [][BootNext]_bootVars

-----------------------------------------------------------------------------
(* The second region has a byte for every eight pages of the largest.      *)
Region(e) == entries[e].base .. entries[e].base + entries[e].length - 1
Fits ==
    /\ SecondLargestEntry # -1
    /\ entries[LargestEntry].length <= 8 * PAGE * entries[SecondLargestEntry].length

(* If the bitmap of the largest region fits into the second, all that      *)
(* pmm_init clears is usable memory of the second region, and no page that *)
(* is taken later holds a byte of the bitmap.  (Nothing in the code asks   *)
(* whether it fits, or whether there is a second region.)                  *)
BitmapInPlace ==
    call # NotCalled /\ Fits =>
        /\ cleared = Region(SecondLargestEntry)
        /\ TheBitmap \subseteq cleared
        /\ at # "corrupt"

(* The pages of the top table, the stacks, the heaps and the Procedures    *)
(* have no byte in common, lie in the largest usable region unless more are*)
(* taken than it has pages, and the processor walks the one vmm_init took  *)
(* if the direct map is where PA2VA has it.                                *)
Taken == {n \in DOMAIN held : held[n] # NULL}
PagesApart ==
    /\ \A m, n \in Taken : m # n => Page(held[m]) \cap Page(held[n]) = {}
    /\ LargestEntry # -1 /\ Len(held) <= entries[LargestEntry].length \div PAGE =>
          \A n \in DOMAIN held : held[n] # NULL /\ Page(held[n]) \subseteq Region(LargestEntry)
    /\ Direct = HhdmOffset /\ 1 \in Taken => cr3 = Physical(held[1])
=============================================================================
