-------------------------------- MODULE Vmm --------------------------------
(***************************************************************************)
(* The virtual memory manager, VMM/vmm.c: four levels of page tables, the  *)
(* top one a copy of the bootloader's, the others taken from palloc when   *)
(* mmap needs them and never given back.  exception_handler (IDT/idt.c)    *)
(* maps the address of a page fault to itself.                             *)
(*                                                                         *)
(* An address is the tuple of its four indices, of two values each; the    *)
(* first one tells the two halves of the address space apart.  A frame is  *)
(* a number.  A call is one step: the only caller of mmap in the tree is an*)
(* interrupt gate.  mmap may be called for any page but the one at address *)
(* 0, so that writing to palloc's NULL is a fault and halts.  Of the direct*)
(* map the model has one large page, of two pages of data, which may be    *)
(* written and executed.                                                   *)
(***************************************************************************)
EXTENDS Integers, Sequences

CONSTANTS
    Pool,         \* the frames of the region that palloc manages
    Boot,         \* the bootloader's tables of the kernel, top level first,
                  \* and the directory of the direct map
    KernelFrame,  \* the frame its one page is mapped to, read-only
    Data,         \* the first of two frames of data, in a large page
    Junk,         \* what a frame of the pool holds before its first use
    Addresses,    \* the addresses that are mapped, unmapped or touched
    Targets       \* the frames mmap's callers pass

Index == {0, 1}
Zero == <<0, 0, 0, 0>>
Kernel == <<1, 1, 1, 1>>      \* the address of the kernel's page
Absent == -1

(* The number of an address's page, which is also the frame an identity    *)
(* mapping names; in the upper half that number has reserved bits set.     *)
PageOf(va) == 8 * va[1] + 4 * va[2] + 2 * va[3] + va[4]
Reserved == {8 + n : n \in 0 .. 7}

(* The addresses that the directory's large entry translates.              *)
Large(va) == <<va[1], va[2], va[3]>> = <<1, 0, 0>>

BootFrames == {Boot[n] : n \in 1 .. 5}
Frames == Pool \cup BootFrames \cup {Data}

ASSUME VmmAssumption ==
    /\ Pool \subseteq Nat /\ BootFrames \subseteq Nat
    /\ Pool \cap BootFrames = {}
    /\ \A m, n \in 1 .. 5 : m # n => Boot[m] # Boot[n]
    /\ Data \in Nat \ (Pool \cup BootFrames)
    /\ Addresses \subseteq Index \X Index \X Index \X Index
    /\ Targets \subseteq Nat /\ KernelFrame \in Nat /\ Junk \in Nat

VARIABLES
    PML4,     \* the frame of the top table, NULL before vmm_init
    cr3,      \* the top table the processor walks
    tables,   \* the entries of every frame, read as a table
    out,      \* the frames palloc has handed out
    tlb,      \* the translations of Addresses the processor has cached
    halted    \* a fault has stopped the machine

vars == <<PML4, cr3, tables, out, tlb, halted>>

NULL == -1

(* The bootloader's tables lead to the kernel's page, the directory of the *)
(* direct map, whose entry 0 is large, and nowhere else.                   *)
BootTable(n) ==
    [i \in Index |-> CASE n = 5 -> IF i = 0 THEN Data ELSE Absent
                       [] n = 2 /\ i # Kernel[2] -> Boot[5]
                       [] n \in {1, 3, 4} /\ i # Kernel[n] -> Absent
                       [] n = 4 /\ i = Kernel[4] -> KernelFrame
                       [] n < 4 /\ i = Kernel[n] -> Boot[n + 1]]

Init ==
    /\ PML4 = NULL
    /\ cr3 = Boot[1]
    /\ tables = [f \in Frames |->
                    IF f \in Pool \cup {Data} THEN [i \in Index |-> Junk]
                    ELSE BootTable(CHOOSE n \in 1 .. 5 : Boot[n] = f)]
    /\ out = {}
    /\ tlb = [va \in Addresses |-> Absent]
    /\ halted = FALSE

(* palloc's page: the first that is free.                                  *)
Free(taken) == Pool \ taken
First(set) == CHOOSE f \in set : \A g \in set : f <= g

(* Without a page memcpy writes to NULL, a fault that halts.               *)
vmm_init ==
    /\ PML4 = NULL /\ ~halted
    /\ \/ /\ Free(out) = {}
          /\ halted' = TRUE
          /\ UNCHANGED <<PML4, cr3, tables, out, tlb>>
       \/ /\ Free(out) # {}
          /\ PML4' = First(Free(out))
          /\ out' = out \cup {PML4'}
          /\ tables' = [tables EXCEPT ![PML4'] = tables[cr3]]
          /\ cr3' = PML4'
          /\ tlb' = [va \in Addresses |-> Absent]
          /\ UNCHANGED halted

(* Some other part of the kernel takes a page and fills it.                *)
OtherPalloc ==
    /\ ~halted /\ Free(out) # {}
    /\ out' = out \cup {First(Free(out))}
    /\ UNCHANGED <<PML4, cr3, tables, tlb, halted>>

(* A page for a table, cleared and linked from entry i of the table w.at.  *)
NewTable(w, i, f) ==
    [w.tables EXCEPT ![f] = [j \in Index |-> Absent], ![w.at][i] = f]

(* Mutants of Descend: the new table is not cleared; its page stays free.  *)
DescendUncleared(w, i) ==
    CASE ~w.ok -> w
      [] w.ok /\ w.tables[w.at][i] # Absent -> [w EXCEPT !.at = w.tables[w.at][i]]
      [] w.ok /\ w.tables[w.at][i] = Absent /\ Free(w.out) = {} ->
            [w EXCEPT !.ok = FALSE]
      [] OTHER ->
            LET f == First(Free(w.out)) IN
            [tables |-> [w.tables EXCEPT ![w.at][i] = f],
             out |-> w.out \cup {f}, at |-> f, ok |-> TRUE]
DescendUntaken(w, i) ==
    CASE ~w.ok -> w
      [] w.ok /\ w.tables[w.at][i] # Absent -> [w EXCEPT !.at = w.tables[w.at][i]]
      [] w.ok /\ w.tables[w.at][i] = Absent /\ Free(w.out) = {} ->
            [w EXCEPT !.ok = FALSE]
      [] OTHER ->
            LET f == First(Free(w.out)) IN
            [tables |-> NewTable(w, i, f), out |-> w.out, at |-> f, ok |-> TRUE]

(* One level of mmap's walk: the table behind an entry that is present, or *)
(* a cleared new one; a palloc that fails ends the walk, for memset then   *)
(* writes to NULL and halts the machine with the tables linked so far.  An *)
(* entry is not asked whether it is large: data is taken for a table.      *)
Descend(w, i) ==
    CASE ~w.ok -> w
      [] w.ok /\ w.tables[w.at][i] # Absent -> [w EXCEPT !.at = w.tables[w.at][i]]
      [] w.ok /\ w.tables[w.at][i] = Absent /\ Free(w.out) = {} ->
            [w EXCEPT !.ok = FALSE]
      [] OTHER ->
            LET f == First(Free(w.out)) IN
            [tables |-> NewTable(w, i, f),
             out |-> w.out \cup {f}, at |-> f, ok |-> TRUE]

TablesFor(va) ==
    LET top == [tables |-> tables, out |-> out, at |-> PML4, ok |-> TRUE]
    IN Descend(Descend(Descend(top, va[1]), va[2]), va[3])

(* Mutant of Mapped: the page table is indexed as the directory was.       *)
MappedAside(va, frame) ==
    LET w == TablesFor(va) IN
       /\ out' = w.out
       /\ halted' = ~w.ok
       /\ tables' = IF w.ok THEN [w.tables EXCEPT ![w.at][va[3]] = frame]
                            ELSE w.tables
       /\ UNCHANGED <<PML4, cr3>>

(* Three levels down, then the page table's entry: mmap from its walk on.  *)
Mapped(va, frame) ==
    LET w == TablesFor(va) IN
       /\ out' = w.out
       /\ halted' = ~w.ok
       /\ tables' = IF w.ok THEN [w.tables EXCEPT ![w.at][va[4]] = frame]
                            ELSE w.tables
       /\ UNCHANGED <<PML4, cr3>>

mmap(va, frame) ==
    /\ PML4 # NULL /\ ~halted
    /\ Mapped(va, frame)
    /\ UNCHANGED tlb

(* The table that a walk from root reaches by the indices of path, Absent  *)
(* where an entry on the way is.                                           *)
Table(root, path) ==
    LET next(f, i) == IF f \in Frames THEN tables[f][i] ELSE Absent
    IN CASE Len(path) = 0 -> root
         [] Len(path) = 1 -> next(root, path[1])
         [] Len(path) = 2 -> next(next(root, path[1]), path[2])
         [] Len(path) = 3 -> next(next(next(root, path[1]), path[2]), path[3])
PageTable(root, va) == Table(root, <<va[1], va[2], va[3]>>)

(* Mutant of unmap: without the invlpg.                                     *)
unmapLazily(va) ==
    /\ PML4 # NULL /\ ~halted
    /\ LET pt == PageTable(PML4, va) IN
       /\ pt # Absent
       /\ tables' = [tables EXCEPT ![pt][va[4]] = Absent]
    /\ UNCHANGED tlb
    /\ UNCHANGED <<PML4, cr3, out, halted>>

(* Without a page table there is nothing to clear and the call returns.    *)
unmap(va) ==
    /\ PML4 # NULL /\ ~halted
    /\ LET pt == PageTable(PML4, va) IN
       /\ pt # Absent
       /\ tables' = [tables EXCEPT ![pt][va[4]] = Absent]
    /\ tlb' = [tlb EXCEPT ![va] = Absent]
    /\ UNCHANGED <<PML4, cr3, out, halted>>

(* What the processor makes of an address: a frame, or Absent.             *)
Walk(va) ==
    LET pt == PageTable(cr3, va)
    IN CASE Large(va) -> Data + va[4]
         [] ~Large(va) /\ pt \in Frames -> tables[pt][va[4]]
         [] ~Large(va) /\ pt \notin Frames -> Absent
Translates(va) == Walk(va) \notin Reserved \cup {Absent}

(* The processor uses an address and caches its translation, which it may  *)
(* forget at any time.                                                     *)
Touch(va) ==
    /\ ~halted /\ (tlb[va] = Absent => Translates(va))
    /\ tlb' = [tlb EXCEPT ![va] = IF @ = Absent THEN Walk(va) ELSE Absent]
    /\ UNCHANGED <<PML4, cr3, tables, out, halted>>

(* The processor cannot translate an address, or may not write to it; the  *)
(* fault drops what it had cached.                                         *)
Faults(va) ==
    \/ tlb[va] = Absent /\ ~Translates(va)
    \/ KernelFrame = IF tlb[va] = Absent THEN Walk(va) ELSE tlb[va]

(* The first page halts; any other is mapped to itself, whatever the error *)
(* code says of the fault and whatever the page was mapped to before.      *)
exception_handler(va) ==
    /\ PML4 # NULL /\ ~halted
    /\ Faults(va)
    /\ tlb' = [tlb EXCEPT ![va] = Absent]
    /\ \/ /\ va = Zero
          /\ halted' = TRUE
          /\ UNCHANGED <<PML4, cr3, tables, out>>
       \/ va # Zero /\ Mapped(va, PageOf(va))

Next ==
    \/ vmm_init
    \/ OtherPalloc
    \/ \E va \in Addresses :
          \/ va # Zero /\ \E frame \in Targets : mmap(va, frame)
          \/ unmap(va)
          \/ Touch(va)
          \/ exception_handler(va)

Spec == Init /\ [][Next]_vars

-----------------------------------------------------------------------------
AllAddresses == Index \X Index \X Index \X Index
Paths == UNION {[1 .. n -> Index] : n \in 0 .. 3}

(* The page tables that mmap builds form a tree: no frame is a table for   *)
(* two different sequences of indices, so that an entry written for one    *)
(* address cannot change what another one maps to; and palloc will not hand*)
(* out again any page that a walk uses as a table.                         *)
TablesAreATree ==
    \A p \in Paths :
        /\ \/ Table(cr3, p) \in out \cup BootFrames \cup {Absent}
           \/ Table(cr3, p) = Data /\ p = <<1, 0, 0>>
        /\ \A q \in Paths :
              p # q /\ Table(cr3, p) # Absent => Table(cr3, p) # Table(cr3, q)

Changes(va) ==
    unmap(va) \/ exception_handler(va) \/ \E frame \in Targets : mmap(va, frame)

(* Copying the top table in vmm_init, and the pages other parts take, leave*)
(* every translation as it is; mmap, unmap and the fault handler change the*)
(* translation of their own address at most.  They write into a page of    *)
(* data only for an address in the large page that maps it.                *)
OthersKeepTheirTranslation ==
    [][/\ \A va \in AllAddresses :
             Walk(va)' # Walk(va) => va \in Addresses /\ Changes(va)
       /\ \/ tables'[Data] = tables[Data]
          \/ \E va \in Addresses : Large(va) /\ Changes(va)]_vars

(* The address that mmap maps is translated to the frame it was given when *)
(* mmap returns, whatever tables it found or made on the way, unless a     *)
(* large page keeps its translation; and a fault that the handler returns  *)
(* from is over if the address is in the lower half, and comes again if it *)
(* is in the upper one, where the page may also have lost its frame.       *)
MmapTranslates ==
    [][\A va \in Addresses :
          /\ \A frame \in Targets :
                mmap(va, frame) /\ ~halted' =>
                   Walk(va)' = IF Large(va) THEN Walk(va) ELSE frame
          /\ exception_handler(va) /\ ~halted' =>
                /\ Walk(va)' = PageOf(va)
                /\ Faults(va)' <=> va[1] = 1]_vars

Fresh(va) == tlb[va] \in {Absent, Walk(va)}

(* A translation the processor has cached is the one the tables give, and  *)
(* only mmap over an address that is mapped already makes it stale: unmap, *)
(* the switch to the copied top table and a fault never do.                *)
OnlyRemapMakesStale ==
    [][\A va \in Addresses :
          \/ Fresh(va) => Fresh(va)'
          \/ Walk(va) # Absent /\ \E frame \in Targets : mmap(va, frame)]_vars
=============================================================================
