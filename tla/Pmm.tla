-------------------------------- MODULE Pmm --------------------------------
(***************************************************************************)
(* The physical memory manager, PMM/pmm.c: one bit per 4096-byte page of   *)
(* the largest usable region, kept in the second largest one.  kalloc and  *)
(* palloc take the lowest clear bit, kfree clears one and zeroes the page. *)
(* A call is one step: the calls of kmain do not overlap.                  *)
(***************************************************************************)
EXTENDS Integers

CONSTANTS
    LargestBase,     \* address of the managed region, as kmain passes it
    LargestLength,   \* its length in bytes
    Sizes,           \* the sizes callers pass to kalloc
    Foreign          \* pointers outside the region that callers pass to kfree

NULL == 0
PageSize == 4096

ASSUME RegionAssumption ==
    /\ LargestBase \in Nat \ {0}
    /\ LargestLength \in Nat
ASSUME SizesAssumption == Sizes \subseteq Nat
ASSUME ForeignAssumption ==
    /\ Foreign \subseteq Nat
    /\ \A a \in Foreign : a < LargestBase \/ a >= LargestBase + LargestLength

VARIABLES
    pmm_file,   \* the fields of *pmm_file the code reads back
    bitmap,     \* the indices of the bits that are set
    dirty,      \* the pages that hold bytes some caller stored
    span,       \* history: pages asked for by the holder of a page's pointer
    claims,     \* history: how many live allocations count a page as theirs
    asked,      \* history: the last allocation asked for a non-zero size
    ret         \* the pointer the last kalloc or palloc returned

vars == <<pmm_file, bitmap, dirty, span, claims, asked, ret>>

(* bitmap_size of pmm_init, in bytes.                                      *)
BitmapSize(length) == (length \div PageSize + 7) \div 8

(* Mutants of Bits: the loops written with <=, or stopping one bit early.  *)
BitsTooMany == 0 .. pmm_file.bitmap_length * 8
BitsTooFew == 0 .. pmm_file.bitmap_length * 8 - 2

(* The bits the loops of kalloc and palloc visit, i < bitmap_length * 8.   *)
Bits == 0 .. pmm_file.bitmap_length * 8 - 1

(* The pages the bits of the initialised bitmap stand for.                 *)
Pages == 0 .. BitmapSize(LargestLength) * 8 - 1

Addr(i) == pmm_file.base + i * PageSize
Index(ptr) == (ptr - pmm_file.base) \div PageSize

Ready == pmm_file.base # 0

(* The pages whose pointer some caller has and has not freed.              *)
Held == {i \in Pages : span[i] # 0}

(* The statics before pmm_init: all zero, so the loops visit no bit.       *)
Init ==
    /\ pmm_file = [base |-> 0, length |-> 0, bitmap_length |-> 0]
    /\ bitmap = {}
    /\ dirty = {}
    /\ span = [i \in Pages |-> 0]
    /\ claims = [i \in Pages |-> 0]
    /\ asked = FALSE
    /\ ret = NULL

(* Called once, by kmain.                                                  *)
pmm_init ==
    /\ ~Ready
    /\ pmm_file' = [base |-> LargestBase, length |-> LargestLength,
                    bitmap_length |-> BitmapSize(LargestLength)]
    /\ bitmap' = {}
    /\ UNCHANGED <<dirty, span, claims, asked, ret>>

(* Where the search loop stops: the lowest index whose bit is clear.       *)
FirstClear(i) ==
    /\ i \in Bits \ bitmap
    /\ \A j \in Bits : j < i => j \in bitmap

(* A caller that asked for n pages receives the pointer to page i.         *)
Receive(i, n) ==
    /\ span' = [span EXCEPT ![i] = n]
    /\ claims' = [j \in Pages |-> IF j \in i .. i + n - 1 THEN claims[j] + 1
                                                          ELSE claims[j]]

(* Mutant of TakePage: the bit of the page is left clear.                  *)
TakePageUnmarked(n) ==
    /\ \E i \in Bits :
          /\ FirstClear(i)
          /\ ret' = Addr(i)
          /\ Receive(i, n)
    /\ asked' = TRUE
    /\ UNCHANGED <<pmm_file, bitmap, dirty>>

TakePage(n) ==
    /\ \E i \in Bits :
          /\ FirstClear(i)
          /\ bitmap' = bitmap \cup {i}
          /\ ret' = Addr(i)
          /\ Receive(i, n)
    /\ asked' = TRUE
    /\ UNCHANGED <<pmm_file, dirty>>

NoPageLeft ==
    /\ Bits \subseteq bitmap
    /\ ret' = NULL
    /\ asked' = TRUE
    /\ UNCHANGED <<pmm_file, bitmap, dirty, span, claims>>

palloc == TakePage(1) \/ NoPageLeft

PagesNeeded(size) == (size + 4095) \div 4096

(* pages_needed is what the caller asks for; the loop takes one page.      *)
kalloc(size) ==
    \/ /\ size = 0
       /\ ret' = NULL
       /\ asked' = FALSE
       /\ UNCHANGED <<pmm_file, bitmap, dirty, span, claims>>
    \/ /\ size # 0
       /\ TakePage(PagesNeeded(size)) \/ NoPageLeft

BitmapClearBit(index) ==
    bitmap' = IF index >= pmm_file.bitmap_length * 8
              THEN bitmap
              ELSE bitmap \ {index}

(* The caller gives its pointer up, also when kfree ignores it.            *)
GiveUp(i) ==
    /\ span' = [span EXCEPT ![i] = 0]
    /\ claims' = [j \in Pages |-> IF j \in i .. i + span[i] - 1 THEN claims[j] - 1
                                                                ELSE claims[j]]

(* Mutant of Ignored: the last page of the region taken for one outside.   *)
IgnoredLastPage(ptr) ==
    \/ ptr = NULL
    \/ ptr < pmm_file.base
    \/ ptr + PageSize >= pmm_file.base + pmm_file.length

(* The early returns of kfree: NULL, or a pointer outside the region.      *)
Ignored(ptr) ==
    \/ ptr = NULL
    \/ ptr < pmm_file.base
    \/ ptr >= pmm_file.base + pmm_file.length

(* Mutants of Release: no memset, and a memset of two pages.               *)
ReleaseUnscrubbed(ptr) ==
    IF Ignored(ptr) THEN UNCHANGED <<bitmap, dirty>>
                    ELSE BitmapClearBit(Index(ptr)) /\ UNCHANGED dirty

ReleaseScrubsNext(ptr) ==
    IF Ignored(ptr) THEN UNCHANGED <<bitmap, dirty>>
                    ELSE /\ BitmapClearBit(Index(ptr))
                         /\ dirty' = dirty \ {Index(ptr), Index(ptr) + 1}

Release(ptr) ==
    IF Ignored(ptr)
    THEN UNCHANGED <<bitmap, dirty>>
    ELSE /\ BitmapClearBit(Index(ptr))
         /\ dirty' = dirty \ {Index(ptr)}

(* kfree of a pointer the caller holds, and of one that is not a page's.   *)
kfree(i) ==
    /\ Release(Addr(i))
    /\ GiveUp(i)
    /\ UNCHANGED <<pmm_file, asked, ret>>

kfree_foreign(ptr) ==
    /\ Release(ptr)
    /\ UNCHANGED <<pmm_file, span, claims, asked, ret>>

(* The holder of a page stores into it.                                    *)
Store(i) ==
    /\ dirty' = dirty \cup {i}
    /\ UNCHANGED <<pmm_file, bitmap, span, claims, asked, ret>>

Next ==
    \/ pmm_init
    \/ palloc
    \/ \E size \in Sizes : kalloc(size)
    \/ \E i \in Held : kfree(i) \/ Store(i)
    \/ \E ptr \in Foreign \cup {NULL} : kfree_foreign(ptr)

Spec == Init /\ [][Next]_vars

-----------------------------------------------------------------------------
TypeOK ==
    /\ pmm_file \in [base : Nat, length : Nat, bitmap_length : Nat]
    /\ bitmap \subseteq Pages
    /\ dirty \subseteq Pages
    /\ span \in [Pages -> Nat]
    /\ claims \in [Pages -> Int]
    /\ asked \in BOOLEAN
    /\ ret \in Nat

(* The bits and the callers' pointers never drift apart, over any sequence *)
(* of allocations and frees: a page a caller holds has its bit set, and a  *)
(* page of the region whose bit is set is held by a caller, so kfree never *)
(* frees a page under its holder and never leaks a page of the region.     *)
Accounting ==
    /\ Held \subseteq bitmap
    /\ \A i \in bitmap : i < LargestLength \div PageSize => i \in Held

(* No page is ever counted as theirs by two live allocations.              *)
NoSharing == \A i \in Pages : claims[i] <= 1

(* A page in the pool holds nothing its last holder stored: kfree zeroes   *)
(* it before palloc or kalloc can hand it to someone else.                 *)
ScrubbedPool == dirty \subseteq bitmap

(* What a caller stored in a page it keeps is still there after any step,  *)
(* whatever is allocated or freed around it.                               *)
DataKept == [][\A i \in Held : i \in dirty /\ span'[i] # 0 => i \in dirty']_vars

(* palloc's comment "No free pages found": a pointer that is not NULL is a *)
(* page of the region.                                                     *)
PointerInRegion ==
    ret # NULL => ret + PageSize <= LargestBase + LargestLength

(* The allocator as its callers see it.                                    *)
Abstract == INSTANCE PageAllocator WITH
    Page <- {LargestBase + i * PageSize : i \in Pages},
    NoPage <- NULL,
    ready <- Ready,
    out <- {LargestBase + i * PageSize : i \in Held}

(* Every call of pmm.c is a step of the abstract allocator.                *)
Refinement == Abstract!ASpec
=============================================================================
