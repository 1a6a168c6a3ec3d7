----------------------------- MODULE PmmProofs -----------------------------
(***************************************************************************)
(* What TLAPS proves of Pmm, for every region and every set of sizes: the  *)
(* type invariant and the safety invariants the runs check, and that the   *)
(* bitmap implements PageAllocator when the bitmap has no spare bits.      *)
(***************************************************************************)
EXTENDS Pmm, TLAPS

(* Before pmm_init the statics are zero and nothing was handed out; after  *)
(* it pmm_file never changes again.                                        *)
FileOK ==
    \/ /\ pmm_file = [base |-> 0, length |-> 0, bitmap_length |-> 0]
       /\ bitmap = {}
       /\ \A i \in Pages : span[i] = 0
    \/ pmm_file = [base |-> LargestBase, length |-> LargestLength,
                   bitmap_length |-> BitmapSize(LargestLength)]

(* The inductive invariant that every region has.                          *)
Inv == TypeOK /\ FileOK /\ Accounting /\ ScrubbedPool

(* No caller asks for more than a page, as no caller in the tree does.     *)
OnePage == \A size \in Sizes : size <= PageSize

(* With such callers a page is claimed by its holder and by nobody else.   *)
ClaimsAreSpans == \A i \in Pages : span[i] <= 1 /\ claims[i] = span[i]

(* Every bit of the bitmap stands for a page of the region.                *)
NoSpareBits == \A i \in Pages : i < LargestLength \div PageSize

-----------------------------------------------------------------------------
(* bitmap_size of pmm_init is a natural number of bytes.                   *)
LEMMA BitmapSizeNat == BitmapSize(LargestLength) \in Nat
  BY RegionAssumption DEF BitmapSize, PageSize

(* The pages are a range of natural numbers.                               *)
LEMMA PagesNat == Pages \subseteq Nat
  BY BitmapSizeNat DEF Pages

(* The search loops visit no bit before pmm_init and all of them after.    *)
LEMMA BitsArePages ==
  ASSUME FileOK
  PROVE  Bits \subseteq Pages /\ (Ready => Bits = Pages)
  BY BitmapSizeNat, RegionAssumption DEF FileOK, Bits, Pages, Ready

(* kfree finds the bit that palloc set: the two conversions are inverse.   *)
LEMMA IndexOfAddr ==
  ASSUME Inv, NEW i \in Pages
  PROVE  Index(Addr(i)) = i /\ Addr(i) \in Nat
  <1>1. pmm_file.base \in Nat /\ i \in Nat
    BY PagesNat DEF Inv, TypeOK
  <1> QED  BY <1>1 DEF Index, Addr, PageSize

(* kfree does not ignore a pointer to a whole page of the region.          *)
LEMMA NotIgnored ==
  ASSUME Inv, Ready, NEW i \in Pages, i < LargestLength \div PageSize
  PROVE  ~Ignored(Addr(i))
  <1>1. pmm_file.base = LargestBase /\ pmm_file.length = LargestLength
    BY DEF Inv, FileOK, Ready
  <1>2. i \in Nat /\ LargestBase \in Nat \ {0} /\ LargestLength \in Nat
    BY PagesNat, RegionAssumption
  <1>3. i * 4096 < LargestLength
    BY <1>2 DEF PageSize
  <1> QED  BY <1>1, <1>2, <1>3 DEF Ignored, Addr, NULL, PageSize

(* kfree ignores every pointer that is not into the region.                *)
LEMMA ForeignIgnored ==
  ASSUME Inv, NEW ptr \in Foreign \cup {NULL}
  PROVE  Ignored(ptr)
  <1>1. CASE ptr = NULL
    BY <1>1 DEF Ignored
  <1>2. CASE ptr \in Foreign
    <2>1. ptr \in Nat /\ (ptr < LargestBase \/ ptr >= LargestBase + LargestLength)
      BY <1>2, ForeignAssumption
    <2> QED  BY <2>1, RegionAssumption DEF Inv, FileOK, Ignored
  <1> QED  BY <1>1, <1>2

(* The pages a size asks for are a natural number of pages, at least one.  *)
LEMMA PagesNeededPositive ==
  ASSUME NEW size \in Sizes, size # 0
  PROVE  PagesNeeded(size) \in Nat \ {0}
  BY SizesAssumption DEF PagesNeeded

(* kalloc and palloc keep the invariant, whatever the caller asked for.    *)
LEMMA TakePageInv ==
  ASSUME Inv, NEW n \in Nat \ {0}, TakePage(n)
  PROVE  Inv'
  <1>1. PICK i \in Bits : /\ FirstClear(i)
                          /\ bitmap' = bitmap \cup {i}
                          /\ ret' = Addr(i)
                          /\ Receive(i, n)
    BY DEF TakePage
  <1>2. i \in Pages /\ i \notin bitmap
    BY <1>1, BitsArePages DEF Inv, FirstClear
  <1>3. /\ asked' = TRUE
        /\ UNCHANGED <<pmm_file, dirty>>
    BY DEF TakePage
  <1>4. TypeOK'
    <2>1. ret' \in Nat
      BY <1>1, <1>2, IndexOfAddr
    <2>2. span' \in [Pages -> Nat]
      BY <1>1 DEF Receive, Inv, TypeOK
    <2>3. claims' \in [Pages -> Int]
      <3>1. \A j \in Pages : claims[j] \in Int
        BY DEF Inv, TypeOK
      <3>2. claims' = [j \in Pages |-> IF j \in i .. i + n - 1 THEN claims[j] + 1
                                                             ELSE claims[j]]
        BY <1>1 DEF Receive
      <3> QED  BY <3>1, <3>2
    <2> QED  BY <1>1, <1>2, <1>3, <2>1, <2>2, <2>3 DEF Inv, TypeOK
  <1>5. Ready
    <2>1. CASE Ready
      BY <2>1
    <2>2. CASE ~Ready
      <3>1. Bits = {}
        BY <2>2, RegionAssumption DEF Inv, FileOK, Ready, Bits
      <3> QED  BY <3>1, <1>1
    <2> QED  BY <2>1, <2>2
  <1>6. FileOK'
    BY <1>3, <1>5 DEF Inv, FileOK, Ready
  <1>7. \A j \in Pages : span'[j] = IF j = i THEN n ELSE span[j]
    BY <1>1 DEF Receive, Inv, TypeOK
  <1>8. Held' = Held \cup {i}
    BY <1>2, <1>7 DEF Held
  <1>9. Accounting'
    BY <1>1, <1>2, <1>8 DEF Inv, Accounting
  <1>10. ScrubbedPool'
    BY <1>1, <1>3 DEF Inv, ScrubbedPool
  <1> QED  BY <1>4, <1>6, <1>9, <1>10 DEF Inv

(* So does the failing search.                                             *)
LEMMA NoPageLeftInv ==
  ASSUME Inv, NoPageLeft
  PROVE  Inv'
  BY DEF Inv, NoPageLeft, TypeOK, FileOK, Accounting, Held, ScrubbedPool, NULL

(* And kfree, also when it ignores a page behind the end of the region.    *)
LEMMA KfreeInv ==
  ASSUME Inv, NEW i \in Held, kfree(i)
  PROVE  Inv'
  <1>1. i \in Pages /\ span[i] # 0 /\ i \in Nat
    BY PagesNat DEF Held
  <1>2. Ready
    BY <1>1, RegionAssumption DEF Inv, FileOK, Ready
  <1>3. /\ pmm_file' = pmm_file /\ asked' = asked /\ ret' = ret
        /\ GiveUp(i) /\ Release(Addr(i))
    BY DEF kfree
  <1>4. bitmap' \in {bitmap, bitmap \ {i}} /\ dirty' \in {dirty, dirty \ {i}}
    BY <1>1, <1>3, IndexOfAddr DEF Release, BitmapClearBit
  <1>5. i < LargestLength \div PageSize => bitmap' = bitmap \ {i}
    <2> SUFFICES ASSUME i < LargestLength \div PageSize
                 PROVE  bitmap' = bitmap \ {i}
      OBVIOUS
    <2>1. BitmapClearBit(Index(Addr(i)))
      BY <1>1, <1>2, <1>3, NotIgnored DEF Release
    <2>2. i < pmm_file.bitmap_length * 8
      BY <1>1, <1>2, BitmapSizeNat DEF Inv, FileOK, Ready, Pages
    <2> QED  BY <1>1, <2>1, <2>2, IndexOfAddr, BitmapSizeNat
             DEF BitmapClearBit, Inv, TypeOK
  <1>6. TypeOK'
    <2>1. span' \in [Pages -> Nat] /\ claims' \in [Pages -> Int]
      BY <1>1, <1>3 DEF GiveUp, Inv, TypeOK
    <2> QED  BY <1>3, <1>4, <2>1 DEF Inv, TypeOK
  <1>7. FileOK'
    BY <1>2, <1>3 DEF Inv, FileOK, Ready
  <1>8. \A j \in Pages : span'[j] = IF j = i THEN 0 ELSE span[j]
    BY <1>3 DEF GiveUp, Inv, TypeOK
  <1>9. Held' = Held \ {i}
    BY <1>8 DEF Held
  <1>10. Accounting'
    BY <1>4, <1>5, <1>9 DEF Inv, Accounting
  <1>11. ScrubbedPool'
    <2>1. dirty' = dirty \ {i} \/ bitmap' = bitmap
      BY <1>1, <1>3, IndexOfAddr DEF Release
    <2> QED  BY <1>4, <2>1 DEF Inv, ScrubbedPool
  <1> QED  BY <1>6, <1>7, <1>10, <1>11 DEF Inv

-----------------------------------------------------------------------------
(* Inv is inductive: type correctness, the agreement of the bits with the  *)
(* callers' pointers, and the zeroed pool, of pmm_init, kalloc, palloc and *)
(* kfree in any order.                                                     *)
LEMMA InvInductive ==
  /\ Init => Inv
  /\ Inv /\ [Next]_vars => Inv'
  <1>1. Init => Inv
    <2> SUFFICES ASSUME Init  PROVE Inv
      OBVIOUS
    <2>1. \A i \in Pages : span[i] = 0
      BY DEF Init
    <2>2. TypeOK
      <3>1. span \in [Pages -> Nat] /\ claims \in [Pages -> Int]
        BY DEF Init
      <3>2. pmm_file \in [base : Nat, length : Nat, bitmap_length : Nat]
        BY DEF Init
      <3>3. asked \in BOOLEAN /\ ret \in Nat
        BY DEF Init, NULL
      <3> QED  BY <3>1, <3>2, <3>3 DEF Init, TypeOK
    <2>3. FileOK /\ Accounting /\ ScrubbedPool
      BY <2>1 DEF Init, FileOK, Accounting, ScrubbedPool, Held
    <2> QED  BY <2>2, <2>3 DEF Inv
  <1>2. ASSUME Inv, [Next]_vars  PROVE Inv'
    <2>1. CASE pmm_init
      <3>1. FileOK' /\ TypeOK'
        <4>1. FileOK'
          BY <2>1 DEF pmm_init, FileOK
        <4>2. pmm_file' \in [base : Nat, length : Nat, bitmap_length : Nat]
          BY <2>1, BitmapSizeNat, RegionAssumption DEF pmm_init
        <4> QED  BY <1>2, <2>1, <4>1, <4>2 DEF pmm_init, Inv, TypeOK
      <3>2. bitmap = {} /\ \A i \in Pages : span[i] = 0
        BY <1>2, <2>1, RegionAssumption DEF pmm_init, Inv, FileOK, Ready
      <3>3. Accounting' /\ ScrubbedPool'
        BY <1>2, <2>1, <3>2
        DEF pmm_init, Inv, Accounting, Held, ScrubbedPool
      <3> QED  BY <3>1, <3>3 DEF Inv
    <2>2. CASE palloc
      BY <1>2, <2>2, TakePageInv, NoPageLeftInv DEF palloc
    <2>3. ASSUME NEW size \in Sizes, kalloc(size)  PROVE Inv'
      <3>1. CASE size = 0
        <4>1. /\ ret' = 0 /\ asked' = FALSE
              /\ UNCHANGED <<pmm_file, bitmap, dirty, span, claims>>
          BY <2>3, <3>1 DEF kalloc, NULL
        <4> QED  BY <1>2, <4>1
                 DEF Inv, TypeOK, FileOK, Accounting, Held, ScrubbedPool
      <3>2. CASE size # 0
        BY <1>2, <2>3, <3>2, PagesNeededPositive, TakePageInv, NoPageLeftInv
        DEF kalloc
      <3> QED  BY <3>1, <3>2
    <2>4. ASSUME NEW i \in Held, kfree(i)  PROVE Inv'
      BY <1>2, <2>4, KfreeInv
    <2>5. ASSUME NEW i \in Held, Store(i)  PROVE Inv'
      <3>1. i \in Pages /\ i \in bitmap
        BY <1>2, <2>5 DEF Held, Inv, Accounting
      <3> QED  BY <1>2, <2>5, <3>1
               DEF Store, Inv, TypeOK, FileOK, Accounting, Held, ScrubbedPool
    <2>6. ASSUME NEW ptr \in Foreign \cup {NULL}, kfree_foreign(ptr)  PROVE Inv'
      BY <1>2, <2>6, ForeignIgnored
      DEF kfree_foreign, Release, Inv, TypeOK, FileOK, Accounting, Held, ScrubbedPool
    <2>7. CASE UNCHANGED vars
      BY <1>2, <2>7 DEF vars, Inv, TypeOK, FileOK, Accounting, Held, ScrubbedPool
    <2> QED  BY <1>2, <2>1, <2>2, <2>3, <2>4, <2>5, <2>6, <2>7 DEF Next
  <1> QED  BY <1>1, <1>2

(* With one-page callers each page's count of owners follows its holder.   *)
LEMMA ReceiveClaims ==
  ASSUME Inv, ClaimsAreSpans, NEW i \in Pages, i \notin bitmap,
         Receive(i, 1)
  PROVE  ClaimsAreSpans'
  <1>1. /\ \A j \in Pages : span'[j] = IF j = i THEN 1 ELSE span[j]
        /\ \A j \in Pages : claims'[j] = IF j \in i .. i THEN claims[j] + 1
                                                       ELSE claims[j]
    BY PagesNat DEF Receive, Inv, TypeOK
  <1>2. span[i] = 0 /\ claims[i] = 0
    BY DEF Inv, Accounting, Held, ClaimsAreSpans
  <1>3. \A j \in Pages : j \in i .. i <=> j = i
    BY PagesNat
  <1> QED  BY <1>1, <1>2, <1>3 DEF ClaimsAreSpans

LEMMA TakePageClaims ==
  ASSUME Inv, ClaimsAreSpans, TakePage(1)
  PROVE  ClaimsAreSpans'
  <1>1. PICK i \in Bits : FirstClear(i) /\ Receive(i, 1)
    BY DEF TakePage
  <1>2. i \in Pages /\ i \notin bitmap
    BY <1>1, BitsArePages DEF Inv, FirstClear
  <1> QED  BY <1>1, <1>2, ReceiveClaims

LEMMA ClaimsInductive ==
  ASSUME OnePage
  PROVE  /\ Init => ClaimsAreSpans
         /\ Inv /\ ClaimsAreSpans /\ [Next]_vars => ClaimsAreSpans'
  <1>1. Init => ClaimsAreSpans
    BY DEF Init, ClaimsAreSpans
  <1>2. ASSUME Inv, ClaimsAreSpans, [Next]_vars  PROVE ClaimsAreSpans'
    <2>1. ASSUME UNCHANGED <<span, claims>>  PROVE ClaimsAreSpans'
      BY <1>2, <2>1 DEF ClaimsAreSpans
    <2>2. CASE palloc
      BY <1>2, <2>1, <2>2, TakePageClaims DEF palloc, NoPageLeft
    <2>3. ASSUME NEW size \in Sizes, kalloc(size)  PROVE ClaimsAreSpans'
      <3>1. CASE size = 0
        BY <2>1, <2>3, <3>1 DEF kalloc
      <3>2. CASE size # 0
        <4>1. PagesNeeded(size) = 1
          BY <3>2, SizesAssumption DEF OnePage, PagesNeeded, PageSize
        <4> QED  BY <1>2, <2>1, <2>3, <3>2, <4>1, TakePageClaims
                 DEF kalloc, NoPageLeft
      <3> QED  BY <3>1, <3>2
    <2>4. ASSUME NEW i \in Held, kfree(i)  PROVE ClaimsAreSpans'
      <3>1. i \in Pages /\ i \in Nat /\ span[i] = 1
        BY <1>2, <2>4, PagesNat DEF Held, ClaimsAreSpans, Inv, TypeOK
      <3>2. /\ \A j \in Pages : span'[j] = IF j = i THEN 0 ELSE span[j]
            /\ \A j \in Pages : claims'[j] = IF j \in i .. i + 1 - 1
                                          THEN claims[j] - 1 ELSE claims[j]
        BY <1>2, <2>4, <3>1 DEF kfree, GiveUp, Inv, TypeOK
      <3>3. \A j \in Pages : j \in i .. i + 1 - 1 <=> j = i
        BY <3>1, PagesNat
      <3> QED  BY <1>2, <3>1, <3>2, <3>3 DEF ClaimsAreSpans
    <2>5. ASSUME NEW i \in Held, Store(i)  PROVE ClaimsAreSpans'
      BY <2>1, <2>5 DEF Store
    <2>6. ASSUME NEW ptr \in Foreign \cup {NULL}, kfree_foreign(ptr)
          PROVE  ClaimsAreSpans'
      BY <2>1, <2>6 DEF kfree_foreign
    <2>7. CASE pmm_init
      BY <2>1, <2>7 DEF pmm_init
    <2>8. CASE UNCHANGED vars
      BY <2>1, <2>8 DEF vars
    <2> QED  BY <1>2, <2>2, <2>3, <2>4, <2>5, <2>6, <2>7, <2>8 DEF Next
  <1> QED  BY <1>1, <1>2

(* The variables of the allocator keep their types.                        *)
THEOREM TypeCorrect == Spec => []TypeOK
  <1>1. Inv => TypeOK  BY DEF Inv
  <1> QED  BY <1>1, InvInductive, PTL DEF Spec

(* A held page has its bit set, and a set bit of the region a holder.      *)
THEOREM AccountingHolds == Spec => []Accounting
  <1>1. Inv => Accounting  BY DEF Inv
  <1> QED  BY <1>1, InvInductive, PTL DEF Spec

(* What palloc and kalloc hand out next holds none of the bytes its last   *)
(* holder stored.                                                          *)
THEOREM PoolIsScrubbed == Spec => []ScrubbedPool
  <1>1. Inv => ScrubbedPool  BY DEF Inv
  <1> QED  BY <1>1, InvInductive, PTL DEF Spec

(* As long as nobody asks for more than a page, no page has two owners.    *)
THEOREM NobodyShares ==
  ASSUME OnePage
  PROVE  Spec => []NoSharing
  <1>1. ClaimsAreSpans => NoSharing
    BY DEF ClaimsAreSpans, NoSharing
  <1> QED  BY <1>1, InvInductive, ClaimsInductive, PTL DEF Spec

(* No step touches the bytes of a page that its holder keeps.              *)
THEOREM StoredDataIsKept == Spec => DataKept
  <1> DEFINE Kept == \A i \in Held : i \in dirty /\ span'[i] # 0 => i \in dirty'
  <1>1. ASSUME Inv, [Next]_vars  PROVE Kept \/ UNCHANGED vars
    <2>1. ASSUME UNCHANGED dirty  PROVE Kept
      BY <2>1
    <2>2. CASE pmm_init \/ palloc
      BY <2>1, <2>2 DEF pmm_init, palloc, TakePage, NoPageLeft
    <2>3. ASSUME NEW size \in Sizes, kalloc(size)  PROVE Kept
      BY <2>1, <2>3 DEF kalloc, TakePage, NoPageLeft
    <2>4. ASSUME NEW i \in Held, kfree(i)  PROVE Kept
      <3>1. i \in Pages /\ span'[i] = 0
        BY <1>1, <2>4 DEF Held, kfree, GiveUp, Inv, TypeOK
      <3>2. dirty' \in {dirty, dirty \ {i}}
        BY <1>1, <2>4, <3>1, IndexOfAddr DEF kfree, Release
      <3> QED  BY <3>1, <3>2
    <2>5. ASSUME NEW i \in Held, Store(i)  PROVE Kept
      BY <2>5 DEF Store
    <2>6. ASSUME NEW ptr \in Foreign \cup {NULL}, kfree_foreign(ptr)  PROVE Kept
      BY <1>1, <2>1, <2>6, ForeignIgnored DEF kfree_foreign, Release
    <2> QED  BY <1>1, <2>2, <2>3, <2>4, <2>5, <2>6 DEF Next
  <1> QED  BY <1>1, InvInductive, PTL DEF Spec, DataKept

-----------------------------------------------------------------------------
(* Distinct pages have distinct addresses.                                 *)
LEMMA AddrInjective ==
  ASSUME NEW i \in Pages, NEW j \in Pages,
         LargestBase + i * PageSize = LargestBase + j * PageSize
  PROVE  i = j
  BY PagesNat, RegionAssumption DEF PageSize

(* A page that palloc or kalloc takes was in the abstract pool.            *)
LEMMA TakePageGrants ==
  ASSUME Inv, NEW n \in Nat \ {0}, TakePage(n)
  PROVE  Abstract!Grant
  <1>1. PICK i \in Bits : /\ FirstClear(i)
                          /\ ret' = Addr(i)
                          /\ Receive(i, n)
    BY DEF TakePage
  <1>2. i \in Pages /\ i \notin bitmap
    BY <1>1, BitsArePages DEF Inv, FirstClear
  <1>3. Ready
    <2>1. CASE ~Ready
      <3>1. Bits = {}
        BY <2>1, RegionAssumption DEF Inv, FileOK, Ready, Bits
      <3> QED  BY <3>1, <1>1
    <2> QED  BY <2>1
  <1>4. pmm_file.base = LargestBase /\ pmm_file' = pmm_file /\ asked' = TRUE
    BY <1>3 DEF Inv, FileOK, Ready, TakePage
  <1>5. \A j \in Pages : span'[j] = IF j = i THEN n ELSE span[j]
    BY <1>1 DEF Receive, Inv, TypeOK
  <1>6. Held' = Held \cup {i} /\ i \notin Held
    BY <1>2, <1>5 DEF Held, Inv, Accounting
  <1> DEFINE page(j) == LargestBase + j * PageSize
  <1>7. page(i) \notin {page(j) : j \in Held}
    <2> SUFFICES ASSUME NEW j \in Held, page(i) = page(j)  PROVE FALSE
      OBVIOUS
    <2>1. j \in Pages
      BY DEF Held
    <2> QED  BY <1>2, <1>6, <2>1, AddrInjective
  <1>8. {page(j) : j \in Held'} = {page(j) : j \in Held} \cup {page(i)}
    BY <1>6
  <1>9. ret' = page(i)
    BY <1>1, <1>4 DEF Addr
  <1> HIDE DEF page
  <1>10. page(i) \in {page(j) : j \in Pages} \ {page(j) : j \in Held}
    BY <1>2, <1>7
  <1> QED  BY <1>3, <1>4, <1>8, <1>9, <1>10 DEF Abstract!Grant, Ready, page

(* A search that finds no clear bit finds no page in the abstract pool.    *)
LEMMA NoPageLeftFails ==
  ASSUME NoSpareBits, Inv, NoPageLeft
  PROVE  Abstract!Fail
  <1>1. Ready => Held = Pages
    <2>1. Ready => Pages \subseteq bitmap
      BY BitsArePages DEF Inv, NoPageLeft
    <2> QED  BY <2>1 DEF NoSpareBits, Inv, Accounting, Held
  <1>2. span' = span /\ pmm_file' = pmm_file /\ asked' = TRUE /\ ret' = NULL
    BY DEF NoPageLeft
  <1>3. Held' = Held /\ Ready' = Ready
    BY <1>2 DEF Held, Ready
  <1> QED  BY <1>1, <1>2, <1>3 DEF Abstract!Fail

(* A page its holder gives up returns to the abstract pool.                *)
LEMMA KfreeFrees ==
  ASSUME Inv, NEW i \in Held, kfree(i)
  PROVE  Abstract!Free
  <1> DEFINE page(j) == LargestBase + j * PageSize
  <1>1. i \in Pages
    BY DEF Held
  <1>2. /\ pmm_file' = pmm_file /\ asked' = asked /\ ret' = ret
        /\ \A j \in Pages : span'[j] = IF j = i THEN 0 ELSE span[j]
    BY DEF kfree, GiveUp, Inv, TypeOK
  <1>3. Held' = Held \ {i} /\ Ready' = Ready
    BY <1>2 DEF Held, Ready
  <1>4. \A j \in Held : page(j) = page(i) => j = i
    BY <1>1, AddrInjective DEF Held
  <1> HIDE DEF page
  <1>5. {page(j) : j \in Held'} = {page(j) : j \in Held} \ {page(i)}
    BY <1>3, <1>4
  <1>6. page(i) \in {page(j) : j \in Held}
    OBVIOUS
  <1> QED  BY <1>2, <1>3, <1>5, <1>6 DEF Abstract!Free, page

(* The bitmap allocator implements PageAllocator: every call of pmm.c is a *)
(* grant, a failure, a refusal or a free of it, or changes nothing a       *)
(* caller sees.                                                            *)
THEOREM ImplementsPageAllocator ==
  ASSUME NoSpareBits
  PROVE  Spec => Refinement
  <1>1. Init => Abstract!AInit
    <2> SUFFICES ASSUME Init  PROVE Abstract!AInit
      OBVIOUS
    <2>1. Held = {}
      BY DEF Init, Held
    <2> QED  BY <2>1 DEF Init, Abstract!AInit, Ready
  <1>2. ASSUME Inv, [Next]_vars  PROVE [Abstract!ANext]_(Abstract!avars)
    <2>1. ASSUME UNCHANGED <<pmm_file, span, asked, ret>>
          PROVE  UNCHANGED Abstract!avars
      BY <2>1 DEF Abstract!avars, Held, Ready
    <2>2. CASE pmm_init
      <3>1. Ready' /\ ~Ready /\ Held' = Held
        BY <2>2, RegionAssumption DEF pmm_init, Ready, Held
      <3> QED  BY <2>2, <3>1 DEF pmm_init, Abstract!ANext, Abstract!Setup
    <2>3. CASE palloc
      BY <1>2, <2>3, TakePageGrants, NoPageLeftFails DEF palloc, Abstract!ANext
    <2>4. ASSUME NEW size \in Sizes, kalloc(size)  PROVE Abstract!ANext
      <3>1. CASE size = 0
        <4>1. /\ ret' = NULL /\ asked' = FALSE
              /\ UNCHANGED <<pmm_file, span>>
          BY <2>4, <3>1 DEF kalloc
        <4>2. Held' = Held /\ Ready' = Ready
          BY <4>1 DEF Held, Ready
        <4> QED  BY <4>1, <4>2 DEF Abstract!ANext, Abstract!Refuse
      <3>2. CASE size # 0
        BY <1>2, <2>4, <3>2, PagesNeededPositive, TakePageGrants, NoPageLeftFails
        DEF kalloc, Abstract!ANext
      <3> QED  BY <3>1, <3>2
    <2>5. ASSUME NEW i \in Held, kfree(i)  PROVE Abstract!ANext
      BY <1>2, <2>5, KfreeFrees DEF Abstract!ANext
    <2>6. ASSUME NEW i \in Held, Store(i)  PROVE UNCHANGED Abstract!avars
      BY <2>1, <2>6 DEF Store
    <2>7. ASSUME NEW ptr \in Foreign \cup {NULL}, kfree_foreign(ptr)
          PROVE  UNCHANGED Abstract!avars
      BY <2>1, <2>7 DEF kfree_foreign
    <2>8. CASE UNCHANGED vars
      BY <2>1, <2>8 DEF vars
    <2> QED  BY <1>2, <2>2, <2>3, <2>4, <2>5, <2>6, <2>7, <2>8 DEF Next
  <1> QED  BY <1>1, <1>2, InvInductive, PTL DEF Spec, Refinement, Abstract!ASpec
=============================================================================
