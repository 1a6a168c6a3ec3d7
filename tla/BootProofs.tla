----------------------------- MODULE BootProofs -----------------------------
(***************************************************************************)
(* What TLAPS proves of MemMap, for every memory map: the loop of kmain    *)
(* finds the longest usable region, and what it keeps as the second; and   *)
(* of Boot, for every memory map and page size: where the bitmap and the   *)
(* pages lie.  There the argument is that nothing is freed during the boot,*)
(* so the n-th call takes the n-th page of the region.                     *)
(***************************************************************************)
EXTENDS Boot, TLAPS

-----------------------------------------------------------------------------
(* MemMap.                                                                 *)

(* The map never changes, the counter stays within one of its end, and     *)
(* until the call the base pointers follow the two indices.                *)
Follows(base, e) == base = IF e = -1 THEN NULL ELSE entries[e].base

BasesFollow ==
    IF call = NotCalled
    THEN /\ Follows(BaseLargestEntry, LargestEntry)
         /\ Follows(BaseSecondLargestEntry, SecondLargestEntry)
    ELSE i \notin Index

Inv ==
    /\ entries \in MemoryMaps
    /\ TypeOK
    /\ \A j \in Index : j < i \/ i \in Index
    /\ BasesFollow
    /\ LargestIsLargest
    /\ SecondIsLargestBefore
    /\ ArgsDescribeEntries

(* A memory map is an array of entries numbered from 0.                    *)
LEMMA MapIsArray ==
  ASSUME entries \in MemoryMaps
  PROVE  /\ entries \in [Index -> [base : Nat, length : Nat, usable : BOOLEAN]]
         /\ 0 \in Index /\ Index \subseteq Nat
         /\ \A j \in Index : 0 .. j \subseteq Index
  BY MemoryMapsAssumption DEF Index

(* One entry of the loop keeps what the loop has found.                    *)
LEMMA ScanInv ==
  ASSUME Inv, Scan
  PROVE  Inv'
  <1>1. /\ i \in Index /\ i' = i + 1 /\ i \in Nat
        /\ entries' = entries /\ call' = call /\ Index' = Index
    BY MapIsArray DEF Scan, Inv, Index
  <1>2. call = NotCalled
    BY <1>1 DEF Inv, BasesFollow
  <1>3. \A j \in Index : j \in Nat /\ entries[j].length \in Nat
                         /\ entries[j].base \in Nat
    BY MapIsArray DEF Inv
  <1>4. \A j \in Index : j < i' \/ i' \in Index
    <2> SUFFICES ASSUME NEW j \in Index, j >= i'  PROVE i' \in Index
      BY <1>1, <1>3
    <2>1. i + 1 \in 0 .. j
      BY <1>1, <1>3
    <2> QED  BY <1>1, <2>1, MapIsArray DEF Inv
  <1>5. CASE Selected(i)
    <2>1. Promote(i)
      BY <1>5 DEF Scan
    <2>2. TypeOK'
      BY <1>1, <1>3, <2>1 DEF Inv, TypeOK, Promote
    <2>3. LargestEntry # -1 => entries[i].length > entries[LargestEntry].length
      BY <1>5 DEF Selected, Larger
    <2>4. LargestIsLargest'
      <3>1. entries[i].usable /\ LargestEntry' = i /\ i # -1
        BY <1>1, <1>5, <2>1 DEF Selected, Promote
      <3>2. ASSUME NEW j \in Index, j < i, entries[j].usable
            PROVE  entries[j].length < entries[i].length
        BY <1>1, <1>3, <2>3, <3>2 DEF Inv, LargestIsLargest, IsLargestOf, TypeOK
      <3> QED  BY <1>1, <1>3, <3>1, <3>2 DEF LargestIsLargest, IsLargestOf
    <2>5. SecondIsLargestBefore'
      <3>1. LargestEntry' = i /\ SecondLargestEntry' = LargestEntry /\ i # -1
        BY <1>1, <2>1 DEF Promote
      <3> QED  BY <1>1, <3>1
               DEF Inv, LargestIsLargest, SecondIsLargestBefore, IsLargestOf
    <2>6. BasesFollow'
      BY <1>1, <1>2, <2>1 DEF Inv, BasesFollow, Follows, Promote
    <2>7. ArgsDescribeEntries'
      BY <1>1, <1>2 DEF ArgsDescribeEntries, NotCalled
    <2> QED  BY <1>1, <1>4, <2>2, <2>4, <2>5, <2>6, <2>7 DEF Inv
  <1>6. CASE ~Selected(i)
    <2>1. UNCHANGED <<LargestEntry, SecondLargestEntry, BaseLargestEntry,
                      BaseSecondLargestEntry>>
      BY <1>6 DEF Scan
    <2>2. TypeOK'
      BY <1>1, <2>1 DEF Inv, TypeOK
    <2>3. entries[i].usable =>
            /\ LargestEntry # -1
            /\ entries[i].length <= entries[LargestEntry].length
      BY <1>1, <1>3, <1>6 DEF Selected, Larger, Inv, TypeOK
    <2>4. LargestIsLargest'
      <3>1. \A j \in Index : j < i + 1 => j < i \/ j = i
        BY <1>1, <1>3
      <3>2. CASE LargestEntry = -1
        BY <1>1, <2>1, <2>3, <3>1, <3>2
        DEF Inv, LargestIsLargest, IsLargestOf
      <3>3. CASE LargestEntry # -1
        <4>0. /\ LargestEntry \in Index /\ LargestEntry < i
              /\ entries[LargestEntry].usable
          BY <3>3 DEF Inv, LargestIsLargest, IsLargestOf
        <4>1. /\ LargestEntry \in Index /\ LargestEntry \in Nat
              /\ LargestEntry < i /\ LargestEntry < i + 1
              /\ entries[LargestEntry].usable
          BY <1>1, <1>3, <4>0
        <4>2. \A j \in Index : j < i /\ entries[j].usable =>
                /\ entries[j].length <= entries[LargestEntry].length
                /\ j < LargestEntry =>
                      entries[j].length < entries[LargestEntry].length
          BY <3>3 DEF Inv, LargestIsLargest, IsLargestOf
        <4>3. ~(i < LargestEntry)
          BY <1>1, <4>1
        <4> QED  BY <1>1, <2>1, <2>3, <3>1, <3>3, <4>1, <4>2, <4>3
                 DEF LargestIsLargest, IsLargestOf
      <3> QED  BY <3>2, <3>3
    <2>5. SecondIsLargestBefore'
      BY <1>1, <2>1 DEF Inv, SecondIsLargestBefore, IsLargestOf
    <2>6. BasesFollow' /\ ArgsDescribeEntries'
      BY <1>1, <1>2, <2>1 DEF Inv, BasesFollow, Follows, ArgsDescribeEntries, NotCalled
    <2> QED  BY <1>1, <1>4, <2>2, <2>4, <2>5, <2>6 DEF Inv
  <1> QED  BY <1>5, <1>6

(* The call hands over what the loop found.                                *)
LEMMA CallInv ==
  ASSUME Inv, CallPmmInit
  PROVE  Inv'
  <1>1. /\ i \notin Index /\ call = NotCalled
        /\ UNCHANGED <<entries, i, LargestEntry, SecondLargestEntry>>
        /\ Index' = Index
    BY DEF CallPmmInit, Index
  <1>2. BaseLargestEntry \in Nat /\ BaseSecondLargestEntry \in Nat
    BY DEF Inv, TypeOK
  <1>3. /\ BaseLargestEntry' = BaseLargestEntry + HhdmOffset
        /\ BaseSecondLargestEntry' = BaseSecondLargestEntry + HhdmOffset
    BY DEF CallPmmInit, Rebase
  <1>4. PICK l \in LengthOf(LargestEntry), s \in LengthOf(SecondLargestEntry) :
          call' = [largest_base |-> BaseLargestEntry',
                   largest_length |-> l,
                   second_largest_base |-> BaseSecondLargestEntry',
                   second_largest_length |-> s]
    BY DEF CallPmmInit
  <1>5. l \in Nat /\ s \in Nat
    BY StrayAssumption, MapIsArray DEF LengthOf, Inv
  <1>6. TypeOK'
    BY <1>1, <1>2, <1>3, <1>4, <1>5, HhdmAssumption DEF Inv, TypeOK, Args
  <1>7. call' # NotCalled
    BY <1>2, <1>3, <1>4, HhdmAssumption DEF NotCalled
  <1>8. ArgsDescribeEntries'
    <2>1. Describes(LargestEntry, BaseLargestEntry', l)
      <3> SUFFICES ASSUME LargestEntry \in Index
                   PROVE  /\ entries[LargestEntry].usable
                          /\ BaseLargestEntry' = entries[LargestEntry].base + HhdmOffset
                          /\ l = entries[LargestEntry].length
        BY DEF Describes
      <3>1. LargestEntry # -1
        BY MapIsArray DEF Inv
      <3> QED  BY <1>1, <1>3, <1>4, <3>1
               DEF LengthOf, Inv, BasesFollow, Follows, LargestIsLargest, IsLargestOf
    <2>2. Describes(SecondLargestEntry, BaseSecondLargestEntry', s)
      <3> SUFFICES ASSUME SecondLargestEntry \in Index
                   PROVE  /\ entries[SecondLargestEntry].usable
                          /\ BaseSecondLargestEntry'
                                = entries[SecondLargestEntry].base + HhdmOffset
                          /\ s = entries[SecondLargestEntry].length
        BY DEF Describes
      <3>1. SecondLargestEntry # -1
        BY MapIsArray DEF Inv
      <3> QED  BY <1>1, <1>3, <1>4, <3>1
               DEF LengthOf, Inv, BasesFollow, Follows, SecondIsLargestBefore, IsLargestOf
    <2> QED  BY <1>1, <1>4, <2>1, <2>2 DEF ArgsDescribeEntries, Describes
  <1>9. BasesFollow'
    BY <1>1, <1>7 DEF BasesFollow, NotCalled
  <1>10. LargestIsLargest' /\ SecondIsLargestBefore'
    BY <1>1 DEF Inv, LargestIsLargest, SecondIsLargestBefore, IsLargestOf
  <1> QED  BY <1>1, <1>6, <1>8, <1>9, <1>10 DEF Inv

LEMMA InvInductive ==
  /\ Init => Inv
  /\ Inv /\ [Next]_vars => Inv'
  <1>1. Init => Inv
    <2> SUFFICES ASSUME Init  PROVE Inv
      OBVIOUS
    <2>1. /\ entries \in [Index -> [base : Nat, length : Nat, usable : BOOLEAN]]
          /\ 0 \in Index /\ Index \subseteq Nat
      BY MapIsArray DEF Init
    <2>2. TypeOK
      BY <2>1 DEF Init, TypeOK, NULL, Args, NotCalled
    <2>3. BasesFollow /\ ArgsDescribeEntries
      BY DEF Init, BasesFollow, Follows, ArgsDescribeEntries
    <2>4. LargestIsLargest /\ SecondIsLargestBefore
      BY <2>1 DEF Init, LargestIsLargest, SecondIsLargestBefore, IsLargestOf
    <2> QED  BY <2>1, <2>2, <2>3, <2>4 DEF Init, Inv
  <1>2. ASSUME Inv, UNCHANGED vars  PROVE Inv'
    BY <1>2 DEF vars, Inv, TypeOK, Index, BasesFollow, Follows, LargestIsLargest,
                SecondIsLargestBefore, IsLargestOf, ArgsDescribeEntries, Describes
  <1> QED  BY <1>1, <1>2, ScanInv, CallInv DEF Next

(* The loop's variables keep their types.                                  *)
THEOREM TypeCorrect == Spec => []TypeOK
  <1>1. Inv => TypeOK  BY DEF Inv
  <1> QED  BY <1>1, InvInductive, PTL DEF Spec

(* kmain finds the longest usable region of every memory map.              *)
THEOREM FindsLargest == Spec => []LargestIsLargest
  <1>1. Inv => LargestIsLargest  BY DEF Inv
  <1> QED  BY <1>1, InvInductive, PTL DEF Spec

(* The bitmap's region is the longest usable one in front of that.         *)
THEOREM FindsSecondBefore == Spec => []SecondIsLargestBefore
  <1>1. Inv => SecondIsLargestBefore  BY DEF Inv
  <1> QED  BY <1>1, InvInductive, PTL DEF Spec

(* pmm_init is given base and length of the same usable entry.             *)
THEOREM HandsOverEntries == Spec => []ArgsDescribeEntries
  <1>1. Inv => ArgsDescribeEntries  BY DEF Inv
  <1> QED  BY <1>1, InvInductive, PTL DEF Spec

-----------------------------------------------------------------------------
(* Boot.                                                                   *)


(* What the n-th call of palloc or kalloc returns.                         *)
Nth(n) == IF n - 1 \in Bits THEN pmm_file.base + (n - 1) * PAGE ELSE NULL

(* pmm_init has stored what it was called with, and cleared both ranges.   *)
FileStored ==
    /\ call # NotCalled /\ call.largest_base >= HhdmOffset
    /\ pmm_file = [base |-> call.largest_base, length |-> call.largest_length,
                   bitmap_base |-> call.second_largest_base,
                   bitmap_length |-> BitmapSize(call.largest_length)]
    /\ cleared = Bytes(call.second_largest_base, BitmapSize(call.largest_length))
                   \cup Bytes(call.second_largest_base, call.second_largest_length)

Phase ==
    \/ at \in {"check", "scan", "hcf"} /\ call = NotCalled /\ held = <<>>
    \/ at \in {"run", "fault", "corrupt"} /\ FileStored

TakenInOrder ==
    /\ held \in Seq(Nat)
    /\ at \in {"run", "fault", "corrupt"} => bitmap = Bits \cap 0 .. Len(held) - 1
    /\ \A n \in 1 .. Len(held) : held[n] = Nth(n)

TableInUse == Len(held) > 0 /\ held[1] # NULL => cr3 = VA2PA(held[1])

BootInv ==
    /\ Inv
    /\ Phase
    /\ TakenInOrder
    /\ TableInUse
    /\ Fits => at # "corrupt"

-----------------------------------------------------------------------------
(* Arithmetic of pages.                                                    *)
LEMMA PagesInARow ==
  ASSUME NEW p \in Nat \ {0}, NEW b \in Nat, NEW c \in Nat, b < c
  PROVE  b * p \in Nat /\ c * p \in Nat /\ b * p + p <= c * p
  <1>1. PICK d \in Nat : c = b + 1 + d
    <2>1. c - b - 1 \in Nat /\ c = b + 1 + (c - b - 1)
      OBVIOUS
    <2> QED  BY <2>1
  <1>2. c * p = b * p + p + d * p
    BY <1>1
  <1>3. b * p \in Nat /\ d * p \in Nat
    OBVIOUS
  <1> QED  BY <1>2, <1>3

LEMMA Division ==
  ASSUME NEW p \in Nat \ {0}, NEW a \in Nat
  PROVE  /\ a \div p \in Nat
         /\ (a \div p) * p <= a
         /\ a < (a \div p) * p + p
  OBVIOUS

(* A region of a pages needs no more bytes of bits than it has pages by 8. *)
LEMMA BitmapFits ==
  ASSUME NEW a \in Nat, NEW s \in Nat, a <= 8 * PAGE * s
  PROVE  BitmapSize(a) \in Nat /\ BitmapSize(a) <= s
  <1>1. PAGE \in Nat \ {0}
    BY BootAssumption
  <1> DEFINE q == a \div PAGE
  <1>2. q \in Nat /\ q * PAGE <= a
    BY <1>1, Division
  <1>3. q <= 8 * s
    <2> SUFFICES ASSUME 8 * s < q  PROVE FALSE
      BY <1>2
    <2>1. (8 * s) * PAGE + PAGE <= q * PAGE
      BY <1>1, <1>2, PagesInARow, 8 * s \in Nat
    <2>2. (8 * s) * PAGE = 8 * PAGE * s
      BY <1>1
    <2>3. (8 * s) * PAGE \in Nat
      BY <1>1
    <2> QED  BY <1>1, <1>2, <2>1, <2>2, <2>3
  <1> HIDE DEF q
  <1>4. (q + 7) \div 8 \in Nat /\ (q + 7) \div 8 <= s
    BY <1>2, <1>3
  <1> QED  BY <1>4 DEF BitmapSize, q

LEMMA BitsCoverPages ==
  ASSUME NEW a \in Nat
  PROVE  /\ BitmapSize(a) \in Nat
         /\ a \div PAGE <= BitmapSize(a) * 8
  <1> DEFINE q == a \div PAGE
  <1>1. q \in Nat
    BY BootAssumption, Division
  <1> HIDE DEF q
  <1>2. (q + 7) \div 8 \in Nat /\ q <= ((q + 7) \div 8) * 8
    BY <1>1
  <1> QED  BY <1>2 DEF BitmapSize, q

-----------------------------------------------------------------------------
(* What the fields are once pmm_init has run.                              *)
LEMMA FileTypes ==
  ASSUME Inv, FileStored
  PROVE  /\ pmm_file.base \in Nat /\ pmm_file.base > 0
         /\ pmm_file.bitmap_base \in Nat
         /\ pmm_file.bitmap_length \in Nat
         /\ Bits = 0 .. pmm_file.bitmap_length * 8 - 1
         /\ \A n \in Nat \ {0} : Nth(n) \in Nat
         /\ \A n \in Nat \ {0} : Nth(n) # NULL <=> n - 1 \in Bits
  <1>1. /\ call.largest_base \in Nat /\ call.largest_length \in Nat
        /\ call.second_largest_base \in Nat
    BY DEF Inv, TypeOK, Args
  <1>2. /\ pmm_file.base = call.largest_base
        /\ pmm_file.bitmap_base = call.second_largest_base
        /\ pmm_file.bitmap_length = BitmapSize(call.largest_length)
    BY DEF FileStored
  <1>3. BitmapSize(call.largest_length) \in Nat
    BY <1>1, BitsCoverPages
  <1>4. call.largest_base > 0
    BY <1>1, HhdmAssumption DEF FileStored
  <1>5. ASSUME NEW n \in Nat \ {0}
        PROVE  Nth(n) \in Nat /\ (Nth(n) # NULL <=> n - 1 \in Bits)
    <2>1. n - 1 \in Nat /\ PAGE \in Nat
      BY BootAssumption
    <2>2. (n - 1) * PAGE \in Nat
      BY <2>1
    <2> QED  BY <1>1, <1>2, <1>4, <2>2 DEF Nth, NULL
  <1> QED  BY <1>1, <1>2, <1>3, <1>4, <1>5 DEF Bits

(* The n-th call takes the n-th page, or there is none.                    *)
LEMMA AllocInOrder ==
  ASSUME Inv, FileStored, TakenInOrder, at = "run", NEW ptr, Alloc(ptr)
  PROVE  /\ ptr = Nth(Len(held) + 1) /\ ptr \in Nat
         /\ bitmap' = Bits \cap 0 .. Len(held)
  <1> DEFINE n == Len(held)
  <1>1. n \in Nat /\ bitmap = Bits \cap 0 .. n - 1
    BY DEF TakenInOrder
  <1>2. /\ pmm_file.bitmap_length \in Nat
        /\ Bits = 0 .. pmm_file.bitmap_length * 8 - 1
        /\ Nth(n + 1) \in Nat
    <2>1. n + 1 \in Nat \ {0}
      BY <1>1
    <2> HIDE DEF n
    <2> QED  BY <2>1, FileTypes
  <1>3. Nth(n + 1) = IF n \in Bits THEN pmm_file.base + n * PAGE ELSE NULL
    <2>1. n + 1 - 1 = n
      BY <1>1
    <2> QED  BY <2>1 DEF Nth
  <1> HIDE DEF n
  <1>4. CASE Bits \subseteq bitmap /\ ptr = NULL /\ UNCHANGED bitmap
    <2>1. n \notin Bits
      BY <1>1, <1>4
    <2>2. Bits \cap 0 .. n - 1 = Bits \cap 0 .. n
      BY <1>1, <2>1
    <2> QED  BY <1>1, <1>2, <1>3, <1>4, <2>1, <2>2 DEF n
  <1>5. ASSUME NEW b \in Bits \ bitmap,
               /\ \A c \in Bits \ bitmap : b <= c
               /\ ptr = pmm_file.base + b * PAGE
               /\ bitmap' = bitmap \cup {b}
        PROVE  /\ ptr = Nth(n + 1) /\ ptr \in Nat
               /\ bitmap' = Bits \cap 0 .. n
    <2>1. b \in Nat /\ b >= n /\ b \in Bits
      BY <1>1, <1>2, <1>5
    <2>2. n \in Bits \ bitmap
      BY <1>1, <1>2, <2>1
    <2>3. b = n
      BY <1>1, <1>5, <2>1, <2>2
    <2>4. (Bits \cap 0 .. n - 1) \cup {n} = Bits \cap 0 .. n
      BY <1>1, <2>2
    <2> QED  BY <1>1, <1>2, <1>3, <1>5, <2>2, <2>3, <2>4
  <1> QED  BY <1>4, <1>5 DEF Alloc, n

(* If the bitmap fits it lies in the second region, in front of all pages. *)
LEMMA BitmapInSecond ==
  ASSUME Inv, FileStored, Fits
  PROVE  /\ SecondLargestEntry \in Index /\ LargestEntry \in Index
         /\ entries[SecondLargestEntry].base \in Nat
         /\ entries[SecondLargestEntry].length \in Nat
         /\ pmm_file.bitmap_base = entries[SecondLargestEntry].base + HhdmOffset
         /\ pmm_file.base = entries[LargestEntry].base + HhdmOffset
         /\ call.second_largest_length = entries[SecondLargestEntry].length
         /\ pmm_file.bitmap_length \in Nat
         /\ pmm_file.bitmap_length <= entries[SecondLargestEntry].length
         /\ entries[SecondLargestEntry].base + entries[SecondLargestEntry].length
               <= entries[LargestEntry].base
  <1>1. /\ entries \in [Index -> [base : Nat, length : Nat, usable : BOOLEAN]]
        /\ Index \subseteq Nat
    BY MapIsArray DEF Inv
  <1>2. SecondLargestEntry \in Index /\ SecondLargestEntry # -1 /\ LargestEntry # -1
    BY DEF Inv, TypeOK, Fits, SecondIsLargestBefore
  <1>3. LargestEntry \in Index
    BY <1>2 DEF Inv, TypeOK
  <1>4. /\ SecondLargestEntry < LargestEntry /\ entries[SecondLargestEntry].usable
        /\ entries[LargestEntry].usable
    BY <1>2 DEF Inv, SecondIsLargestBefore, LargestIsLargest, IsLargestOf
  <1>5. entries[SecondLargestEntry].base + entries[SecondLargestEntry].length
           <= entries[LargestEntry].base
    BY <1>2, <1>3, <1>4, OrderAssumption DEF Inv, Index
  <1>6. /\ call.largest_base = entries[LargestEntry].base + HhdmOffset
        /\ call.largest_length = entries[LargestEntry].length
        /\ call.second_largest_base = entries[SecondLargestEntry].base + HhdmOffset
        /\ call.second_largest_length = entries[SecondLargestEntry].length
    BY <1>2, <1>3 DEF Inv, ArgsDescribeEntries, Describes, FileStored
  <1>7. /\ entries[SecondLargestEntry].base \in Nat
        /\ entries[SecondLargestEntry].length \in Nat
        /\ entries[LargestEntry].length \in Nat
    BY <1>1, <1>2, <1>3
  <1>8. /\ BitmapSize(entries[LargestEntry].length) \in Nat
        /\ BitmapSize(entries[LargestEntry].length) <= entries[SecondLargestEntry].length
    BY <1>7, BitmapFits DEF Fits
  <1> QED  BY <1>2, <1>3, <1>5, <1>6, <1>7, <1>8 DEF FileStored

LEMMA PagesMissBitmap ==
  ASSUME Inv, FileStored, Fits, NEW n \in Nat \ {0}, Nth(n) # NULL
  PROVE  Page(Nth(n)) \cap TheBitmap = {}
  <1>1. PAGE \in Nat \ {0} /\ HhdmOffset \in Nat /\ n - 1 \in Nat
    BY BootAssumption, HhdmAssumption
  <1>2. (n - 1) * PAGE \in Nat
    BY <1>1
  <1>3. Nth(n) = pmm_file.base + (n - 1) * PAGE
    BY DEF Nth
  <1> DEFINE s == entries[SecondLargestEntry].base
             l == entries[SecondLargestEntry].length
             b == entries[LargestEntry].base
  <1>4. b \in Nat
    BY BitmapInSecond, MapIsArray DEF Inv
  <1>5. /\ s \in Nat /\ l \in Nat /\ s + l <= b
        /\ pmm_file.bitmap_base = s + HhdmOffset /\ pmm_file.base = b + HhdmOffset
        /\ pmm_file.bitmap_length \in Nat /\ pmm_file.bitmap_length <= l
    BY BitmapInSecond
  <1> HIDE DEF s, l, b
  <1>6. \A a \in Page(Nth(n)) : a \in Int /\ a >= b
    BY <1>1, <1>2, <1>3, <1>4, <1>5 DEF Page, Bytes, Physical
  <1>7. \A a \in TheBitmap : a < b
    BY <1>1, <1>4, <1>5 DEF TheBitmap, Bytes, Physical
  <1> QED  BY <1>4, <1>6, <1>7

(* A write to pages that were taken does not reach a bitmap that fits.     *)
LEMMA WriteKeepsBitmap ==
  ASSUME Inv, FileStored, NEW ptrs, Write(ptrs, "run"),
         \A p \in ptrs : \E n \in Nat \ {0} : p = Nth(n)
  PROVE  /\ at' \in {"run", "fault", "corrupt"}
         /\ Fits => at' # "corrupt"
  <1>1. Fits /\ NULL \notin ptrs => ~\E p \in ptrs : Page(p) \cap TheBitmap # {}
    BY PagesMissBitmap
  <1> QED  BY <1>1 DEF Write

-----------------------------------------------------------------------------
(* A call that takes a page keeps the order of the pages.                  *)
LEMMA TakeInOrder ==
  ASSUME Inv, FileStored, TakenInOrder, at = "run", NEW ptr, Alloc(ptr),
         held' = Append(held, ptr), UNCHANGED <<vars, pmm_file, cleared>>
  PROVE  /\ Inv' /\ FileStored' /\ TakenInOrder'
         /\ ptr = Nth(Len(held) + 1)
         /\ Len(held') = Len(held) + 1
         /\ \A m \in 1 .. Len(held) : held'[m] = held[m]
         /\ Fits' = Fits /\ Bits' = Bits
  <1>1. Inv'
    BY InvInductive
  <1>2. FileStored'
    BY DEF vars, FileStored, Bytes, Physical, BitmapSize
  <1>3. Bits' = Bits /\ Fits' = Fits /\ \A m \in Nat : Nth(m)' = Nth(m)
    BY DEF vars, Bits, Fits, Nth
  <1>4. /\ ptr = Nth(Len(held) + 1) /\ ptr \in Nat
        /\ bitmap' = Bits \cap 0 .. Len(held)
    BY AllocInOrder
  <1>5. /\ held' \in Seq(Nat) /\ Len(held) \in Nat
        /\ Len(held') = Len(held) + 1
        /\ \A m \in 1 .. Len(held) : held'[m] = held[m]
        /\ held'[Len(held) + 1] = ptr
    BY <1>4 DEF TakenInOrder
  <1>6. TakenInOrder'
    <2>1. bitmap' = Bits' \cap 0 .. Len(held') - 1
      BY <1>3, <1>4, <1>5
    <2>2. ASSUME NEW m \in 1 .. Len(held')  PROVE held'[m] = Nth(m)'
      <3>1. m \in Nat /\ (m \in 1 .. Len(held) \/ m = Len(held) + 1)
        BY <1>5
      <3> QED  BY <1>3, <1>4, <1>5, <3>1 DEF TakenInOrder
    <2> QED  BY <1>5, <2>1, <2>2 DEF TakenInOrder
  <1> QED  BY <1>1, <1>2, <1>3, <1>4, <1>5, <1>6

LEMMA CheckInv ==
  ASSUME BootInv, Check
  PROVE  BootInv'
  <1>1. Inv'
    BY InvInductive DEF BootInv, Check
  <1>2. at \in {"check"} /\ at' \in {"scan", "hcf"} /\ UNCHANGED <<vars, memory, held, cr3>>
    BY DEF Check
  <1>3. call' = NotCalled' /\ held' = <<>>
    BY <1>2 DEF BootInv, Phase, FileStored, vars, NotCalled
  <1> QED  BY <1>1, <1>2, <1>3 DEF BootInv, Phase, TakenInOrder, TableInUse

LEMMA EnumerateInv ==
  ASSUME BootInv, Enumerate
  PROVE  BootInv'
  <1>1. Inv'
    BY InvInductive DEF BootInv, Enumerate, Next
  <1>2. /\ at = "scan" /\ at' = "scan" /\ call' = call /\ held' = held
    BY DEF Enumerate, Scan
  <1>3. call' = NotCalled' /\ held' = <<>>
    BY <1>2 DEF BootInv, Phase, NotCalled
  <1> QED  BY <1>1, <1>2, <1>3 DEF BootInv, Phase, TakenInOrder, TableInUse

LEMMA PmmInitInv ==
  ASSUME BootInv, pmm_init
  PROVE  BootInv'
  <1>1. Inv'
    BY InvInductive DEF BootInv, pmm_init, Next
  <1>2. /\ at = "scan" /\ at' = "run" /\ held' = <<>> /\ bitmap' = {}
        /\ CallPmmInit
    BY DEF pmm_init, BootInv, Phase
  <1>3. /\ BaseLargestEntry \in Nat /\ BaseSecondLargestEntry \in Nat
        /\ call'.largest_base = BaseLargestEntry + HhdmOffset
    BY <1>2 DEF BootInv, Inv, TypeOK, CallPmmInit, Rebase
  <1>4. call'.largest_base >= HhdmOffset /\ call'.largest_base > 0
    BY <1>3, HhdmAssumption
  <1>5. FileStored'
    <2>1. call' # NotCalled'
      BY <1>4 DEF NotCalled
    <2> QED  BY <1>4, <2>1 DEF pmm_init, FileStored, Bytes, Physical, BitmapSize
  <1>6. TakenInOrder' /\ TableInUse'
    BY <1>2 DEF TakenInOrder, TableInUse
  <1> QED  BY <1>1, <1>2, <1>5, <1>6 DEF BootInv, Phase

LEMMA VmmInitInv ==
  ASSUME BootInv, vmm_init
  PROVE  BootInv'
  <1>1. PICK ptr : /\ Alloc(ptr) /\ held' = <<ptr>> /\ Write({ptr}, "run")
                   /\ cr3' = IF ptr = NULL THEN cr3 ELSE VA2PA(ptr)
    BY DEF vmm_init
  <1>2. /\ at = "run" /\ UNCHANGED <<vars, pmm_file, cleared>>
        /\ Inv /\ FileStored /\ TakenInOrder
    BY DEF vmm_init, Due, BootInv, Phase
  <1>3. held = <<>>
    BY <1>2 DEF vmm_init, Due, Owners, TakenInOrder
  <1>4. held' = Append(held, ptr)
    BY <1>1, <1>3
  <1>5. /\ Inv' /\ FileStored' /\ TakenInOrder' /\ ptr = Nth(1) /\ Fits' = Fits
    BY <1>1, <1>2, <1>3, <1>4, TakeInOrder
  <1>6. at' \in {"run", "fault", "corrupt"} /\ (Fits => at' # "corrupt")
    BY <1>1, <1>2, <1>5, WriteKeepsBitmap
  <1>7. TableInUse'
    BY <1>1 DEF TableInUse, VA2PA
  <1> QED  BY <1>5, <1>6, <1>7 DEF BootInv, Phase

LEMMA TakeInv ==
  ASSUME BootInv, NEW owner \in {"stack0", "heap0", "stack1", "heap1"},
         TakeForProc(owner)
  PROVE  BootInv'
  <1>1. PICK ptr : Alloc(ptr) /\ held' = Append(held, ptr)
    BY DEF TakeForProc
  <1>2. /\ at = "run" /\ UNCHANGED <<vars, at, pmm_file, cleared, cr3>>
        /\ Inv /\ FileStored /\ TakenInOrder
    BY DEF TakeForProc, Due, BootInv, Phase
  <1>3. Len(held) > 0
    BY <1>2 DEF TakeForProc, Due, Owners, TakenInOrder
  <1>4. /\ Inv' /\ FileStored' /\ TakenInOrder' /\ Fits' = Fits
        /\ held'[1] = held[1]
    BY <1>1, <1>2, <1>3, TakeInOrder DEF TakenInOrder
  <1> QED  BY <1>2, <1>3, <1>4 DEF BootInv, Phase, TableInUse, VA2PA

LEMMA CreateProcInv ==
  ASSUME BootInv, NEW proc \in {"proc0", "proc1"}, create_proc(proc)
  PROVE  BootInv'
  <1>1. PICK ptr : /\ Alloc(ptr) /\ held' = Append(held, ptr)
                   /\ \/ ptr = NULL /\ at' = at
                      \/ Write({ptr, held[StackOf(proc)]}, "run")
    BY DEF create_proc
  <1>2. /\ at = "run" /\ UNCHANGED <<vars, pmm_file, cleared, cr3>>
        /\ Inv /\ FileStored /\ TakenInOrder
    BY DEF create_proc, Due, BootInv, Phase
  <1>3. Len(held) \in Nat /\ Len(held) >= 5
    BY <1>2 DEF create_proc, Due, Owners, TakenInOrder
  <1>4. StackOf(proc) \in 1 .. Len(held)
    BY <1>3 DEF StackOf
  <1>5. held[StackOf(proc)] = Nth(StackOf(proc))
    BY <1>2, <1>4 DEF TakenInOrder
  <1>6. /\ Inv' /\ FileStored' /\ TakenInOrder' /\ Fits' = Fits
        /\ ptr = Nth(Len(held) + 1) /\ held'[1] = held[1]
    BY <1>1, <1>2, <1>3, TakeInOrder
  <1>7. at' \in {"run", "fault", "corrupt"} /\ (Fits => at' # "corrupt")
    <2>1. CASE Write({ptr, held[StackOf(proc)]}, "run")
      <3>1. \A p \in {ptr, held[StackOf(proc)]} : \E n \in Nat \ {0} : p = Nth(n)
        BY <1>3, <1>4, <1>5, <1>6
      <3> QED  BY <1>2, <2>1, <3>1, WriteKeepsBitmap
    <2> QED  BY <1>1, <1>2, <2>1
  <1> QED  BY <1>2, <1>3, <1>6, <1>7 DEF BootInv, Phase, TableInUse, VA2PA

LEMMA BootInvInductive ==
  /\ BootInit => BootInv
  /\ BootInv /\ [BootNext]_bootVars => BootInv'
  <1>1. BootInit => BootInv
    <2> SUFFICES ASSUME BootInit  PROVE BootInv
      OBVIOUS
    <2>1. Inv
      BY InvInductive DEF BootInit
    <2> QED  BY <2>1 DEF BootInit, Init, BootInv, Phase, TakenInOrder, TableInUse
  <1>2. ASSUME BootInv, UNCHANGED bootVars  PROVE BootInv'
    <2>1. Inv'
      BY <1>2, InvInductive DEF BootInv, bootVars
    <2>2. UNCHANGED <<vars, at, pmm_file, bitmap, cleared, held, cr3>>
      BY <1>2 DEF bootVars, memory
    <2>3. UNCHANGED <<entries, call, LargestEntry, SecondLargestEntry>>
      BY <2>2 DEF vars
    <2>4. Phase' /\ TakenInOrder' /\ TableInUse' /\ Fits' = Fits
      BY <1>2, <2>2, <2>3
      DEF BootInv, Phase, FileStored, Bytes, Physical, BitmapSize, NotCalled,
          TakenInOrder, Nth, Bits, TableInUse, VA2PA, Fits
    <2> QED  BY <1>2, <2>1, <2>2, <2>4 DEF BootInv
  <1> QED  BY <1>1, <1>2, CheckInv, EnumerateInv, PmmInitInv, VmmInitInv, TakeInv,
              CreateProcInv
           DEF BootNext

-----------------------------------------------------------------------------
(* A bitmap that fits into the second region stays there: pmm_init clears  *)
(* that region and nothing else, and no page taken in the boot has a byte  *)
(* of the bitmap.                                                          *)
THEOREM BitmapStaysInPlace == BootSpec => []BitmapInPlace
  <1>1. BootInv => BitmapInPlace
    <2> SUFFICES ASSUME BootInv, call # NotCalled, Fits
                 PROVE  /\ cleared = Region(SecondLargestEntry)
                        /\ TheBitmap \subseteq cleared
      BY DEF BitmapInPlace, BootInv
    <2>1. Inv /\ FileStored
      BY DEF BootInv, Phase
    <2> DEFINE s == entries[SecondLargestEntry].base
               l == entries[SecondLargestEntry].length
               n == pmm_file.bitmap_length
    <2>2. /\ s \in Nat /\ l \in Nat /\ n \in Nat /\ n <= l
          /\ pmm_file.bitmap_base = s + HhdmOffset
          /\ call.second_largest_length = l /\ HhdmOffset \in Nat
      BY <2>1, BitmapInSecond, HhdmAssumption
    <2>3. cleared = Bytes(pmm_file.bitmap_base, n) \cup Bytes(pmm_file.bitmap_base, l)
      BY <2>1, <2>2 DEF FileStored
    <2>4. Region(SecondLargestEntry) = s .. s + l - 1
      BY DEF Region
    <2> HIDE DEF s, l, n
    <2>5. /\ Bytes(pmm_file.bitmap_base, n) = s .. s + n - 1
          /\ Bytes(pmm_file.bitmap_base, l) = s .. s + l - 1
      BY <2>2 DEF Bytes, Physical
    <2>6. s .. s + n - 1 \subseteq s .. s + l - 1
      BY <2>2
    <2> QED  BY <2>3, <2>4, <2>5, <2>6 DEF TheBitmap, n
  <1> QED  BY <1>1, BootInvInductive, PTL DEF BootSpec

(* The n-th page taken lies in the region if that has n pages.             *)
LEMMA PageInRegion ==
  ASSUME Inv, FileStored, LargestEntry # -1, NEW n \in Nat \ {0},
         n <= entries[LargestEntry].length \div PAGE
  PROVE  Nth(n) # NULL /\ Page(Nth(n)) \subseteq Region(LargestEntry)
  <1> DEFINE b == entries[LargestEntry].base
             l == entries[LargestEntry].length
  <1>1. LargestEntry \in Index
    BY DEF Inv, TypeOK
  <1>2. b \in Nat /\ l \in Nat /\ PAGE \in Nat \ {0} /\ HhdmOffset \in Nat
    BY <1>1, MapIsArray, BootAssumption, HhdmAssumption DEF Inv
  <1>3. pmm_file.base = b + HhdmOffset /\ pmm_file.bitmap_length = BitmapSize(l)
    BY <1>1 DEF Inv, ArgsDescribeEntries, Describes, FileStored
  <1>4. Region(LargestEntry) = b .. b + l - 1
    BY DEF Region
  <1> DEFINE q == l \div PAGE
  <1>5. q \in Nat /\ q * PAGE <= l /\ n <= q
    BY <1>2, Division
  <1>6. q <= BitmapSize(l) * 8 /\ BitmapSize(l) \in Nat
    BY <1>2, BitsCoverPages
  <1> HIDE DEF b, l, q
  <1>7. n - 1 \in Nat /\ n - 1 < q
    BY <1>5
  <1>8. /\ (n - 1) * PAGE \in Nat /\ q * PAGE \in Nat
        /\ (n - 1) * PAGE + PAGE <= q * PAGE
    BY <1>2, <1>5, <1>7, PagesInARow
  <1>9. n - 1 \in Bits
    <2> DEFINE k == pmm_file.bitmap_length
    <2>1. k \in Nat /\ q <= k * 8 /\ Bits = 0 .. k * 8 - 1
      BY <1>3, <1>6 DEF Bits
    <2> HIDE DEF k
    <2> QED  BY <1>5, <1>7, <2>1
  <1>10. Nth(n) = pmm_file.base + (n - 1) * PAGE
    BY <1>9 DEF Nth
  <1> DEFINE o == (n - 1) * PAGE
  <1>11. o \in Nat /\ o + PAGE <= l
    BY <1>2, <1>5, <1>8
  <1> HIDE DEF o
  <1>12. Page(Nth(n)) = b + o .. b + o + PAGE - 1
    BY <1>2, <1>3, <1>10, <1>11 DEF Page, Bytes, Physical, o
  <1>13. Page(Nth(n)) \subseteq b .. b + l - 1
    BY <1>2, <1>11, <1>12
  <1> QED  BY <1>4, <1>9, <1>13, FileTypes

LEMMA PagesDiffer ==
  ASSUME Inv, FileStored, NEW m \in Nat \ {0}, NEW n \in Nat \ {0}, m < n,
         Nth(m) # NULL, Nth(n) # NULL
  PROVE  Page(Nth(m)) \cap Page(Nth(n)) = {}
  <1>1. /\ PAGE \in Nat \ {0} /\ HhdmOffset \in Nat /\ pmm_file.base \in Nat
        /\ m - 1 \in Nat /\ n - 1 \in Nat /\ m - 1 < n - 1
    BY BootAssumption, HhdmAssumption, FileTypes
  <1> DEFINE u == (m - 1) * PAGE
             v == (n - 1) * PAGE
  <1>2. u \in Nat /\ v \in Nat /\ u + PAGE <= v
    BY <1>1, PagesInARow
  <1>3. Nth(m) = pmm_file.base + u /\ Nth(n) = pmm_file.base + v
    BY DEF Nth
  <1> HIDE DEF u, v
  <1> QED  BY <1>1, <1>2, <1>3 DEF Page, Bytes, Physical

(* The seven pages of the boot are apart, lie in the largest region as far *)
(* as that has pages, and the processor walks the first of them.           *)
THEOREM BootPagesApart == BootSpec => []PagesApart
  <1>1. BootInv => PagesApart
    <2> SUFFICES ASSUME BootInv  PROVE PagesApart
      OBVIOUS
    <2>1. CASE held = <<>>
      BY <2>1 DEF PagesApart, Taken
    <2>2. CASE held # <<>>
      <3>1. Inv /\ FileStored /\ TakenInOrder /\ TableInUse
        BY <2>2 DEF BootInv, Phase
      <3>2. DOMAIN held = 1 .. Len(held) /\ Len(held) \in Nat
            /\ \A n \in DOMAIN held : n \in Nat \ {0} /\ held[n] = Nth(n)
        BY <3>1 DEF TakenInOrder
      <3>3. ASSUME NEW m \in Taken, NEW n \in Taken, m # n
            PROVE  Page(held[m]) \cap Page(held[n]) = {}
        <4>1. /\ m \in Nat \ {0} /\ n \in Nat \ {0}
              /\ held[m] = Nth(m) /\ held[n] = Nth(n)
              /\ Nth(m) # NULL /\ Nth(n) # NULL
          BY <3>2 DEF Taken
        <4>2. m < n \/ n < m
          BY <3>3, <4>1
        <4> QED  BY <3>1, <4>1, <4>2, PagesDiffer
      <3>4. ASSUME LargestEntry # -1, NEW n \in DOMAIN held,
                   Len(held) <= entries[LargestEntry].length \div PAGE
            PROVE  held[n] # NULL /\ Page(held[n]) \subseteq Region(LargestEntry)
        <4>1. entries[LargestEntry].length \div PAGE \in Nat
          BY <3>1, <3>4, MapIsArray, BootAssumption, Division DEF Inv, TypeOK
        <4>2. n <= entries[LargestEntry].length \div PAGE
          BY <3>2, <3>4, <4>1
        <4> QED  BY <3>1, <3>2, <3>4, <4>2, PageInRegion
      <3>5. Direct = HhdmOffset /\ 1 \in Taken => cr3 = Physical(held[1])
        BY <3>1, <3>2 DEF TableInUse, Taken, VA2PA, Physical
      <3> QED  BY <3>3, <3>4, <3>5 DEF PagesApart
    <2> QED  BY <2>1, <2>2
  <1> QED  BY <1>1, BootInvInductive, PTL DEF BootSpec
=============================================================================
