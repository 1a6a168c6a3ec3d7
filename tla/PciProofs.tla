------------------------------ MODULE PciProofs ------------------------------
(***************************************************************************)
(* What TLAPS proves of Pci, for any number of buses, slots and functions  *)
(* and every machine: the loops of the searches and of the list, with the  *)
(* functions they skip, miss nothing that they should have found, and the  *)
(* sizing of a BAR finds base and size and leaves the BAR as it was.       *)
(***************************************************************************)
EXTENDS Pci, WellFoundedInduction, TLAPS

-----------------------------------------------------------------------------
(* Quotients, remainders, and the flags of a register.                     *)

LEMMA Quotient ==
  ASSUME NEW a \in Nat, NEW b \in Nat \ {0}
  PROVE  /\ a % b \in 0 .. b - 1 /\ a \div b \in Nat
         /\ a = b * (a \div b) + (a % b)
  OBVIOUS

LEMMA QuotientIs ==
  ASSUME NEW b \in Nat \ {0}, NEW q \in Nat, NEW r \in 0 .. b - 1
  PROVE  (b * q + r) % b = r /\ (b * q + r) \div b = q
  OBVIOUS

LEMMA MultipleIs ==
  ASSUME NEW b \in Nat \ {0}, NEW q \in Nat
  PROVE  (b * q) % b = 0
  <1>1. 0 \in 0 .. b - 1 /\ b * q = b * q + 0
    OBVIOUS
  <1> QED BY <1>1, QuotientIs

LEMMA MultipleOf ==
  ASSUME NEW a \in Nat, NEW b \in Nat \ {0}, a % b = 0
  PROVE  \E q \in Nat : a = b * q
  <1>1. a = b * (a \div b) /\ a \div b \in Nat
    BY Quotient
  <1> QED BY <1>1

(* What a write of all ones leaves of a register: the bits of the size.    *)
LEMMA OnesAligned ==
  ASSUME NEW s \in Nat \ {0}, Word % s = 0, s < Word
  PROVE  Aligned(Ones, s) = Word - s
  <1>1. PICK q \in Nat : Word = s * q
    BY MultipleOf, PciAssumption
  <1> DEFINE n == q - 1
             r == s - 1
  <1>2. n \in Nat /\ r \in 0 .. s - 1
    BY <1>1, PciAssumption
  <1>3. Ones = s * n + r
    BY <1>1, PciAssumption DEF Ones
  <1> HIDE DEF n, r
  <1>4. Ones % s = r
    BY <1>2, <1>3, QuotientIs
  <1> QED BY <1>4, PciAssumption DEF Aligned, Ones, r

LEMMA OnesGone ==
  ASSUME NEW s \in Nat, s >= Word
  PROVE  Aligned(Ones, s) = 0
  <1>1. Ones = s * 0 + Ones /\ Ones \in 0 .. s - 1
    BY PciAssumption DEF Ones
  <1>2. Ones % s = Ones
    <2> HIDE DEF Ones
    <2> QED BY <1>1
  <1> QED BY <1>2, PciAssumption DEF Aligned, Ones

(* A value and its flags.                                                  *)
LEMMA FlagsOf ==
  ASSUME NEW r \in Nat
  PROVE  /\ Flags(r) \in 0 .. 15 /\ Base(r) \in Nat /\ r = Base(r) + Flags(r)
         /\ Base(r) % 16 = 0
         /\ IsIO(r) = IsIO(Flags(r)) /\ IsWide(r) = IsWide(Flags(r))
         /\ Base(r) = r - Flags(r)
  <1>1. /\ r % 16 \in 0 .. 15 /\ r \div 16 \in Nat
        /\ r = 16 * (r \div 16) + (r % 16)
    OBVIOUS
  <1> DEFINE q == r \div 16
             f == r % 16
  <1>2. r - f = 16 * q /\ (16 * q) % 16 = 0
    BY <1>1
  <1>3. r % 2 = f % 2 /\ r % 8 = f % 8
    BY <1>1
  <1> QED BY <1>1, <1>2, <1>3 DEF Flags, Base, IsIO, IsWide

LEMMA FlagsKept ==
  ASSUME NEW a \in Nat, a % 16 = 0, NEW f \in 0 .. 15
  PROVE  /\ Flags(a + f) = f /\ Base(a + f) = a
         /\ IsIO(a + f) = IsIO(f) /\ IsWide(a + f) = IsWide(f)
  <1>1. PICK q \in Nat : a = 16 * q
    BY MultipleOf
  <1>2. (a + f) % 16 = f
    BY <1>1
  <1>3. (a + f) % 2 = f % 2 /\ (a + f) % 8 = f % 8
    BY <1>1
  <1> QED BY <1>2, <1>3 DEF Flags, Base, IsIO, IsWide

LEMMA Sixteenths ==
  ASSUME NEW a \in Nat, NEW s \in Nat \ {0}, s % 16 = 0, a % s = 0
  PROVE  a % 16 = 0
  <1>1. PICK q \in Nat : a = s * q
    BY MultipleOf
  <1>2. PICK p \in Nat : s = 16 * p
    BY MultipleOf
  <1>3. a = 16 * (p * q) + 0 /\ p * q \in Nat
    BY <1>1, <1>2
  <1> QED BY <1>3, QuotientIs
LEMMA ElementOf ==
  ASSUME NEW S, NEW b \in Seq(S), NEW j \in DOMAIN b
  PROVE  j \in Nat \ {0} /\ b[j] \in S
  <1>1. j \in 1 .. Len(b)
    OBVIOUS
  <1> QED BY <1>1

LEMMA FirstIs ==
  ASSUME NEW bars \in Seq(0 .. Word - 1), Memory(bars) # {}
  PROVE  /\ First(bars) \in Memory(bars)
         /\ \A j \in Memory(bars) : First(bars) <= j
  <1> DEFINE set == Memory(bars)
  <1>1. set \subseteq Nat /\ set # {}
    BY DEF Memory
  <1> HIDE DEF set
  <1>2. PICK i \in set : \A j \in set : ~(<<j, i>> \in OpToRel(<, Nat))
    BY <1>1, NatLessThanWellFounded, WFMin
  <1>3. \A j \in Nat, k \in Nat : <<j, k>> \in OpToRel(<, Nat) <=> j < k
    BY DEF OpToRel
  <1>4. \A j \in Nat, k \in Nat : ~(j < k) => k <= j
    OBVIOUS
  <1>5. \A j \in set : i <= j
    BY <1>1, <1>2, <1>3, <1>4
  <1> QED BY <1>1, <1>2, <1>5 DEF First, set

(* In front of the first memory BAR is no upper half.                      *)
LEMMA WrittenLow ==
  ASSUME NEW d, NEW i \in Memory(d.bars), i \in BarsOf(d), NEW v,
         DOMAIN d.bars \subseteq Nat,
         \A j \in Memory(d.bars) : i <= j
  PROVE  Written(d, i, v) = Aligned(v, d.size[i]) + Flags(d.bars[i])
  <1>1. i \in Nat
    BY DEF Memory
  <1>2. i - 1 \in DOMAIN d.bars => d.bars[i - 1] = 0 \/ IsIO(d.bars[i - 1])
    BY <1>1 DEF Memory
  <1>3. ~IsWide(0)
    BY DEF IsWide
  <1> QED BY <1>2, <1>3 DEF Written

LEMMA WrittenHigh ==
  ASSUME NEW d, NEW i \in Memory(d.bars), NEW v, i \in Nat, IsWide(d.bars[i]),
         i + 1 \in BarsOf(d)
  PROVE  Written(d, i + 1, v) =
            Aligned(v, IF d.size[i] > Word THEN d.size[i] \div Word ELSE 1)
  <1>1. i + 1 - 1 = i
    OBVIOUS
  <1> QED BY <1>1 DEF Written, Memory

(* The BARs while the size is read, and what a function then is.           *)
Sized(d) == BarsWritten(d, d.bars, Ones, Ones)
InSizing(d) == [d EXCEPT !.bars = Sized(d)]

LEMMA SizedLow ==
  ASSUME NEW d \in Function, Memory(d.bars) # {}, ~Mistaken(d), BarFits(d)
  PROVE  LET i == First(d.bars)
             s == d.size[i]
         IN  /\ i \in DOMAIN Sized(d) /\ i \in Nat
             /\ Sized(d)[i] = (IF s < Word THEN Word - s ELSE 0) + Flags(d.bars[i])
             /\ Flags(Sized(d)[i]) = Flags(d.bars[i])
             /\ Base(Sized(d)[i]) = IF s < Word THEN Word - s ELSE 0
             /\ IsWide(Sized(d)[i]) = IsWide(d.bars[i])
             /\ ~IsIO(Sized(d)[i])
             /\ Sized(d)[i] # 0
  <1> DEFINE i == First(d.bars)
             s == d.size[i]
             f == Flags(d.bars[i])
             a == IF s < Word THEN Word - s ELSE 0
  <1>1. d.bars \in Seq(0 .. Word - 1) /\ d.size \in Seq(Nat)
    BY DEF Function
  <1>2. /\ i \in Memory(d.bars) /\ i \in DOMAIN d.bars /\ i \in Nat
        /\ \A j \in Memory(d.bars) : i <= j
        /\ d.bars[i] \in Nat /\ ~IsIO(d.bars[i]) /\ i \in BarsOf(d)
    <2>1. /\ i \in Memory(d.bars)
          /\ \A j \in Memory(d.bars) : i <= j
      BY <1>1, FirstIs
    <2>2. i \in DOMAIN d.bars /\ ~IsIO(d.bars[i])
      BY <2>1 DEF Memory
    <2>3. i \in Nat /\ d.bars[i] \in 0 .. Word - 1
      <3> HIDE DEF i
      <3> QED BY <1>1, <2>2, ElementOf
    <2> QED BY <2>1, <2>2, <2>3, PciAssumption DEF Mistaken
  <1>3. /\ s \in Nat \ {0} /\ s % 16 = 0
        /\ \/ Word % s = 0 /\ s < Word
           \/ IsWide(d.bars[i]) /\ s % Word = 0 /\ ~(s < Word)
    <2>1. s \in Nat \ {0} /\ s % 16 = 0
      BY <1>1 DEF BarFits
    <2>2. s % Word = 0 => ~(s < Word)
      BY <2>1, PciAssumption
    <2> QED BY <2>1, <2>2 DEF BarFits
  <1>4. Sized(d)[i] = Aligned(Ones, s) + f
    <2>1. Sized(d)[i] = Written(d, i, Ones)
      BY <1>2 DEF Sized, BarsWritten, Sizing
    <2> QED BY <1>1, <1>2, <2>1, WrittenLow
  <1>5. a \in Nat /\ a % 16 = 0 /\ Aligned(Ones, s) = a
    <2>1. CASE s < Word
      <3>1. Aligned(Ones, s) = Word - s
        BY <1>3, <2>1, OnesAligned
      <3>2. (Word - s) % 16 = 0
        BY <1>3, PciAssumption
      <3> QED BY <1>3, <2>1, <3>1, <3>2, PciAssumption
    <2>2. CASE ~(s < Word)
      BY <1>3, <2>2, OnesGone, PciAssumption
    <2> QED BY <2>1, <2>2
  <1>6. f \in 0 .. 15 /\ IsWide(f) = IsWide(d.bars[i]) /\ ~IsIO(f)
    BY <1>2, FlagsOf
  <1>7. /\ Flags(a + f) = f /\ Base(a + f) = a
        /\ IsWide(a + f) = IsWide(d.bars[i]) /\ ~IsIO(a + f)
    <2> HIDE DEF a, f
    <2> QED BY <1>5, <1>6, FlagsKept
  <1>8. a + f # 0
    <2>1. CASE s < Word
      BY <1>3, <1>6, <2>1, PciAssumption
    <2>2. CASE ~(s < Word)
      <3>1. IsWide(f)
        BY <1>3, <1>6, <2>2
      <3>2. f # 0
        BY <3>1 DEF IsWide
      <3> QED BY <1>6, <2>2, <3>2
    <2> QED BY <2>1, <2>2
  <1>9. Sized(d)[i] = a + f
    BY <1>4, <1>5
  <1>10. i \in DOMAIN Sized(d)
    BY <1>2 DEF Sized, BarsWritten, Sizing
  <1> QED BY <1>2, <1>7, <1>8, <1>9, <1>10
(* What the registers hold of the size, and of the address.                *)
LEMMA SizedRight ==
  ASSUME NEW d \in Function, Memory(d.bars) # {}, ~Mistaken(d), BarFits(d)
  PROVE  LET i == First(d.bars)
         IN  SizeOf(Sized(d)[i], IF IsWide(d.bars[i]) THEN Sized(d)[i + 1] ELSE Ones)
                = d.size[i] % Word
  <1> DEFINE i == First(d.bars)
             s == d.size[i]
             low == Sized(d)[i]
  <1>1. d.bars \in Seq(0 .. Word - 1) /\ d.size \in Seq(Nat)
    BY DEF Function
  <1>2. /\ i \in Nat /\ Base(low) = IF s < Word THEN Word - s ELSE 0
        /\ i \in Memory(d.bars)
    BY <1>1, SizedLow, FirstIs
  <1>3. s \in Nat \ {0}
    BY <1>1, ElementOf DEF BarFits
  <1>4. CASE s < Word
    <2>1. (IF IsWide(d.bars[i]) THEN Sized(d)[i + 1] ELSE Ones) = Ones
      <3>1. CASE IsWide(d.bars[i])
        <4>1. i + 1 \in BarsOf(d) /\ i + 1 \in DOMAIN d.bars /\ i # i + 1
          BY <1>2, <3>1 DEF BarFits, BarsOf
        <4>2. Sized(d)[i + 1] = Written(d, i + 1, Ones)
          BY <3>1, <4>1 DEF Sized, BarsWritten, Sizing
        <4>3. Written(d, i + 1, Ones) = Aligned(Ones, 1)
          BY <1>2, <1>3, <1>4, <3>1, <4>1, WrittenHigh, PciAssumption
        <4>4. Aligned(Ones, 1) = Ones
          BY PciAssumption DEF Aligned, Ones
        <4> QED BY <3>1, <4>2, <4>3, <4>4
      <3> QED BY <3>1
    <2>2. Word * Word - (Ones * Word + (Word - s)) = s
      BY <1>3, PciAssumption DEF Ones
    <2>3. SizeOf(low, Ones) = s % Word
      BY <1>2, <1>4, <2>2 DEF SizeOf
    <2> QED BY <2>1, <2>3
  <1>5. CASE ~(s < Word)
    <2> DEFINE k == s \div Word
               h == Sized(d)[i + 1]
    <2>1. /\ IsWide(d.bars[i]) /\ s % Word = 0 /\ Word % k = 0
          /\ i + 1 \in BarsOf(d) /\ i + 1 \in DOMAIN d.bars
      BY <1>5 DEF BarFits, BarsOf
    <2>2. k \in Nat \ {0}
      <3> HIDE DEF s
      <3>1. Word \in Nat \ {0}
        BY PciAssumption
      <3>2. /\ s \div Word \in Nat
            /\ s = Word * (s \div Word) + (s % Word)
        BY <1>3, <3>1, Quotient
      <3> QED BY <1>3, <2>1, <3>1, <3>2
    <2>3. h = Written(d, i + 1, Ones)
      BY <1>2, <2>1 DEF Sized, BarsWritten, Sizing
    <2>4. h = Aligned(Ones, IF s > Word THEN k ELSE 1)
      BY <1>2, <2>1, <2>3, WrittenHigh
    <2>5. h \in Nat /\ h <= Ones
      <3>1. PICK n \in Nat \ {0} : h = Aligned(Ones, n)
        BY <2>2, <2>4
      <3>2. Ones \in Nat
        BY PciAssumption DEF Ones
      <3>3. Ones % n \in 0 .. n - 1 /\ Ones \div n \in Nat
               /\ Ones = n * (Ones \div n) + (Ones % n)
        BY <3>2, Quotient
      <3>4. n * (Ones \div n) \in Nat
        BY <3>3
      <3> QED BY <3>1, <3>2, <3>3, <3>4 DEF Aligned
    <2>6. Word * Word - (h * Word + 0) = Word * (Word - h) + 0 /\ Word - h \in Nat
      <3> HIDE DEF h
      <3> QED BY <2>5, PciAssumption DEF Ones
    <2>7. SizeOf(low, h) = 0
      <3>1. SizeOf(low, h) = (Word * Word - (h * Word + 0)) % Word
        BY <1>2, <1>5 DEF SizeOf
      <3> HIDE DEF h
      <3> DEFINE q == Word - h
      <3>2. q \in Nat /\ Word \in Nat \ {0}
        BY <2>6, PciAssumption
      <3>3. (Word * q) % Word = 0
        <4> HIDE DEF q
        <4> QED BY <3>2, MultipleIs
      <3>4. Word * q + 0 = Word * q
        <4> HIDE DEF q
        <4> QED BY <3>2
      <3> QED BY <2>6, <3>1, <3>3, <3>4
    <2> QED BY <2>1, <2>7
  <1> QED BY <1>4, <1>5

(* While the first memory BAR holds a size, none is in front of it.        *)
LEMMA SizedFirst ==
  ASSUME NEW d \in Function, Memory(d.bars) # {}, ~Mistaken(d), BarFits(d)
  PROVE  /\ First(d.bars) \in Memory(Sized(d))
         /\ \A j \in Memory(Sized(d)) : First(d.bars) <= j
         /\ DOMAIN Sized(d) = DOMAIN d.bars /\ DOMAIN d.bars \subseteq Nat
  <1> DEFINE i == First(d.bars)
             b == Sized(d)
  <1>1. d.bars \in Seq(0 .. Word - 1)
    BY DEF Function
  <1>2. DOMAIN b = DOMAIN d.bars /\ DOMAIN d.bars \subseteq Nat
    BY <1>1, ElementOf DEF Sized, BarsWritten
  <1>3. i \in Memory(b)
    BY SizedLow DEF Memory
  <1>4. \A j \in Memory(d.bars) : i <= j
    BY <1>1, FirstIs
  <1>5. ASSUME NEW j \in Memory(b) PROVE i <= j
    <2>1. j \in Nat /\ i \in Nat /\ j \in DOMAIN d.bars
      BY <1>2, <1>3 DEF Memory
    <2>2. CASE j < i
      <3>1. j # i /\ j # i + 1
        BY <2>1, <2>2
      <3>2. b[j] = d.bars[j]
        BY <2>1, <3>1 DEF Sized, BarsWritten, Sizing
      <3>3. j \in Memory(d.bars)
        BY <2>1, <3>2 DEF Memory
      <3> QED BY <1>4, <3>3
    <2> QED BY <2>1, <2>2
  <1> QED BY <1>2, <1>3, <1>5

(* The values written back are those that were there.                      *)
LEMMA SizedBack ==
  ASSUME NEW d \in Function, Memory(d.bars) # {}, ~Mistaken(d), BarFits(d)
  PROVE  LET i == First(d.bars)
         IN  BarsWritten(InSizing(d), d.bars, d.bars[i],
                         IF IsWide(d.bars[i]) THEN d.bars[i + 1] ELSE 0) = d.bars
  <1> DEFINE i == First(d.bars)
             s == d.size[i]
             e == InSizing(d)
             low == d.bars[i]
             high == IF IsWide(low) THEN d.bars[i + 1] ELSE 0
  <1>1. d.bars \in Seq(0 .. Word - 1) /\ d.size \in Seq(Nat)
    BY DEF Function
  <1>2. /\ e.bars = Sized(d) /\ e.size = d.size /\ e.bridge = d.bridge
        /\ BarsOf(e) = BarsOf(d)
    BY SizedFirst DEF InSizing, Function, BarsOf
  <1>3. /\ i \in BarsOf(e) /\ i \in Memory(e.bars)
        /\ \A j \in Memory(e.bars) : i <= j
        /\ DOMAIN e.bars = DOMAIN d.bars /\ DOMAIN d.bars \subseteq Nat
    BY <1>2, SizedFirst DEF Mistaken
  <1>4. /\ Flags(e.bars[i]) = Flags(low) /\ IsWide(e.bars[i]) = IsWide(low)
        /\ i \in Nat /\ i \in DOMAIN d.bars /\ low \in Nat
    <2>1. i \in DOMAIN d.bars
      BY <1>1, FirstIs DEF Memory
    <2>2. low \in 0 .. Word - 1 /\ i \in Nat
      BY <1>1, <2>1, ElementOf
    <2>3. low \in Nat
      BY <2>2, PciAssumption
    <2> QED BY <1>2, <2>1, <2>2, <2>3, SizedLow
  <1>5. s \in Nat \ {0} /\ s % 16 = 0 /\ s >= 16
    <2>1. s \in Nat \ {0} /\ s % 16 = 0
      BY <1>1, ElementOf DEF BarFits
    <2> HIDE DEF s
    <2> QED BY <2>1
  <1>6. Written(e, i, low) = low
    <2> DEFINE f == Flags(low)
               a == Base(low)
    <2>1. Written(e, i, low) = Aligned(low, s) + f
      BY <1>2, <1>3, <1>4, WrittenLow
    <2>2. f \in 0 .. 15 /\ a \in Nat /\ low = a + f
      BY <1>4, FlagsOf
    <2>3. a % s = 0
      <3>1. CASE Base(low) = 0
        BY <1>5, <3>1
      <3> QED BY <3>1 DEF BarFits
    <2>4. low % s = f
      <3> HIDE DEF a, f, s, low
      <3>1. PICK q \in Nat : a = s * q
        BY <1>5, <2>2, <2>3, MultipleOf
      <3>2. f \in 0 .. s - 1
        BY <1>5, <2>2
      <3>3. low = s * q + f
        BY <2>2, <3>1
      <3> QED BY <1>5, <3>2, <3>3, QuotientIs
    <2>5. Aligned(low, s) = low - f
      BY <2>4 DEF Aligned
    <2> HIDE DEF f, low
    <2> QED BY <1>4, <2>1, <2>2, <2>5
  <1>7. ASSUME IsWide(low) PROVE Written(e, i + 1, high) = high
    <2>1. high \in Nat
      <3>1. high \in 0 .. Word - 1
        BY <1>1, <1>7, ElementOf DEF BarFits, BarsOf
      <3> HIDE DEF high
      <3> QED BY <3>1, PciAssumption
    <2>2. Written(e, i + 1, high) = Aligned(high, IF s > Word THEN s \div Word ELSE 1)
      BY <1>2, <1>3, <1>4, <1>7, WrittenHigh DEF BarFits
    <2>3. high % 1 = 0
      BY <2>1
    <2>4. s > Word => high % (s \div Word) = 0
      BY <1>5, <1>7, PciAssumption DEF BarFits
    <2> HIDE DEF high, s
    <2> QED BY <2>1, <2>2, <2>3, <2>4 DEF Aligned
  <1>8. ASSUME NEW j \in DOMAIN d.bars
        PROVE  BarsWritten(e, d.bars, low, high)[j] = d.bars[j]
    <2>1. CASE j = i
      BY <1>3, <1>6, <2>1 DEF BarsWritten, Sizing
    <2>2. CASE j = i + 1 /\ IsWide(low)
      <3>1. BarsWritten(e, d.bars, low, high)[j] = Written(e, i + 1, high)
        <4>1. j # i
          BY <1>4, <2>2
        <4> HIDE DEF high, e
        <4> QED BY <1>3, <1>4, <2>2, <4>1 DEF BarsWritten, Sizing
      <3> QED BY <1>7, <2>2, <3>1
    <2>3. CASE j # i /\ ~(j = i + 1 /\ IsWide(low))
      <3>1. BarsWritten(e, d.bars, low, high)[j] = e.bars[j]
        <4> HIDE DEF high, e
        <4> QED BY <1>3, <1>4, <2>3 DEF BarsWritten, Sizing
      <3>2. Sized(d)[j] = d.bars[j]
        BY <2>3 DEF Sized, BarsWritten, Sizing
      <3> QED BY <1>2, <3>1, <3>2
    <2> QED BY <2>1, <2>2, <2>3
  <1>9. BarsWritten(e, d.bars, low, high) = [j \in DOMAIN d.bars |-> d.bars[j]]
    <2>1. BarsWritten(e, d.bars, low, high) =
             [j \in DOMAIN d.bars |-> BarsWritten(e, d.bars, low, high)[j]]
      BY <1>3 DEF BarsWritten, Sizing
    <2> QED BY <1>8, <2>1
  <1> QED BY <1>1, <1>9

(* Of a register mistaken for a BAR the status bits are lost.              *)
LEMMA SizedMistaken ==
  ASSUME NEW d \in Function, Mistaken(d)
  PROVE  LET i == First(d.bars)
         IN  BarsWritten(InSizing(d), d.bars, d.bars[i],
                         IF IsWide(d.bars[i]) THEN d.bars[i + 1] ELSE 0) = Kept(d).bars
  <1> DEFINE i == First(d.bars)
             e == InSizing(d)
             high == IF IsWide(d.bars[i]) THEN d.bars[i + 1] ELSE 0
  <1>1. /\ e.size = d.size /\ DOMAIN e.bars = DOMAIN d.bars
        /\ BarsOf(e) = BarsOf(d)
        /\ \A j \in DOMAIN d.bars \ Sizing(d.bars) : e.bars[j] = d.bars[j]
    BY DEF InSizing, Function, BarsOf, Sized, BarsWritten
  <1>2. i \in DOMAIN d.bars /\ i \in Nat \ {0} /\ i \notin BarsOf(d)
    <2>1. d.bars \in Seq(0 .. Word - 1) /\ i \in DOMAIN d.bars
      BY FirstIs DEF Function, Mistaken, Memory
    <2>2. i \in Nat \ {0}
      BY <2>1, ElementOf
    <2> QED BY <2>1, <2>2 DEF Mistaken
  <1>3. i + 1 \notin BarsOf(d) /\ i # i + 1
    <2> HIDE DEF i
    <2> QED BY <1>2 DEF BarsOf
  <1>4. ASSUME NEW j \in DOMAIN d.bars
        PROVE  BarsWritten(e, d.bars, d.bars[i], high)[j] = Kept(d).bars[j]
    <2>1. Kept(d).bars[j] = IF j \in Sizing(d.bars) THEN d.bars[j] % d.size[j]
                                                    ELSE d.bars[j]
      BY DEF Kept, Function
    <2>2. CASE j \in Sizing(d.bars)
      <3>1. j \notin BarsOf(e)
        BY <1>1, <1>2, <1>3, <2>2 DEF Sizing
      <3>2. \A v : Written(e, j, v) = v % d.size[j]
        BY <1>1, <3>1 DEF Written
      <3>3. BarsWritten(e, d.bars, d.bars[i], high)[j] =
               Written(e, j, IF j = i THEN d.bars[i] ELSE high)
        <4> HIDE DEF e, high
        <4> QED BY <1>1, <2>2 DEF BarsWritten
      <3>4. (IF j = i THEN d.bars[i] ELSE high) = d.bars[j]
        BY <2>2 DEF Sizing
      <3> QED BY <2>1, <2>2, <3>2, <3>3, <3>4
    <2>3. CASE j \notin Sizing(d.bars)
      <3>1. BarsWritten(e, d.bars, d.bars[i], high)[j] = e.bars[j]
        <4> HIDE DEF e, high
        <4> QED BY <1>1, <2>3 DEF BarsWritten
      <3> QED BY <1>1, <2>1, <2>3, <3>1
    <2> QED BY <2>2, <2>3
  <1>5. /\ BarsWritten(e, d.bars, d.bars[i], high) =
              [j \in DOMAIN d.bars |-> BarsWritten(e, d.bars, d.bars[i], high)[j]]
        /\ Kept(d).bars = [j \in DOMAIN d.bars |-> Kept(d).bars[j]]
    BY <1>1 DEF BarsWritten, Kept, Function
  <1> QED BY <1>4, <1>5

-----------------------------------------------------------------------------
(* The scans.                                                              *)

Searching == call # "PciListDevicesAttached"

InRange ==
    /\ bus \in 0 .. Buses - 1
    /\ slot \in 0 .. Slots - 1
    /\ func \in 0 .. Funcs - 1

(* A function that the call in progress looks for.                         *)
Wanted(l) == l[3] = 0 /\ call \in config[l].matches

(* Behind a search there is no function it should have returned; it visits *)
(* the later functions of a slot only if the slot is empty.                *)
SearchSound ==
    /\ config \in Machines
    /\ at \in {"scan", "done"}
    /\ region = <<>>
    /\ \A l \in DOMAIN config : Wanted(l) => ~Before(l, here)
    /\ func # 0 => <<bus, slot, 0>> \notin DOMAIN config
    /\ at = "done" => Present /\ Matches

(* The list has every function behind it, and the one it is at.  Behind it *)
(* the registers are what sizing leaves of them, and in front of it what   *)
(* they were; the one it is at may hold the mask of a size, and only its   *)
(* region may still be unread.                                             *)
ListSound ==
    /\ start \in Machines
    /\ at \in {"scan", "size", "restore", "next", "done"}
    /\ config = [l \in DOMAIN start |->
          IF l = here /\ at \in {"size", "restore"} THEN InSizing(start[l])
          ELSE IF Before(l, here) \/ (l = here /\ at = "next") THEN Kept(start[l])
          ELSE start[l]]
    /\ IF at = "done" THEN here = <<ListBuses, 0, 0>> ELSE bus < ListBuses
    /\ at \in {"size", "restore", "next"} => here \in DOMAIN start
    /\ at \in {"size", "restore"} => Memory(start[here].bars) # {}
    /\ DOMAIN region = {l \in DOMAIN start : Before(l, here)}
                          \cup {l \in {here} : at \in {"size", "restore", "next"}}
    /\ at = "size" => region[here] = [bars |-> start[here].bars, base |-> 0, size |-> 0]
    /\ at = "restore" => region[here].bars = start[here].bars
    /\ \A l \in DOMAIN region :
          \/ at = "size" /\ l = here
          \/ IsRegionOf(region[l], start[l])
          \/ Mistaken(start[l])

Inv ==
    /\ InRange
    /\ Searching => SearchSound
    /\ ~Searching => ListSound

-----------------------------------------------------------------------------
LEMMA NextBusIs ==
  ASSUME bus \in 0 .. Buses - 1
  PROVE  NextBus = IF bus + 1 = Buses THEN 0 ELSE bus + 1
  BY PciAssumption DEF NextBus

(* What lies between here and the next place the loops visit, and is not   *)
(* here, is a later function of this slot.                                 *)
LEMMA SlotStep ==
  ASSUME InRange, NextSlot
  PROVE  /\ InRange' /\ func' = 0
         /\ \A l \in Loc : Before(l, here)' =>
               \/ Before(l, here) \/ l = here
               \/ l[1] = bus /\ l[2] = slot /\ l[3] > func
         /\ bus' # 0 \/ slot' # 0 => \A l \in Loc :
               Before(l, here) \/ l = here => Before(l, here)'
         /\ bus' \in {bus, NextBus}
         /\ bus' # bus => slot' = 0
  BY PciAssumption, NextBusIs DEF InRange, NextSlot, here, Before, Loc

LEMMA FuncStep ==
  ASSUME InRange, NextFunc, func + 1 < Funcs
  PROVE  /\ InRange' /\ func' = func + 1 /\ bus' = bus /\ slot' = slot
         /\ \A l \in Loc : Before(l, here)' <=> Before(l, here) \/ l = here
  BY PciAssumption DEF InRange, NextFunc, here, Before, Loc

LEMMA MachineIs ==
  ASSUME NEW m \in Machines, NEW l \in DOMAIN m
  PROVE  /\ l \in Loc
         /\ <<l[1], l[2], 0>> \in DOMAIN m
         /\ l[3] # 0 => m[<<l[1], l[2], 0>>].multi
  BY MachinesAssumption

LEMMA InitInv == Init => Inv
  <1> SUFFICES ASSUME Init PROVE Inv
    OBVIOUS
  <1>1. InRange
    BY PciAssumption DEF Init, InRange
  <1>2. \A l \in DOMAIN config : ~Before(l, here)
    <2>1. here = <<0, 0, 0>> /\ config \in Machines
      BY DEF Init, here
    <2>2. \A l \in Loc : ~Before(l, <<0, 0, 0>>)
      BY PciAssumption DEF Before, Loc
    <2> QED BY <2>1, <2>2, MachineIs
  <1>3. SearchSound
    BY <1>2 DEF Init, SearchSound
  <1>4. ListSound
    <2>1. start = [l \in DOMAIN start |-> start[l]]
      BY MachinesAssumption DEF Init
    <2>2. start = [l \in DOMAIN start |->
             IF l = here /\ at \in {"size", "restore"} THEN InSizing(start[l])
             ELSE IF Before(l, here) \/ (l = here /\ at = "next") THEN Kept(start[l])
             ELSE start[l]]
      BY <1>2, <2>1 DEF Init
    <2> QED BY <1>2, <2>2, PciAssumption DEF Init, ListSound
  <1> QED BY <1>1, <1>3, <1>4 DEF Inv

-----------------------------------------------------------------------------
(* A search's step: a slot is left only behind a function 0 that does not  *)
(* match, or behind its last function.                                     *)
LEMMA SearchStep ==
  ASSUME Inv, Searching, Next
  PROVE  Inv'
  <1> USE DEF Inv
  <1>1. /\ config \in Machines /\ config' = config
        /\ call' = call /\ region = <<>> /\ region' = region
        /\ at = "scan"
    BY DEF Searching, SearchSound, Next, Absent, Find, List, ReadSize, Restore, Continue
  <1>2. CASE at' = "done"
    BY <1>1, <1>2 DEF Next, Absent, Find, List, ReadSize, Restore, Continue, Searching,
         SearchSound, InRange, Wanted, here, Present, Matches, this
  <1>3. CASE at' # "done"
    <2>1. at' = "scan"
      BY <1>1, <1>3 DEF Next, Absent, Find, List, ReadSize, Restore, Continue, Searching
    <2>2. /\ here \in DOMAIN config => ~Matches
          /\ here \in DOMAIN config /\ func = 0 => NextSlot
          /\ here \notin DOMAIN config \/ func # 0 => NextFunc
      BY <1>1, <1>3 DEF Next, Absent, Find, List, ReadSize, Restore, Continue, Searching,
           Present
    <2>3. here \in DOMAIN config => func = 0
      BY <1>1, MachineIs DEF SearchSound, Searching, here
    <2>4. ASSUME NEW l \in DOMAIN config, Wanted(l) PROVE l # here /\ ~Before(l, here)
      BY <1>1, <2>2, <2>4 DEF SearchSound, Wanted, Matches, this
    <2>5. CASE NextSlot
      <3>1. InRange' /\ func' = 0
        BY <2>5, SlotStep
      <3>2. ASSUME NEW l \in DOMAIN config, Wanted(l) PROVE ~Before(l, here)'
        <4>1. l \in Loc /\ l[3] = 0 /\ func \in Nat
          <5>1. l \in Loc
            BY <1>1, MachineIs
          <5>2. l[3] = 0
            BY <3>2 DEF Wanted
          <5>3. func \in Nat
            BY PciAssumption DEF InRange
          <5> QED BY <5>1, <5>2, <5>3
        <4>2. ~(l[3] > func)
          BY <4>1
        <4> QED BY <2>4, <2>5, <3>2, <4>1, <4>2, SlotStep
      <3> QED BY <1>1, <2>1, <3>1, <3>2 DEF SearchSound, Searching, Wanted
    <2>6. CASE NextFunc /\ ~NextSlot
      <3>1. func + 1 < Funcs
        BY <2>6 DEF NextFunc
      <3>2. here \notin DOMAIN config
        BY <2>2, <2>3, <2>6
      <3>3. <<bus, slot, 0>> \notin DOMAIN config
        BY <3>2 DEF SearchSound, here, Searching
      <3>4. ASSUME NEW l \in DOMAIN config, Wanted(l) PROVE ~Before(l, here)'
        BY <1>1, <2>4, <2>6, <3>1, <3>4, FuncStep, MachineIs
      <3> QED BY <1>1, <2>1, <2>6, <3>1, <3>3, <3>4, FuncStep
              DEF SearchSound, Searching, Wanted
    <2> QED BY <2>2, <2>5, <2>6
  <1> QED BY <1>2, <1>3

-----------------------------------------------------------------------------
(* The loops' end of a visit of the list: Continue, or Absent.             *)
LEMMA ListMoves ==
  ASSUME Inv, ~Searching, Absent \/ Continue
  PROVE  Inv'
  <1> USE DEF Inv, Searching
  <1>1. /\ UNCHANGED <<config, call, region, start>>
        /\ at' = IF bus' = ListBuses THEN "done" ELSE "scan"
        /\ bus < ListBuses
        /\ DOMAIN config = DOMAIN start /\ start \in Machines
        /\ at \in {"scan", "next"}
    BY DEF Absent, Continue, ListGoesOn, ListSound
  <1>2. /\ DOMAIN region = {l \in DOMAIN config : Before(l, here) \/ l = here}
        /\ \A l \in DOMAIN region : IsRegionOf(region[l], start[l]) \/ Mistaken(start[l])
        /\ config = [l \in DOMAIN start |->
              IF Before(l, here) \/ l = here THEN Kept(start[l]) ELSE start[l]]
    BY <1>1 DEF ListSound, Absent, Continue, Present
  <1>3. \A l \in DOMAIN config : l \in Loc
    BY <1>1, MachineIs
  <1>4. CASE NextSlot /\ \A l \in DOMAIN config :
                            ~(l[1] = bus /\ l[2] = slot /\ l[3] > func)
    <2>1. InRange' /\ func' = 0
      BY <1>4, SlotStep
    <2>2. bus' \in {bus, bus + 1} /\ (bus' # bus => slot' = 0)
      BY <1>1, <1>4, SlotStep, NextBusIs, PciAssumption DEF InRange
    <2>3. bus' # 0 \/ slot' # 0
      BY <1>1, <1>4, NextBusIs, PciAssumption DEF NextSlot, InRange
    <2>4. \A l \in DOMAIN config : Before(l, here)' <=> Before(l, here) \/ l = here
      BY <1>3, <1>4, <2>3, SlotStep
    <2>5. IF at' = "done" THEN here' = <<ListBuses, 0, 0>> ELSE bus' < ListBuses
      BY <1>1, <2>1, <2>2, PciAssumption DEF here, InRange
    <2> QED BY <1>1, <1>2, <2>1, <2>4, <2>5 DEF ListSound
  <1>5. CASE NextFunc /\ func + 1 < Funcs
    <2>1. InRange' /\ bus' = bus
      BY <1>5, FuncStep
    <2>2. \A l \in DOMAIN config : Before(l, here)' <=> Before(l, here) \/ l = here
      BY <1>3, <1>5, FuncStep
    <2>3. at' = "scan" /\ bus' < ListBuses
      BY <1>1, <2>1, PciAssumption DEF InRange
    <2> QED BY <1>1, <1>2, <2>1, <2>2, <2>3 DEF ListSound
  <1>6. CASE NextFunc /\ ~(func + 1 < Funcs)
    <2>1. NextSlot
      BY <1>6 DEF NextFunc
    <2>2. \A l \in DOMAIN config : ~(l[3] > func)
      BY <1>3, <1>6, PciAssumption DEF Loc, InRange
    <2> QED BY <1>4, <2>1, <2>2
  <1>7. CASE NextSlot /\ Continue /\ func = 0 /\ ~this.multi
    <2>1. here \in DOMAIN config /\ this = Kept(start[here]) /\ here = <<bus, slot, 0>>
      BY <1>1, <1>2, <1>7 DEF ListSound, Continue, this, here
    <2>2. ~start[<<bus, slot, 0>>].multi
      <3>1. start[here] \in Function
        BY <1>1, <2>1, MachinesAssumption
      <3> QED BY <1>7, <2>1, <3>1 DEF Kept, Function
    <2>3. \A l \in DOMAIN config : l[1] = bus /\ l[2] = slot => l[3] = 0
      BY <1>1, <2>2, MachineIs
    <2>4. \A l \in DOMAIN config : ~(l[1] = bus /\ l[2] = slot /\ l[3] > func)
      BY <1>7, <2>3
    <2> QED BY <1>4, <1>7, <2>4
  <1> QED BY <1>5, <1>6, <1>7 DEF Absent, Continue, AfterListed

(* The visit of a function: its record, and the accesses to its BARs.      *)
LEMMA ListReads ==
  ASSUME Inv, ~Searching, List
  PROVE  Inv'
  <1> USE DEF Inv, Searching
  <1> DEFINE d == start[here]
  <1>1. /\ UNCHANGED <<call, bus, slot, func, start>> /\ here' = here
        /\ start \in Machines /\ here \in DOMAIN start
        /\ config = [l \in DOMAIN start |->
              IF Before(l, here) THEN Kept(start[l]) ELSE start[l]]
        /\ ~Before(here, here)
        /\ this = d
        /\ bus < ListBuses
    <2>1. ~Before(here, here)
      BY PciAssumption DEF Before, here, InRange
    <2> QED BY <2>1 DEF List, ListSound, here, Present, this
  <1>2. start \in [DOMAIN start -> Function]
    BY <1>1, MachinesAssumption
  <1>3. /\ DOMAIN region' = DOMAIN region \cup {here}
        /\ region'[here] = [bars |-> d.bars, base |-> 0, size |-> 0]
        /\ \A l \in DOMAIN region : l # here => region'[l] = region[l]
    BY <1>1 DEF List, Listed
  <1>4. here \notin DOMAIN region
    BY <1>1 DEF List, ListSound
  <1>5. \A l \in DOMAIN region :
           region'[l] = region[l] /\ (IsRegionOf(region[l], start[l]) \/ Mistaken(start[l]))
    BY <1>3, <1>4 DEF ListSound, List
  <1>6. DOMAIN region = {l \in DOMAIN start : Before(l, here)}
    BY DEF ListSound, List
  <1>7. CASE Memory(d.bars) = {}
    <2>1. at' = "next" /\ config' = config /\ Kept(d) = d
      BY <1>1, <1>7 DEF List, Kept, Mistaken
    <2>2. IsRegionOf(region'[here], d)
      BY <1>3, <1>7 DEF IsRegionOf
    <2> HIDE DEF d
    <2>3. ListSound'
      <3>1. DOMAIN region' = {l \in DOMAIN start' : Before(l, here')}
                  \cup {l \in {here'} : at' \in {"size", "restore", "next"}}
        BY <1>1, <1>3, <1>6, <2>1 DEF Before
      <3>2. \A l \in DOMAIN region' :
               IsRegionOf(region'[l], start'[l]) \/ Mistaken(start'[l])
        BY <1>1, <1>3, <1>5, <2>2 DEF d
      <3>3. config' = [l \in DOMAIN start |->
               IF l = here /\ at' \in {"size", "restore"} THEN InSizing(start[l])
               ELSE IF Before(l, here) \/ (l = here /\ at' = "next") THEN Kept(start[l])
               ELSE start[l]]
        BY <1>1, <2>1 DEF d
      <3> QED BY <1>1, <2>1, <3>1, <3>2, <3>3 DEF ListSound, Before
    <2> QED BY <1>1, <2>3 DEF InRange
  <1>8. CASE Memory(d.bars) # {}
    <2>1. at' = "size" /\ WriteBar(d.bars, Ones, Ones)
      BY <1>1, <1>8 DEF List
    <2>2. config' = [l \in DOMAIN start |->
             IF l = here /\ at' \in {"size", "restore"} THEN InSizing(start[l])
             ELSE IF Before(l, here) \/ (l = here /\ at' = "next") THEN Kept(start[l])
             ELSE start[l]]
      <3>1. config' = [config EXCEPT ![here] = InSizing(d)]
        BY <1>1, <2>1 DEF WriteBar, InSizing, Sized, this
      <3> HIDE DEF d
      <3> QED BY <1>1, <2>1, <3>1 DEF d
    <2>3. ListSound'
      <3>1. DOMAIN region' = {l \in DOMAIN start' : Before(l, here')}
                  \cup {l \in {here'} : at' \in {"size", "restore", "next"}}
        BY <1>1, <1>3, <1>6, <2>1 DEF Before
      <3>2. \A l \in DOMAIN region' :
               l = here' \/ IsRegionOf(region'[l], start'[l]) \/ Mistaken(start'[l])
        BY <1>1, <1>3, <1>5
      <3> QED BY <1>1, <1>3, <1>8, <2>1, <2>2, <3>1, <3>2 DEF ListSound, Before
    <2> QED BY <1>1, <2>3 DEF InRange
  <1> QED BY <1>7, <1>8

LEMMA ListSizes ==
  ASSUME Inv, ~Searching, ReadSize
  PROVE  Inv'
  <1> USE DEF Inv, Searching
  <1> DEFINE d == start[here]
             i == First(d.bars)
             low == d.bars[i]
             base == Base(low) + IF IsWide(low) THEN d.bars[i + 1] * Word ELSE 0
             size == SizeOf(Sized(d)[i], IF IsWide(low) THEN Sized(d)[i + 1] ELSE Ones)
  <1>1. /\ UNCHANGED <<config, call, bus, slot, func, start>> /\ here' = here
        /\ at = "size" /\ at' = "restore"
        /\ start \in Machines /\ here \in DOMAIN start /\ here \in DOMAIN region
        /\ Memory(d.bars) # {}
        /\ region[here] = [bars |-> d.bars, base |-> 0, size |-> 0]
        /\ config[here] = InSizing(d)
    BY DEF ReadSize, ListSound, here
  <1>2. d \in Function /\ (~Mistaken(d) => BarFits(d))
    BY <1>1, MachinesAssumption, BarsAssumption
  <1>3. d.bars \in Seq(0 .. Word - 1)
    BY <1>2 DEF Function
  <1>4. this.bars = Sized(d)
    BY <1>1, <1>2 DEF this, InSizing, Function
  <1>5. region' = [region EXCEPT ![here].base = base, ![here].size = size]
    BY <1>1, <1>4 DEF ReadSize
  <1>6. /\ DOMAIN region' = DOMAIN region
        /\ \A l \in DOMAIN region : l # here => region'[l] = region[l]
        /\ region'[here] = [bars |-> d.bars, base |-> base, size |-> size]
    <2> HIDE DEF base, size, d
    <2> DEFINE r == [region EXCEPT ![here].base = base]
    <2>1. /\ DOMAIN r = DOMAIN region
          /\ \A l \in DOMAIN region : l # here => r[l] = region[l]
          /\ r[here] = [bars |-> d.bars, base |-> base, size |-> 0]
      BY <1>1
    <2>2. region' = [r EXCEPT ![here].size = size]
      BY <1>5
    <2> HIDE DEF r
    <2> QED BY <1>1, <2>1, <2>2
  <1>7. ASSUME ~Mistaken(d) PROVE IsRegionOf(region'[here], d)
    <2>1. size = d.size[i] % Word
      BY <1>1, <1>2, <1>7, SizedRight
    <2>2. low \in 0 .. Word - 1 /\ IsWide(low) => d.bars[i + 1] \in 0 .. Word - 1
      BY <1>2, <1>3, <1>7, ElementOf DEF BarFits, BarsOf
    <2>3. i \in DOMAIN d.bars /\ Memory(d.bars) \cap BarsOf(d) # {}
      BY <1>1, <1>3, <1>7, FirstIs DEF Memory, Mistaken
    <2>4. low \in 0 .. Word - 1
      BY <1>3, <2>3, ElementOf
    <2>5. PICK h \in 0 .. Word - 1 :
             /\ h = IF IsWide(low) THEN d.bars[i + 1] ELSE 0
             /\ base = Base(low) + h * Word
      <3>1. CASE IsWide(low)
        BY <2>2, <2>4, <3>1
      <3>2. CASE ~IsWide(low)
        <4>1. 0 \in 0 .. Word - 1 /\ 0 * Word = 0
          BY PciAssumption
        <4> QED BY <3>2, <4>1
      <3> QED BY <3>1, <3>2
    <2>6. Base(low) \in 0 .. Word - 1 /\ h \in Nat /\ Word \in Nat \ {0}
      <3>1. low \in Nat /\ low < Word
        BY <2>4, PciAssumption
      <3>2. Flags(low) \in 0 .. 15 /\ Base(low) \in Nat /\ low = Base(low) + Flags(low)
        BY <3>1, FlagsOf
      <3> HIDE DEF low
      <3> QED BY <3>1, <3>2, PciAssumption
    <2>7. base % Word = Base(low) /\ base \div Word = h
      <3> DEFINE a == Base(low)
      <3>1. base = Word * h + a
        <4> HIDE DEF base, a
        <4>1. base = a + h * Word
          BY <2>5 DEF a
        <4>2. a \in Nat
          BY <2>6, PciAssumption DEF a
        <4> QED BY <2>6, <4>1, <4>2
      <3>2. a \in 0 .. Word - 1
        BY <2>6
      <3> HIDE DEF base, a
      <3>3. base % Word = a /\ base \div Word = h
        BY <2>6, <3>1, <3>2, QuotientIs
      <3> QED BY <3>3 DEF a
    <2>8. region'[here].size = size /\ region'[here].base = base
      BY <1>6
    <2> HIDE DEF base, size
    <2> QED BY <2>1, <2>3, <2>5, <2>7, <2>8 DEF IsRegionOf
  <1>8. ListSound'
    <2> HIDE DEF base, size
    <2>1. region'[here].bars = d.bars
      BY <1>6
    <2>2. \A l \in DOMAIN region' :
             IsRegionOf(region'[l], start'[l]) \/ Mistaken(start'[l])
      BY <1>1, <1>6, <1>7 DEF ListSound
    <2>3. DOMAIN region = {l \in DOMAIN start : Before(l, here)} \cup {here}
      BY <1>1 DEF ListSound
    <2>4. config = [l \in DOMAIN start |->
             IF l = here /\ at' \in {"size", "restore"} THEN InSizing(start[l])
             ELSE IF Before(l, here) \/ (l = here /\ at' = "next") THEN Kept(start[l])
             ELSE start[l]]
      BY <1>1 DEF ListSound
    <2> QED BY <1>1, <1>6, <2>1, <2>2, <2>3, <2>4 DEF ListSound, Before
  <1> QED BY <1>1, <1>8 DEF InRange

LEMMA ListRestores ==
  ASSUME Inv, ~Searching, Restore
  PROVE  Inv'
  <1> USE DEF Inv, Searching
  <1> DEFINE d == start[here]
             i == First(d.bars)
             high == IF IsWide(d.bars[i]) THEN d.bars[i + 1] ELSE 0
  <1>1. /\ UNCHANGED <<call, bus, slot, func, region, start>> /\ here' = here
        /\ at = "restore" /\ at' = "next"
        /\ start \in Machines /\ here \in DOMAIN start
        /\ Memory(d.bars) # {}
        /\ region[here].bars = d.bars
        /\ config = [l \in DOMAIN start |->
              IF l = here THEN InSizing(d)
              ELSE IF Before(l, here) THEN Kept(start[l])
              ELSE start[l]]
    BY DEF Restore, ListSound, here
  <1>2. d \in Function /\ (~Mistaken(d) => BarFits(d))
    BY <1>1, MachinesAssumption, BarsAssumption
  <1>3. this = InSizing(d)
    BY <1>1 DEF this
  <1>4. WriteBar(d.bars, d.bars[i], high)
    BY <1>1 DEF Restore
  <1>5. BarsWritten(InSizing(d), d.bars, d.bars[i], high) = Kept(d).bars
    <2>1. CASE Mistaken(d)
      BY <1>2, <2>1, SizedMistaken
    <2>2. CASE ~Mistaken(d)
      <3>1. Kept(d).bars = d.bars
        BY <2>2 DEF Kept
      <3> QED BY <1>1, <1>2, <2>2, <3>1, SizedBack
    <2> QED BY <2>1, <2>2
  <1>6. config' = [config EXCEPT ![here] = Kept(d)]
    <2>1. config' = [config EXCEPT ![here].bars = Kept(d).bars]
      BY <1>3, <1>4, <1>5 DEF WriteBar
    <2>2. [InSizing(d) EXCEPT !.bars = Kept(d).bars] = Kept(d)
      BY <1>2 DEF InSizing, Kept, Function
    <2> HIDE DEF d
    <2> QED BY <1>3, <2>1, <2>2 DEF this
  <1>7. config' = [l \in DOMAIN start |->
           IF l = here /\ at' \in {"size", "restore"} THEN InSizing(start[l])
           ELSE IF Before(l, here) \/ (l = here /\ at' = "next") THEN Kept(start[l])
           ELSE start[l]]
    <2> HIDE DEF d
    <2> QED BY <1>1, <1>6 DEF d
  <1>8. ListSound'
    BY <1>1, <1>7 DEF ListSound, Before
  <1> QED BY <1>1, <1>8 DEF InRange

LEMMA NextInv == Inv /\ [Next]_vars => Inv'
  <1> SUFFICES ASSUME Inv, [Next]_vars PROVE Inv'
    OBVIOUS
  <1>1. CASE UNCHANGED vars
    BY <1>1 DEF vars, Inv, InRange, Searching, SearchSound, ListSound, Wanted, here,
       Present, Matches, this
  <1>2. CASE Next /\ Searching
    BY <1>2, SearchStep
  <1>3. CASE Next /\ ~Searching
    BY <1>3, ListMoves, ListReads, ListSizes, ListRestores DEF Next, Find, Searching
  <1> QED BY <1>1, <1>2, <1>3

LEMMA SpecInv == Spec => []Inv
  BY InitInv, NextInv, PTL DEF Spec

-----------------------------------------------------------------------------
(* For every machine: what a search returns matches, is a function 0, and  *)
(* is the first such, although the loops skip the rest of a slot behind a  *)
(* function 0 that does not match, and start again behind the last bus.    *)
THEOREM SearchFindsFirst == Spec => []FindsFirst
  <1>1. Inv => FindsFirst
    <2> SUFFICES ASSUME Inv, at = "done", Searching
                 PROVE  /\ Present /\ func = 0 /\ call \in this.matches
                        /\ \A l \in DOMAIN config :
                              l[3] = 0 /\ call \in config[l].matches => ~Before(l, here)
      BY DEF FindsFirst, Searching
    <2>1. SearchSound
      BY DEF Inv
    <2>2. Present /\ Matches
      BY <2>1 DEF SearchSound
    <2>3. func = 0
      BY <2>1, <2>2, MachineIs DEF SearchSound, Present, here
    <2> QED BY <2>1, <2>2, <2>3 DEF SearchSound, Matches, Wanted
  <1> QED BY <1>1, SpecInv, PTL

(* For every machine: the list, when it is complete, has every function of *)
(* the buses it visits, although the loops leave a slot behind a function 0*)
(* without the multi-function bit, and every register holds what it held,  *)
(* but for the status bits of a bridge's registers mistaken for BARs.      *)
THEOREM ListIsComplete == Spec => []ListsAll
  <1>1. Inv => ListsAll
    <2> SUFFICES ASSUME Inv, at = "done", ~Searching
                 PROVE  /\ DOMAIN region = {l \in DOMAIN config : l[1] < ListBuses}
                        /\ config = [l \in DOMAIN start |->
                              IF l[1] < ListBuses THEN Kept(start[l]) ELSE start[l]]
      BY DEF ListsAll, Searching
    <2>1. /\ start \in Machines
          /\ config = [l \in DOMAIN start |->
                IF Before(l, here) THEN Kept(start[l]) ELSE start[l]]
          /\ here = <<ListBuses, 0, 0>>
          /\ DOMAIN region = {l \in DOMAIN config : Before(l, here)}
      BY DEF Inv, ListSound
    <2>2. \A l \in Loc : Before(l, <<ListBuses, 0, 0>>) <=> l[1] < ListBuses
      BY PciAssumption DEF Before, Loc
    <2> QED BY <2>1, <2>2, MachineIs
  <1> QED BY <1>1, SpecInv, PTL

(* For every machine, 32-bit and 64-bit BARs and all sizes: the region of  *)
(* a listed function, a bridge or not, is that of its first memory BAR, or *)
(* empty, unless the code takes another register of a bridge for a BAR.    *)
THEOREM ListHasRegions == Spec => []RegionsRight
  <1>1. Inv => RegionsRight
    <2> SUFFICES ASSUME Inv, NEW l \in DOMAIN region \ {here}
                 PROVE  IsRegionOf(region[l], start[l]) \/ Mistaken(start[l])
      BY DEF RegionsRight
    <2>1. ~Searching
      BY DEF Inv, SearchSound
    <2> QED BY <2>1 DEF Inv, ListSound
  <1> QED BY <1>1, SpecInv, PTL
=============================================================================
