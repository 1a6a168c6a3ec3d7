--------------------------- MODULE LibraryProofs ---------------------------
(***************************************************************************)
(* What the functions of string.c do, on a memory of any size and bytes of *)
(* any width: StringsDoTheirWork is an invariant of StringsSpec.  A loop is*)
(* Exit, the first index at which its condition fails, and FirstStop says  *)
(* that it is reached; from there each function has a lemma of its own (the*)
(* ones that write, the ones that compare, the ones that search), and the  *)
(* series of strtok an invariant, Series.                                  *)
(*                                                                         *)
(* And what serial.c writes, for any formats of the pieces it knows, any   *)
(* numbers and any number of lines: LineIsRight and StaysInside are        *)
(* invariants of SerialSpec.  The digits that the conversions store are the*)
(* places of the number (DigitsSound), so what is written for a directive  *)
(* is its numeral; the inductive invariant, SerialInv, says that the line  *)
(* so far is its id and what is shown for the pieces passed, that the      *)
(* arguments left are those of the pieces ahead, and that the cache of     *)
(* serial_i2s holds its value's numeral.                                   *)
(***************************************************************************)
EXTENDS Serial, Strings, SequenceTheorems, FiniteSetTheorems, WellFoundedInduction, TLAPS

-----------------------------------------------------------------------------
(* The functions of string.c.                                              *)

LEMMA LeastOf ==
  ASSUME NEW set \in SUBSET Nat, set # {}
  PROVE  \E i \in set : \A j \in set : i <= j
  <1>1. PICK i \in set : \A j \in set : ~(<<j, i>> \in OpToRel(<, Nat))
    BY NatLessThanWellFounded, WFMin
  <1>2. \A j \in Nat, k \in Nat : <<j, k>> \in OpToRel(<, Nat) <=> j < k
    BY DEF OpToRel
  <1>3. \A j \in Nat, k \in Nat : ~(j < k) => k <= j
    OBVIOUS
  <1> QED BY <1>1, <1>2, <1>3

(* A loop that meets its end within the memory stops there.                *)
LEMMA FirstStop ==
  ASSUME NEW stop, NEW i \in stop, i \in 0 .. Top + 1
  PROVE  \E e \in 0 .. i : e \in stop /\ \A j \in 0 .. e - 1 : j \notin stop
  <1> DEFINE set == stop \cap (0 .. Top + 1)
  <1>1. PICK e \in set : \A j \in set : e <= j
    <2>1. set \in SUBSET Nat /\ set # {}
      OBVIOUS
    <2> HIDE DEF set
    <2> QED BY <2>1, LeastOf
  <1>2. e \in 0 .. i /\ e \in stop
    BY <1>1
  <1>3. ASSUME NEW j \in 0 .. e - 1, j \in stop PROVE FALSE
    BY <1>1, <1>2, <1>3, StringsAssumption
  <1> QED BY <1>2, <1>3

(* A NUL-terminated string at address a.                                   *)
StringAt(m, a) ==
    m \in [Cells -> Byte] /\ a \in Cells /\ \E b \in Cells : b >= a /\ m[b] = 0

LEMMA StrlenIs ==
  ASSUME NEW m, NEW a, StringAt(m, a)
  PROVE  /\ m \in [Cells -> Byte] /\ a \in Cells /\ a \in Nat
         /\ strlen(m, a) \in Nat /\ strlen(m, a) \in 0 .. Top + 1
         /\ a + strlen(m, a) \in Cells /\ a + strlen(m, a) \in Nat
         /\ m[a + strlen(m, a)] = 0
         /\ \A j \in 0 .. strlen(m, a) - 1 : m[a + j] # 0
  <1> DEFINE stop == {i \in 0 .. Top + 1 : m[a + i] = 0}
  <1>1. PICK b \in Cells : b >= a /\ m[b] = 0
    BY DEF StringAt
  <1>2. b - a \in stop
    BY <1>1, StringsAssumption DEF StringAt, Cells
  <1>3. PICK e \in 0 .. b - a : e \in stop /\ \A j \in 0 .. e - 1 : j \notin stop
    BY <1>2, FirstStop
  <1>4. e \in 0 .. Top + 1 /\ ~(m[a + e] # 0) /\ \A j \in 0 .. e - 1 : m[a + j] # 0
    BY <1>3, StringsAssumption
  <1>5. /\ strlen(m, a) \in 0 .. Top + 1
        /\ ~(m[a + strlen(m, a)] # 0)
        /\ \A j \in 0 .. strlen(m, a) - 1 : m[a + j] # 0
    BY <1>4 DEF strlen, Exit
  <1>6. strlen(m, a) <= b - a
    BY <1>1, <1>5, StringsAssumption DEF StringAt, Cells
  <1> QED BY <1>1, <1>5, <1>6, StringsAssumption DEF StringAt, Cells

CopyStep(now, d, s, i) == [now EXCEPT ![d + i] = now[s + i]]

(* What is copied is what any account f of the loop's steps ends with.     *)
LEMMA CopyIs ==
  ASSUME NEW m, NEW d, NEW s, NEW order \in Seq(Nat), NEW f, f[0] = m,
         \A k \in 1 .. Len(order) : f[k] = CopyStep(f[k - 1], d, s, order[k])
  PROVE  CopyBytes(m, d, s, order) = f[Len(order)]
  <1> DEFINE n == Len(order)
             Step(now, k) == CopyStep(now, d, s, order[k])
             Fixed(g) == g = [k \in 0 .. n |-> IF k = 0 THEN m ELSE Step(g[k - 1], k)]
             h == [k \in 0 .. n |-> f[k]]
             now == CHOOSE g : Fixed(g)
  <1>1. CopyBytes(m, d, s, order) = now[n]
    BY DEF CopyBytes, CopyStep
  <1>2. \A k \in 1 .. n : f[k] = Step(f[k - 1], k)
    OBVIOUS
  <1>3. n \in Nat
    OBVIOUS
  <1> HIDE DEF Step
  <1>4. Fixed(h)
    <2>1. ASSUME NEW k \in 0 .. n
          PROVE  h[k] = IF k = 0 THEN m ELSE Step(h[k - 1], k)
      <3>1. h[k] = f[k] /\ (k # 0 => h[k - 1] = f[k - 1] /\ k \in 1 .. n)
        BY <1>3
      <3> HIDE DEF h
      <3> QED BY <1>2, <3>1
    <2>2. h = [k \in 0 .. n |-> h[k]]
      OBVIOUS
    <2> HIDE DEF h
    <2> QED BY <2>1, <2>2
  <1>5. Fixed(now)
    <2> HIDE DEF Fixed
    <2> QED BY <1>4
  <1>6. /\ now[0] = m
        /\ \A k \in 1 .. n : now[k] = Step(now[k - 1], k)
    <2> HIDE DEF now
    <2>1. \A k \in 0 .. n : now[k] = IF k = 0 THEN m ELSE Step(now[k - 1], k)
      BY <1>5
    <2> QED BY <1>3, <2>1
  <1> HIDE DEF now, n
  <1> DEFINE Bad == {k \in 0 .. n : now[k] # f[k]}
  <1>7. Bad = {}
    <2> SUFFICES ASSUME Bad # {} PROVE FALSE
      OBVIOUS
    <2>1. PICK k \in Bad : \A j \in Bad : k <= j
      <3>1. Bad \in SUBSET Nat
        BY <1>3
      <3> HIDE DEF Bad
      <3> QED BY <3>1, LeastOf
    <2>2. k \in 0 .. n /\ now[k] # f[k]
      OBVIOUS
    <2>3. k \in 1 .. n /\ k - 1 \in 0 .. n
      BY <1>3, <1>6, <2>2
    <2>4. now[k - 1] = f[k - 1]
      <3>1. ~(k <= k - 1)
        BY <2>3
      <3>2. k - 1 \notin Bad
        <4> HIDE DEF Bad
        <4> QED BY <2>1, <3>1
      <3> QED BY <2>3, <3>2
    <2> HIDE DEF Bad
    <2> QED BY <1>2, <1>6, <2>2, <2>3, <2>4 DEF n
  <1> QED BY <1>1, <1>3, <1>7 DEF n

(* n bytes from s on have got to d.                                        *)
Copied(m, d, s, n) == [a \in Cells |-> IF a \in d .. d + n - 1 THEN m[s + (a - d)] ELSE m[a]]

InRoom(d, s, n) ==
    /\ d \in Cells /\ s \in Cells /\ n \in Nat
    /\ d + n - 1 <= Top /\ s + n - 1 <= Top

LEMMA CopyUp ==
  ASSUME NEW m \in [Cells -> Byte], NEW d, NEW s, NEW n, InRoom(d, s, n),
         s > d \/ s + n <= d \/ n = 0
  PROVE  CopyBytes(m, d, s, Upwards(n)) = Copied(m, d, s, n)
  <1> DEFINE f == [k \in 0 .. n |-> Copied(m, d, s, k)]
             order == Upwards(n)
  <1>1. /\ order \in Seq(Nat) /\ Len(order) = n
        /\ \A k \in 1 .. n : order[k] = k - 1
    BY DEF Upwards, InRoom
  <1>2. f[0] = m
    BY DEF Copied, InRoom, Cells
  <1>3. ASSUME NEW k \in 1 .. n
        PROVE  f[k] = CopyStep(f[k - 1], d, s, order[k])
    <2>1. f[k] = Copied(m, d, s, k) /\ f[k - 1] = Copied(m, d, s, k - 1)
      BY DEF InRoom
    <2>2. Copied(m, d, s, k - 1)[s + (k - 1)] = m[s + (k - 1)]
      BY StringsAssumption DEF Copied, InRoom, Cells
    <2>3. Copied(m, d, s, k) = [Copied(m, d, s, k - 1) EXCEPT ![d + (k - 1)] = m[s + (k - 1)]]
      <3> DEFINE c == Copied(m, d, s, k - 1)
                 e == Copied(m, d, s, k)
      <3>1. /\ c = [a \in Cells |-> c[a]] /\ e = [a \in Cells |-> e[a]]
            /\ d + (k - 1) \in Cells
        BY StringsAssumption DEF Copied, InRoom, Cells
      <3>2. ASSUME NEW a \in Cells
            PROVE  e[a] = IF a = d + (k - 1) THEN m[s + (k - 1)] ELSE c[a]
        BY StringsAssumption DEF Copied, InRoom, Cells
      <3> HIDE DEF c, e
      <3>3. e = [c EXCEPT ![d + (k - 1)] = m[s + (k - 1)]]
        BY <3>1, <3>2
      <3> QED BY <3>3 DEF c, e
    <2> HIDE DEF f, order
    <2> QED BY <1>1, <2>1, <2>2, <2>3 DEF CopyStep
  <1> HIDE DEF f, order
  <1>4. CopyBytes(m, d, s, order) = f[n]
    <2>1. \A k \in 1 .. Len(order) :
             f[k] = CopyStep(f[k - 1], d, s, order[k])
      BY <1>1, <1>3
    <2>2. order \in Seq(Nat)
      BY <1>1
    <2>3. CopyBytes(m, d, s, order) = f[Len(order)]
      BY <1>2, <2>1, <2>2, CopyIs
    <2> QED BY <1>1, <2>3
  <1> QED BY <1>4 DEF f, order, InRoom

LEMMA CopyDown ==
  ASSUME NEW m \in [Cells -> Byte], NEW d, NEW s, NEW n, InRoom(d, s, n), s < d
  PROVE  CopyBytes(m, d, s, Downwards(n)) = Copied(m, d, s, n)
  <1> DEFINE Moved(k) == Copied(m, d + (n - k), s + (n - k), k)
             f == [k \in 0 .. n |-> Moved(k)]
             order == Downwards(n)
  <1>1. /\ order \in Seq(Nat) /\ Len(order) = n
        /\ \A k \in 1 .. n : order[k] = n - k
    BY DEF Downwards, InRoom
  <1>2. f[0] = m
    BY DEF Copied, InRoom, Cells
  <1>3. ASSUME NEW k \in 1 .. n
        PROVE  f[k] = CopyStep(f[k - 1], d, s, order[k])
    <2>1. f[k] = Moved(k) /\ f[k - 1] = Moved(k - 1)
      BY DEF InRoom
    <2>2. Moved(k - 1)[s + (n - k)] = m[s + (n - k)]
      BY StringsAssumption DEF Copied, InRoom, Cells
    <2>3. Moved(k) = [Moved(k - 1) EXCEPT ![d + (n - k)] = m[s + (n - k)]]
      <3> DEFINE c == Moved(k - 1)
                 e == Moved(k)
      <3>1. /\ c = [a \in Cells |-> c[a]] /\ e = [a \in Cells |-> e[a]]
            /\ d + (n - k) \in Cells
        BY StringsAssumption DEF Copied, InRoom, Cells
      <3>2. ASSUME NEW a \in Cells
            PROVE  e[a] = IF a = d + (n - k) THEN m[s + (n - k)] ELSE c[a]
        BY StringsAssumption DEF Copied, InRoom, Cells
      <3> HIDE DEF c, e
      <3>3. e = [c EXCEPT ![d + (n - k)] = m[s + (n - k)]]
        BY <3>1, <3>2
      <3> QED BY <3>3 DEF c, e
    <2> HIDE DEF f, order, Moved
    <2> QED BY <1>1, <2>1, <2>2, <2>3 DEF CopyStep
  <1> HIDE DEF f, order
  <1>4. CopyBytes(m, d, s, order) = f[n]
    <2>1. \A k \in 1 .. Len(order) :
             f[k] = CopyStep(f[k - 1], d, s, order[k])
      BY <1>1, <1>3
    <2>2. order \in Seq(Nat)
      BY <1>1
    <2>3. CopyBytes(m, d, s, order) = f[Len(order)]
      BY <1>2, <2>1, <2>2, CopyIs
    <2> QED BY <1>1, <2>3
  <1>5. Moved(n) = Copied(m, d, s, n)
    <2>1. d + (n - n) = d /\ s + (n - n) = s
      BY DEF InRoom, Cells
    <2> QED BY <2>1
  <1> QED BY <1>4, <1>5 DEF f, order, InRoom

LEMMA MinOf ==
  ASSUME NEW a \in Int, NEW b \in Int
  PROVE  Min({a, b}) = IF a <= b THEN a ELSE b
  <1>1. \E x \in {a, b} : \A y \in {a, b} : x <= y
    OBVIOUS
  <1>2. Min({a, b}) \in {a, b} /\ \A y \in {a, b} : Min({a, b}) <= y
    BY <1>1 DEF Min
  <1> QED BY <1>2

LEMMA MinIs ==
  ASSUME NEW set \in SUBSET Nat, set # {}
  PROVE  Min(set) \in set /\ \A y \in set : Min(set) <= y
  <1>1. \E x \in set : \A y \in set : x <= y
    BY LeastOf
  <1> QED BY <1>1 DEF Min

(* A string is the bytes up to its terminator.                             *)
LEMMA TextIs ==
  ASSUME NEW m, NEW a, StringAt(m, a)
  PROVE  /\ Text(m, a) = Slice(m, a, strlen(m, a))
         /\ Text(m, a) \in Seq(Byte \ {0})
         /\ Len(Text(m, a)) = strlen(m, a)
         /\ \A i \in 1 .. strlen(m, a) : Text(m, a)[i] = m[a + i - 1]
  <1> DEFINE l == strlen(m, a)
             ends == {b \in a .. Top : m[b] = 0}
  <1>1. /\ l \in Nat /\ a + l \in Cells /\ m[a + l] = 0
        /\ \A j \in 0 .. l - 1 : m[a + j] # 0
    BY StrlenIs
  <1>2. a \in Nat /\ m \in [Cells -> Byte]
    BY StringsAssumption DEF StringAt, Cells
  <1> HIDE DEF l
  <1>3. Min(ends) = a + l
    <2>1. ends \in SUBSET Nat /\ a + l \in ends
      BY <1>1, <1>2, StringsAssumption DEF Cells
    <2>2. Min(ends) \in ends /\ Min(ends) <= a + l
      <3> HIDE DEF ends
      <3> QED BY <2>1, MinIs
    <2>3. ~(Min(ends) < a + l)
      <3> SUFFICES ASSUME Min(ends) < a + l PROVE FALSE
        OBVIOUS
      <3>1. Min(ends) - a \in 0 .. l - 1 /\ a + (Min(ends) - a) = Min(ends)
        BY <1>1, <1>2, <2>2
      <3>2. m[Min(ends)] # 0
        BY <1>1, <3>1
      <3> QED BY <2>2, <3>2
    <2> QED BY <1>1, <1>2, <2>2, <2>3
  <1>4. Text(m, a) = Slice(m, a, l)
    BY <1>1, <1>2, <1>3 DEF Text
  <1>5. \A i \in 1 .. l : m[a + i - 1] \in Byte \ {0}
    <2> SUFFICES ASSUME NEW i \in 1 .. l PROVE m[a + i - 1] \in Byte \ {0}
      OBVIOUS
    <2>1. i - 1 \in 0 .. l - 1 /\ a + (i - 1) = a + i - 1 /\ a + i - 1 \in Cells
      BY <1>1, <1>2, StringsAssumption DEF Cells
    <2> QED BY <1>1, <1>2, <2>1
  <1>6. /\ Slice(m, a, l) \in Seq(Byte \ {0}) /\ Len(Slice(m, a, l)) = l
        /\ \A i \in 1 .. l : Slice(m, a, l)[i] = m[a + i - 1]
    BY <1>1, <1>5 DEF Slice
  <1> QED BY <1>4, <1>6 DEF l

(* The shorter of a string and n: where the loops with a count stop.       *)
Shorter(n, l) == IF n <= l THEN n ELSE l

LEMMA CountedStop ==
  ASSUME NEW m, NEW a, StringAt(m, a), NEW n \in Nat
  PROVE  Exit(LAMBDA j : j < n /\ m[a + j] # 0) = Shorter(n, strlen(m, a))
  <1> DEFINE l == strlen(m, a)
             k == Shorter(n, l)
             e == Exit(LAMBDA j : j < n /\ m[a + j] # 0)
  <1>1. /\ l \in Nat /\ a + l \in Cells /\ m[a + l] = 0
        /\ \A j \in 0 .. l - 1 : m[a + j] # 0
    BY StrlenIs
  <1>2. a \in Nat
    BY StringsAssumption DEF StringAt, Cells
  <1> HIDE DEF l
  <1>3. /\ k \in 0 .. Top + 1 /\ ~(k < n /\ m[a + k] # 0)
        /\ \A j \in 0 .. k - 1 : j < n /\ m[a + j] # 0
    BY <1>1, <1>2, StringsAssumption DEF Shorter, Cells
  <1>4. /\ e \in 0 .. Top + 1 /\ ~(e < n /\ m[a + e] # 0)
        /\ \A j \in 0 .. e - 1 : j < n /\ m[a + j] # 0
    <2> HIDE DEF k
    <2> QED BY <1>3 DEF Exit
  <1> HIDE DEF e, k
  <1>5. e = k
    BY <1>3, <1>4, StringsAssumption
  <1> QED BY <1>5 DEF e, k, l

-----------------------------------------------------------------------------
(* Memory m in which the bytes from d on have become w.                    *)
With(m, d, w) ==
    [a \in Cells |-> IF a \in d .. d + Len(w) - 1 THEN w[a - d + 1] ELSE m[a]]

LEMMA WithIs ==
  ASSUME NEW m, NEW d, NEW w, NEW r,
         r = [a \in Cells |-> r[a]],
         \A a \in Cells : r[a] = IF a \in d .. d + Len(w) - 1 THEN w[a - d + 1] ELSE m[a]
  PROVE  r = With(m, d, w)
  BY DEF With

LEMMA SliceIs ==
  ASSUME NEW m, NEW a, NEW n \in Nat
  PROVE  /\ Len(Slice(m, a, n)) = n
         /\ \A i \in 1 .. n : Slice(m, a, n)[i] = m[a + i - 1]
  BY DEF Slice

LEMMA MovesAre ==
  ASSUME NEW m \in [Cells -> Byte], NEW d, NEW s, NEW n, InRoom(d, s, n)
  PROVE  /\ memmove(m, d, s, n) = With(m, d, Slice(m, s, n))
         /\ Apart(d, s, n) => memcpy(m, d, s, n) = With(m, d, Slice(m, s, n))
         /\ (s + n <= d \/ s > d) => memcpy(m, d, s, n) = Copied(m, d, s, n)
  <1>1. Copied(m, d, s, n) = With(m, d, Slice(m, s, n))
    <2>1. ASSUME NEW a \in Cells, a \in d .. d + n - 1
          PROVE  Slice(m, s, n)[a - d + 1] = m[s + (a - d)]
      <3>1. a - d + 1 \in 1 .. n /\ s + (a - d + 1) - 1 = s + (a - d)
        BY <2>1 DEF InRoom, Cells
      <3> QED BY <3>1, SliceIs DEF InRoom
    <2>2. Len(Slice(m, s, n)) = n
      BY SliceIs DEF InRoom
    <2> QED BY <2>1, <2>2 DEF Copied, With
  <1>2. CASE s > d
    BY <1>1, <1>2, CopyUp DEF memmove, memcpy, InRoom, Cells
  <1>3. CASE s < d
    <2>1. memmove(m, d, s, n) = Copied(m, d, s, n)
      BY <1>3, CopyDown DEF memmove, InRoom, Cells
    <2>2. s + n <= d \/ n = 0 => memcpy(m, d, s, n) = Copied(m, d, s, n)
      BY <1>3, CopyUp DEF memcpy
    <2>3. Apart(d, s, n) => s + n <= d \/ n = 0
      BY <1>3 DEF Apart, InRoom, Cells
    <2>4. s > d => s + n <= d
      BY <1>3 DEF InRoom, Cells
    <2> QED BY <1>1, <2>1, <2>2, <2>3, <2>4
  <1>4. CASE s = d
    <2>1. memmove(m, d, s, n) = m
      BY <1>4 DEF memmove, InRoom, Cells
    <2>2. Copied(m, d, s, n) = m
      <3>1. \A a \in Cells : s + (a - d) = a
        BY <1>4 DEF InRoom, Cells
      <3> QED BY <3>1 DEF Copied
    <2>3. s + n <= d \/ s > d \/ Apart(d, s, n) => n = 0
      BY <1>4 DEF InRoom, Cells, Apart
    <2>4. n = 0 => memcpy(m, d, s, n) = Copied(m, d, s, n)
      BY CopyUp DEF memcpy
    <2> QED BY <1>1, <2>1, <2>2, <2>3, <2>4
  <1> QED BY <1>2, <1>3, <1>4 DEF InRoom, Cells

LEMMA MemsetIs ==
  ASSUME NEW m \in [Cells -> Byte], NEW d \in Nat, NEW c, NEW n \in Nat
  PROVE  memset(m, d, c, n) = With(m, d, [i \in 1 .. n |-> c % Bytes])
  <1> DEFINE w == [i \in 1 .. n |-> c % Bytes]
  <1>1. Len(w) = n /\ \A i \in 1 .. n : w[i] = c % Bytes
    OBVIOUS
  <1>2. \A a \in Cells : a \in d .. d + n - 1 => a - d + 1 \in 1 .. n
    BY DEF Cells
  <1> HIDE DEF w
  <1>3. memset(m, d, c, n) = With(m, d, w)
    BY <1>1, <1>2 DEF memset, With
  <1> QED BY <1>3 DEF w

LEMMA FirstOfIs ==
  ASSUME NEW t \in Seq(Byte), NEW n \in Nat
  PROVE  /\ FirstOf(t, n) \in Seq(Byte)
         /\ Len(FirstOf(t, n)) = Shorter(n, Len(t))
         /\ \A i \in 1 .. Shorter(n, Len(t)) : FirstOf(t, n)[i] = t[i]
  <1> DEFINE k == Shorter(n, Len(t))
  <1>1. FirstOf(t, n) = SubSeq(t, 1, k)
    BY MinOf DEF FirstOf, Shorter
  <1>2. k \in 0 .. Len(t)
    BY DEF Shorter
  <1>3. \A i \in 1 .. k : t[i] \in Byte
    BY <1>2
  <1> HIDE DEF k
  <1>4. /\ SubSeq(t, 1, k) \in Seq(Byte) /\ Len(SubSeq(t, 1, k)) = k
        /\ \A i \in 1 .. k : SubSeq(t, 1, k)[i] = t[i]
    BY <1>2, <1>3
  <1> QED BY <1>1, <1>4 DEF k

LEMMA ZerosAre ==
  ASSUME NEW n \in Nat
  PROVE  /\ Zeros(n) \in Seq(Byte) /\ Len(Zeros(n)) = n
         /\ \A i \in 1 .. n : Zeros(n)[i] = 0
  BY StringsAssumption DEF Zeros, Byte

LEMMA Joined ==
  ASSUME NEW t \in Seq(Byte), NEW u \in Seq(Byte), NEW w \in Seq(Byte)
  PROVE  t \o (u \o w) = t \o u \o w
  OBVIOUS

(* What is written behind a string.                                        *)
LEMMA WithBehind ==
  ASSUME NEW m, NEW d, StringAt(m, d), NEW w \in Seq(Byte)
  PROVE  With(m, d + strlen(m, d), w) = With(m, d, Text(m, d) \o w)
  <1> DEFINE l == strlen(m, d)
             t == Text(m, d)
             r == With(m, d + l, w)
  <1>1. l \in Nat /\ d \in Nat /\ m \in [Cells -> Byte] /\ Len(w) \in Nat
    BY StrlenIs, StringsAssumption DEF StringAt, Cells
  <1>2. t \in Seq(Byte) /\ Len(t) = l /\ \A i \in 1 .. l : t[i] = m[d + i - 1]
    BY TextIs
  <1> HIDE DEF l, t
  <1>3. /\ Len(t \o w) = l + Len(w)
        /\ \A i \in 1 .. l + Len(w) : (t \o w)[i] = IF i <= l THEN t[i] ELSE w[i - l]
    <2> DEFINE j == t \o w
    <2>1. t \in Seq(Byte) /\ w \in Seq(Byte)
      BY <1>2
    <2>2. /\ Len(j) = Len(t) + Len(w)
          /\ \A i \in 1 .. Len(t) + Len(w) : j[i] = IF i <= Len(t) THEN t[i] ELSE w[i - Len(t)]
      BY <2>1, ConcatProperties
    <2> HIDE DEF j
    <2>3. /\ Len(j) = l + Len(w)
          /\ \A i \in 1 .. l + Len(w) : j[i] = IF i <= l THEN t[i] ELSE w[i - l]
      BY <1>2, <2>2
    <2> QED BY <2>3 DEF j
  <1>4. ASSUME NEW a \in Cells
        PROVE  r[a] = IF a \in d .. d + Len(t \o w) - 1 THEN (t \o w)[a - d + 1] ELSE m[a]
    <2>1. r[a] = IF a \in d + l .. d + l + Len(w) - 1 THEN w[a - (d + l) + 1] ELSE m[a]
      BY DEF With
    <2>2. a \in Int
      BY DEF Cells
    <2> HIDE DEF r
    <2>3. CASE a \in d .. d + l - 1
      <3>1. a - d + 1 \in 1 .. l /\ d + (a - d + 1) - 1 = a
        BY <1>1, <2>2, <2>3
      <3>2. (t \o w)[a - d + 1] = m[a]
        BY <1>1, <1>2, <1>3, <3>1
      <3> QED BY <1>1, <1>2, <1>3, <2>1, <2>2, <2>3, <3>2
    <2>4. CASE a \in d + l .. d + l + Len(w) - 1
      <3>1. PICK i \in 1 .. l + Len(w) :
                 i = a - d + 1 /\ ~(i <= l) /\ i - l = a - (d + l) + 1
        BY <1>1, <2>2, <2>4
      <3>2. (t \o w)[a - d + 1] = w[a - (d + l) + 1]
        BY <1>3, <3>1
      <3> QED BY <1>1, <1>3, <2>1, <2>2, <2>4, <3>2
    <2>5. CASE ~(a \in d .. d + l + Len(w) - 1)
      BY <1>1, <1>3, <2>1, <2>2, <2>5
    <2> QED BY <1>1, <2>2, <2>3, <2>4, <2>5
  <1>5. r = [a \in Cells |-> r[a]]
    BY DEF With
  <1> DEFINE x == t \o w
  <1>6. \A a \in Cells : r[a] = IF a \in d .. d + Len(x) - 1 THEN x[a - d + 1] ELSE m[a]
    BY <1>4
  <1> HIDE DEF r, x
  <1>7. r = With(m, d, x)
    BY <1>5, <1>6, WithIs
  <1> QED BY <1>7 DEF r, t, l, x

LEMMA StrcpyIs ==
  ASSUME NEW m, NEW d, NEW s, StringAt(m, s),
         InRoom(d, s, strlen(m, s) + 1), Apart(d, s, strlen(m, s) + 1)
  PROVE  strcpy(m, d, s) = With(m, d, Text(m, s) \o Zeros(1))
  <1> DEFINE l == strlen(m, s)
             u == Text(m, s)
             w == u \o Zeros(1)
             v == Slice(m, s, l + 1)
  <1>1. /\ l \in Nat /\ m[s + l] = 0 /\ s \in Nat /\ m \in [Cells -> Byte]
    BY StrlenIs, StringsAssumption DEF StringAt, Cells
  <1>2. u \in Seq(Byte) /\ Len(u) = l /\ \A i \in 1 .. l : u[i] = m[s + i - 1]
    BY TextIs
  <1>3. strcpy(m, d, s) = With(m, d, v)
    BY <1>1, MovesAre DEF strcpy, memcpy
  <1>4. Len(v) = l + 1 /\ \A i \in 1 .. l + 1 : v[i] = m[s + i - 1]
    BY <1>1, SliceIs
  <1> HIDE DEF l, u, v
  <1>5. /\ Len(w) = l + 1
        /\ \A i \in 1 .. l + 1 : w[i] = IF i <= l THEN u[i] ELSE Zeros(1)[i - l]
    BY <1>1, <1>2, ZerosAre
  <1> HIDE DEF w
  <1>6. ASSUME NEW i \in 1 .. l + 1 PROVE v[i] = w[i]
    <2>1. CASE i <= l
      BY <1>1, <1>2, <1>4, <1>5, <2>1
    <2>2. CASE ~(i <= l)
      <3>1. i = l + 1 /\ i - l = 1 /\ s + i - 1 = s + l
        BY <1>1, <2>2
      <3> QED BY <1>1, <1>4, <1>5, <2>2, <3>1, ZerosAre
    <2> QED BY <2>1, <2>2
  <1>7. \A a \in Cells : a \in d .. d + (l + 1) - 1 => a - d + 1 \in 1 .. l + 1
    BY <1>1 DEF Cells, InRoom, l
  <1>8. With(m, d, v) = With(m, d, w)
    BY <1>4, <1>5, <1>6, <1>7 DEF With
  <1> QED BY <1>3, <1>8 DEF w, u

LEMMA StrncpyIs ==
  ASSUME NEW m, NEW d, NEW s, NEW n, StringAt(m, s), d \in Cells, n \in Nat, d + n - 1 <= Top,
         d + n <= s \/ s + strlen(m, s) < d
  PROVE  strncpy(m, d, s, n) = With(m, d, FirstOf(Text(m, s) \o Zeros(n), n))
  <1> DEFINE l == strlen(m, s)
             u == Text(m, s)
             k == Shorter(n, l)
             c == Copied(m, d, s, k)
             z == [i \in 1 .. n - k |-> 0 % Bytes]
             r == With(c, d + k, z)
             w == FirstOf(u \o Zeros(n), n)
  <1>1. /\ l \in Nat /\ s + l \in Cells /\ s \in Cells /\ d \in Nat
        /\ s \in Nat /\ m \in [Cells -> Byte]
    BY StrlenIs, StringsAssumption DEF StringAt, Cells
  <1>2. u \in Seq(Byte) /\ Len(u) = l /\ \A i \in 1 .. l : u[i] = m[s + i - 1]
    BY TextIs
  <1>3. Exit(LAMBDA j : j < n /\ m[s + j] # 0) = k
    BY CountedStop
  <1>4. strncpy(m, d, s, n) = memset(memcpy(m, d, s, k), d + k, 0, n - k)
    BY <1>3 DEF strncpy
  <1>5. k \in Nat /\ k <= n /\ k <= l /\ n - k \in Nat /\ (k = n \/ k = l)
    BY <1>1 DEF Shorter
  <1>6. d + n <= s \/ s + l < d
    OBVIOUS
  <1> HIDE DEF l, u, k
  <1>7. memcpy(m, d, s, k) = c
    <2>1. InRoom(d, s, k)
      BY <1>1, <1>5, StringsAssumption DEF InRoom, Cells
    <2>2. s + k <= d \/ s > d
      BY <1>1, <1>5, <1>6
    <2> QED BY <1>1, <2>1, <2>2, MovesAre
  <1>8. c \in [Cells -> Byte]
    <2>1. ASSUME NEW a \in Cells, a \in d .. d + k - 1 PROVE s + (a - d) \in Cells
      BY <1>1, <1>5, <2>1, StringsAssumption DEF Cells
    <2> QED BY <1>1, <2>1 DEF Copied
  <1>9. strncpy(m, d, s, n) = r
    <2>1. d + k \in Nat
      BY <1>1, <1>5
    <2> HIDE DEF c
    <2> QED BY <1>4, <1>5, <1>7, <1>8, <2>1, MemsetIs
  <1>10. /\ w \in Seq(Byte) /\ Len(w) = n
         /\ \A i \in 1 .. n : w[i] = IF i <= k THEN m[s + i - 1] ELSE 0
    <2> DEFINE x == u \o Zeros(n)
    <2>1. /\ x \in Seq(Byte) /\ Len(x) = l + n
          /\ \A i \in 1 .. l + n : x[i] = IF i <= l THEN u[i] ELSE Zeros(n)[i - l]
      <3>1. u \in Seq(Byte) /\ Zeros(n) \in Seq(Byte) /\ Len(u) = l /\ Len(Zeros(n)) = n
        BY <1>2, ZerosAre
      <3> HIDE DEF u
      <3>2. Len(u \o Zeros(n)) = l + n /\ u \o Zeros(n) \in Seq(Byte)
        BY <3>1
      <3> QED BY <1>1, <3>1, <3>2, ConcatProperties
    <2> HIDE DEF x
    <2>2. Shorter(n, Len(x)) = n
      BY <1>1, <2>1 DEF Shorter
    <2>3. /\ w \in Seq(Byte) /\ Len(w) = n /\ \A i \in 1 .. n : w[i] = x[i]
      BY <2>1, <2>2, FirstOfIs DEF x
    <2> HIDE DEF w
    <2>4. ASSUME NEW i \in 1 .. n
          PROVE  x[i] = IF i <= k THEN m[s + i - 1] ELSE 0
      <3>1. i \in 1 .. l + n
        BY <1>1
      <3>2. CASE i <= k
        BY <1>1, <1>2, <1>5, <2>1, <3>1, <3>2
      <3>3. CASE ~(i <= k)
        <4>1. ~(i <= l) /\ i - l \in 1 .. n
          BY <1>1, <1>5, <3>3
        <4> QED BY <2>1, <3>1, <3>3, <4>1, ZerosAre
      <3> QED BY <3>2, <3>3
    <2> QED BY <2>3, <2>4
  <1>11. Len(z) = n - k /\ \A i \in 1 .. n - k : z[i] = 0
    <2>1. 0 % Bytes = 0
      BY StringsAssumption
    <2> QED BY <1>5, <2>1
  <1> HIDE DEF w, z
  <1>12. ASSUME NEW a \in Cells
         PROVE  r[a] = IF a \in d .. d + Len(w) - 1 THEN w[a - d + 1] ELSE m[a]
    <2>1. r[a] = IF a \in d + k .. d + k + (n - k) - 1 THEN z[a - (d + k) + 1] ELSE c[a]
      BY <1>11 DEF With
    <2>2. c[a] = IF a \in d .. d + k - 1 THEN m[s + (a - d)] ELSE m[a]
      BY DEF Copied
    <2>3. a \in Int
      BY DEF Cells
    <2> HIDE DEF r, c
    <2>4. CASE a \in d .. d + k - 1
      <3>1. a - d + 1 \in 1 .. n /\ a - d + 1 <= k /\ s + (a - d + 1) - 1 = s + (a - d)
        BY <1>1, <1>5, <2>3, <2>4
      <3>2. w[a - d + 1] = m[s + (a - d)]
        BY <1>10, <3>1
      <3> QED BY <1>1, <1>5, <1>10, <2>1, <2>2, <2>3, <2>4, <3>2
    <2>5. CASE a \in d + k .. d + n - 1
      <3>1. a - d + 1 \in 1 .. n /\ ~(a - d + 1 <= k) /\ a - (d + k) + 1 \in 1 .. n - k
        BY <1>1, <1>5, <2>3, <2>5
      <3>2. w[a - d + 1] = 0 /\ z[a - (d + k) + 1] = 0
        BY <1>10, <1>11, <3>1
      <3> QED BY <1>1, <1>5, <1>10, <2>1, <2>3, <2>5, <3>2
    <2>6. CASE ~(a \in d .. d + n - 1)
      BY <1>1, <1>5, <1>10, <2>1, <2>2, <2>3, <2>6
    <2> QED BY <1>1, <1>5, <2>3, <2>4, <2>5, <2>6
  <1>13. r = [a \in Cells |-> r[a]]
    BY DEF With
  <1> HIDE DEF r
  <1>14. r = With(m, d, w)
    BY <1>12, <1>13, WithIs
  <1> QED BY <1>9, <1>14 DEF w, u

LEMMA StrcatIs ==
  ASSUME NEW m, NEW d, NEW s, StringAt(m, d), StringAt(m, s), s + strlen(m, s) < d,
         d + strlen(m, d) + strlen(m, s) <= Top
  PROVE  strcat(m, d, s) = With(m, d, Text(m, d) \o Text(m, s) \o Zeros(1))
  <1> DEFINE e == d + strlen(m, d)
             t == Text(m, d)
             u == Text(m, s)
  <1>1. /\ strlen(m, s) \in Nat /\ strlen(m, d) \in Nat /\ e \in Cells
        /\ s \in Cells /\ d \in Nat /\ s \in Nat
        /\ s + strlen(m, s) \in Cells
    BY StrlenIs, StringsAssumption DEF StringAt, Cells
  <1>2. t \in Seq(Byte) /\ u \in Seq(Byte) /\ Zeros(1) \in Seq(Byte)
    BY TextIs, ZerosAre
  <1>3. strcpy(m, e, s) = With(m, e, u \o Zeros(1))
    <2>1. InRoom(e, s, strlen(m, s) + 1)
      BY <1>1, StringsAssumption DEF InRoom, Cells
    <2>2. Apart(e, s, strlen(m, s) + 1)
      BY <1>1 DEF Apart
    <2> HIDE DEF e
    <2> QED BY <2>1, <2>2, StrcpyIs
  <1> HIDE DEF t, u
  <1>4. With(m, e, u \o Zeros(1)) = With(m, d, t \o (u \o Zeros(1)))
    <2>1. u \o Zeros(1) \in Seq(Byte)
      BY <1>2
    <2> QED BY <2>1, WithBehind DEF t
  <1>5. t \o (u \o Zeros(1)) = t \o u \o Zeros(1)
    BY <1>2, Joined
  <1> QED BY <1>3, <1>4, <1>5 DEF strcat, t, u

LEMMA StrncatIs ==
  ASSUME NEW m, NEW d, NEW s, NEW n \in Nat, StringAt(m, d), StringAt(m, s),
         s + strlen(m, s) < d,
         d + strlen(m, d) + Shorter(n, strlen(m, s)) <= Top
  PROVE  strncat(m, d, s, n) = With(m, d, Text(m, d) \o FirstOf(Text(m, s), n) \o Zeros(1))
  <1> DEFINE l == strlen(m, s)
             k == Shorter(n, l)
             e == d + strlen(m, d)
             t == Text(m, d)
             u == Text(m, s)
             v == FirstOf(u, n)
             c == Copied(m, e, s, k)
             r == [c EXCEPT ![e + k] = 0]
             w == v \o Zeros(1)
  <1>1. /\ l \in Nat /\ strlen(m, d) \in Nat /\ e \in Cells /\ e \in Nat
        /\ s \in Cells /\ d \in Nat /\ s \in Nat /\ s + l \in Cells
        /\ m \in [Cells -> Byte] /\ d <= e
    <2>1. /\ m \in [Cells -> Byte] /\ s \in Cells /\ s \in Nat
          /\ l \in Nat /\ s + l \in Cells
      BY StrlenIs
    <2>2. d \in Nat /\ strlen(m, d) \in Nat /\ e \in Cells /\ e \in Nat
      BY StrlenIs
    <2>3. d <= e
      BY <2>2
    <2> QED BY <2>1, <2>2, <2>3
  <1>2. k \in Nat /\ k <= l /\ k <= n
    BY <1>1 DEF Shorter
  <1>3. s + l < d /\ e + k <= Top
    OBVIOUS
  <1>4. Exit(LAMBDA j : j < n /\ m[s + j] # 0) = k
    BY CountedStop
  <1>5. strncat(m, d, s, n) = [memcpy(m, e, s, k) EXCEPT ![e + k] = 0]
    BY <1>4 DEF strncat
  <1>6. u \in Seq(Byte) /\ Len(u) = l /\ \A i \in 1 .. l : u[i] = m[s + i - 1]
    BY TextIs
  <1>7. t \in Seq(Byte)
    BY TextIs
  <1> HIDE DEF l, u, t
  <1>8. v \in Seq(Byte) /\ Len(v) = k /\ \A i \in 1 .. k : v[i] = m[s + i - 1]
    <2>1. v \in Seq(Byte) /\ Len(v) = k /\ \A i \in 1 .. k : v[i] = u[i]
      BY <1>6, FirstOfIs
    <2> HIDE DEF v, k
    <2> QED BY <1>1, <1>2, <1>6, <2>1
  <1> HIDE DEF e, k, v
  <1>9. memcpy(m, e, s, k) = c
    <2>1. InRoom(e, s, k)
      BY <1>1, <1>2, <1>3, StringsAssumption DEF InRoom, Cells
    <2>2. s + k <= e \/ s > e
      BY <1>1, <1>2, <1>3
    <2> QED BY <1>1, <2>1, <2>2, MovesAre
  <1>10. /\ w \in Seq(Byte) /\ Len(w) = k + 1
         /\ \A i \in 1 .. k : w[i] = m[s + i - 1]
         /\ w[k + 1] = 0
    <2>1. /\ v \in Seq(Byte) /\ Zeros(1) \in Seq(Byte)
          /\ Len(v) = k /\ Len(Zeros(1)) = 1 /\ Zeros(1)[1] = 0
      <3>1. /\ Zeros(1) \in Seq(Byte) /\ Len(Zeros(1)) = 1
            /\ \A i \in 1 .. 1 : Zeros(1)[i] = 0
        BY ZerosAre
      <3> QED BY <1>8, <3>1
    <2>2. /\ w \in Seq(Byte) /\ Len(w) = k + 1
          /\ \A i \in 1 .. k + 1 : w[i] = IF i <= k THEN v[i] ELSE Zeros(1)[i - k]
      BY <1>2, <2>1, ConcatProperties
    <2> HIDE DEF w
    <2>3. w[k + 1] = 0
      <3>1. k + 1 \in 1 .. k + 1 /\ ~(k + 1 <= k) /\ (k + 1) - k = 1
        BY <1>2
      <3> QED BY <2>1, <2>2, <3>1
    <2> QED BY <1>2, <1>8, <2>2, <2>3
  <1> HIDE DEF w
  <1>11. ASSUME NEW a \in Cells
         PROVE  r[a] = IF a \in e .. e + Len(w) - 1 THEN w[a - e + 1] ELSE m[a]
    <2>1. r[a] = IF a = e + k THEN 0
                 ELSE IF a \in e .. e + k - 1 THEN m[s + (a - e)] ELSE m[a]
      BY DEF Copied
    <2>2. a \in Int
      BY DEF Cells
    <2> HIDE DEF r
    <2>3. CASE a = e + k
      <3>1. a - e + 1 = k + 1 /\ a \in e .. e + (k + 1) - 1
        BY <1>1, <1>2, <2>3
      <3> QED BY <1>10, <2>1, <2>3, <3>1
    <2>4. CASE a \in e .. e + k - 1
      <3>1. PICK i \in 1 .. k : i = a - e + 1 /\ s + i - 1 = s + (a - e)
        BY <1>1, <1>2, <2>2, <2>4
      <3>2. w[a - e + 1] = m[s + (a - e)]
        BY <1>10, <3>1
      <3>3. a # e + k /\ a \in e .. e + (k + 1) - 1
        BY <1>1, <1>2, <2>2, <2>4
      <3> QED BY <1>10, <2>1, <2>4, <3>2, <3>3
    <2>5. CASE ~(a \in e .. e + (k + 1) - 1)
      <3>1. a # e + k /\ ~(a \in e .. e + k - 1)
        BY <1>1, <1>2, <2>2, <2>5
      <3> QED BY <1>10, <2>1, <2>5, <3>1
    <2>6. a \in e .. e + (k + 1) - 1 => a = e + k \/ a \in e .. e + k - 1
      BY <1>1, <1>2, <2>2
    <2> QED BY <2>3, <2>4, <2>5, <2>6
  <1>12. r = [a \in Cells |-> r[a]]
    BY DEF Copied
  <1>13. r = With(m, e, w)
    <2> HIDE DEF r
    <2> QED BY <1>11, <1>12, WithIs
  <1>14. With(m, e, w) = With(m, d, t \o w)
    BY <1>10, WithBehind DEF t, e
  <1>15. t \o w = t \o v \o Zeros(1)
    <2>1. t \in Seq(Byte) /\ v \in Seq(Byte) /\ Zeros(1) \in Seq(Byte)
      BY <1>7, <1>8, ZerosAre
    <2> QED BY <2>1, Joined DEF w
  <1> QED BY <1>5, <1>9, <1>13, <1>14, <1>15 DEF t, u, v

(* Two sequences compare as they do where they first differ.               *)
LEMMA CompareAt ==
  ASSUME NEW t \in Seq(Byte), NEW u \in Seq(Byte), NEW k \in Nat,
         k <= Len(t), k <= Len(u), \A i \in 1 .. k : t[i] = u[i],
         k = Len(t) \/ k = Len(u) \/ t[k + 1] # u[k + 1]
  PROVE  /\ Less(t, u) <=> k < Len(u) /\ (k = Len(t) \/ t[k + 1] < u[k + 1])
         /\ t = u <=> k = Len(t) /\ k = Len(u)
  <1> DEFINE least == Min({Len(t), Len(u)})
  <1>1. /\ Len(t) \in Nat /\ Len(u) \in Nat
        /\ \A i \in 1 .. Len(t) : t[i] \in Nat
        /\ \A i \in 1 .. Len(u) : u[i] \in Nat
    <2>1. \A i \in 1 .. Len(t) : t[i] \in Byte
      OBVIOUS
    <2>2. \A i \in 1 .. Len(u) : u[i] \in Byte
      OBVIOUS
    <2>3. \A b \in Byte : b \in Nat
      BY StringsAssumption DEF Byte
    <2> QED BY <2>1, <2>2, <2>3
  <1>2. least = Shorter(Len(t), Len(u))
    <2>1. Len(t) \in Int /\ Len(u) \in Int
      BY <1>1
    <2>2. least = IF Len(t) <= Len(u) THEN Len(t) ELSE Len(u)
      BY <2>1, MinOf
    <2> HIDE DEF least
    <2> QED BY <2>2 DEF Shorter
  <1>3. \A j \in 0 .. least : j \in Nat /\ j <= Len(t) /\ j <= Len(u)
    BY <1>1, <1>2 DEF Shorter
  <1> HIDE DEF least
  <1>4. ASSUME NEW j \in 0 .. least
        PROVE  SubSeq(t, 1, j) = SubSeq(u, 1, j) <=> \A i \in 1 .. j : t[i] = u[i]
    <2>1. /\ Len(SubSeq(t, 1, j)) = j /\ \A i \in 1 .. j : SubSeq(t, 1, j)[i] = t[i]
          /\ Len(SubSeq(u, 1, j)) = j /\ \A i \in 1 .. j : SubSeq(u, 1, j)[i] = u[i]
          /\ SubSeq(t, 1, j) \in Seq(Byte) /\ SubSeq(u, 1, j) \in Seq(Byte)
      BY <1>1, <1>3
    <2>2. ASSUME \A i \in 1 .. j : t[i] = u[i]
          PROVE  SubSeq(t, 1, j) = SubSeq(u, 1, j)
      BY <2>1, <2>2, SeqEqual
    <2>3. ASSUME SubSeq(t, 1, j) = SubSeq(u, 1, j)
          PROVE  \A i \in 1 .. j : t[i] = u[i]
      BY <2>1, <2>3
    <2> QED BY <2>2, <2>3
  <1>5. k \in 0 .. least
    BY <1>1, <1>2 DEF Shorter
  <1>6. ASSUME Less(t, u) PROVE k < Len(u) /\ (k = Len(t) \/ t[k + 1] < u[k + 1])
    <2>1. PICK j \in 0 .. least :
             /\ \A i \in 1 .. j : t[i] = u[i]
             /\ j < Len(u)
             /\ j = Len(t) \/ t[j + 1] < u[j + 1]
      BY <1>4, <1>6 DEF Less, least
    <2>2. ~(j < k)
      <3> SUFFICES ASSUME j < k PROVE FALSE
        OBVIOUS
      <3>1. j + 1 \in 1 .. k /\ j # Len(t) /\ j + 1 \in 1 .. Len(t) /\ j + 1 \in 1 .. Len(u)
        BY <1>1, <1>3
      <3> QED BY <1>1, <2>1, <3>1
    <2>3. ~(k < j)
      <3> SUFFICES ASSUME k < j PROVE FALSE
        OBVIOUS
      <3>1. k + 1 \in 1 .. j /\ k # Len(t) /\ k # Len(u)
        BY <1>1, <1>3
      <3> QED BY <2>1, <3>1
    <2>4. j = k
      BY <1>3, <2>2, <2>3
    <2> QED BY <2>1, <2>4
  <1>7. ASSUME k < Len(u) /\ (k = Len(t) \/ t[k + 1] < u[k + 1]) PROVE Less(t, u)
    BY <1>4, <1>5, <1>7 DEF Less, least
  <1>8. t = u => k = Len(t) /\ k = Len(u)
    OBVIOUS
  <1>9. k = Len(t) /\ k = Len(u) => t = u
    BY SeqEqual
  <1> QED BY <1>6, <1>7, <1>8, <1>9

LEMMA BytesAre == \A b \in Byte : b \in Nat
  BY StringsAssumption DEF Byte

LEMMA SliceBytes ==
  ASSUME NEW m \in [Cells -> Byte], NEW a \in Cells, NEW n \in Nat, a + n - 1 <= Top
  PROVE  Slice(m, a, n) \in Seq(Byte)
  <1>1. \A i \in 1 .. n : a + i - 1 \in Cells
    BY StringsAssumption DEF Cells
  <1>2. Slice(m, a, n) \in [1 .. n -> Byte]
    BY <1>1 DEF Slice
  <1> QED BY <1>2

LEMMA MemcmpIs ==
  ASSUME NEW m \in [Cells -> Byte], NEW pos, NEW q, NEW n, InRoom(pos, q, n)
  PROVE  Compares(memcmp(m, pos, q, n), Slice(m, pos, n), Slice(m, q, n))
  <1> DEFINE stop == {i \in 0 .. Top + 1 : ~(i < n /\ m[pos + i] = m[q + i])}
             k == Exit(LAMBDA j : j < n /\ m[pos + j] = m[q + j])
             t == Slice(m, pos, n)
             u == Slice(m, q, n)
  <1>1. pos \in Cells /\ q \in Cells /\ pos \in Nat /\ q \in Nat /\ n \in Nat /\ n \in 0 .. Top + 1
    BY StringsAssumption DEF InRoom, Cells
  <1>2. PICK e \in 0 .. n : e \in stop /\ \A j \in 0 .. e - 1 : j \notin stop
    <2>1. n \in stop
      BY <1>1
    <2> HIDE DEF stop
    <2> QED BY <1>1, <2>1, FirstStop
  <1>3. /\ e \in 0 .. Top + 1 /\ ~(e < n /\ m[pos + e] = m[q + e])
        /\ \A j \in 0 .. e - 1 : j < n /\ m[pos + j] = m[q + j]
    BY <1>1, <1>2, StringsAssumption
  <1>4. /\ k \in 0 .. Top + 1 /\ ~(k < n /\ m[pos + k] = m[q + k])
        /\ \A j \in 0 .. k - 1 : j < n /\ m[pos + j] = m[q + j]
    BY <1>3 DEF Exit
  <1>5. memcmp(m, pos, q, n) = IF k = n THEN 0 ELSE IF m[pos + k] < m[q + k] THEN -1 ELSE 1
    BY DEF memcmp
  <1> HIDE DEF k
  <1>6. k \in Nat /\ k <= n
    <2>1. ~(n < k)
      <3> SUFFICES ASSUME n < k PROVE FALSE
        OBVIOUS
      <3>1. n \in 0 .. k - 1
        BY <1>1, <1>4
      <3> QED BY <1>4, <3>1
    <2> QED BY <1>1, <1>4, <2>1
  <1>7. \A i \in 1 .. n : m[pos + i - 1] \in Byte /\ m[q + i - 1] \in Byte
    BY <1>1, StringsAssumption DEF InRoom, Cells
  <1>8. /\ t \in Seq(Byte) /\ Len(t) = n /\ \A i \in 1 .. n : t[i] = m[pos + i - 1]
        /\ u \in Seq(Byte) /\ Len(u) = n /\ \A i \in 1 .. n : u[i] = m[q + i - 1]
    <2>1. Len(t) = n /\ \A i \in 1 .. n : t[i] = m[pos + i - 1]
      BY <1>1, SliceIs
    <2>2. Len(u) = n /\ \A i \in 1 .. n : u[i] = m[q + i - 1]
      BY <1>1, SliceIs
    <2>3. t \in Seq(Byte) /\ u \in Seq(Byte)
      BY <1>1, SliceBytes DEF InRoom
    <2> HIDE DEF t, u
    <2> QED BY <2>1, <2>2, <2>3
  <1> HIDE DEF t, u
  <1>9. \A i \in 1 .. k : t[i] = u[i]
    <2> SUFFICES ASSUME NEW i \in 1 .. k PROVE t[i] = u[i]
      OBVIOUS
    <2>1. /\ i - 1 \in 0 .. k - 1 /\ i \in 1 .. n
          /\ pos + (i - 1) = pos + i - 1 /\ q + (i - 1) = q + i - 1
      BY <1>1, <1>6
    <2> QED BY <1>4, <1>8, <2>1
  <1>10. k < n => /\ t[k + 1] = m[pos + k] /\ u[k + 1] = m[q + k]
                  /\ m[pos + k] # m[q + k] /\ m[pos + k] \in Nat /\ m[q + k] \in Nat
    <2> SUFFICES ASSUME k < n PROVE /\ t[k + 1] = m[pos + k] /\ u[k + 1] = m[q + k]
                                    /\ m[pos + k] # m[q + k]
                                    /\ m[pos + k] \in Nat /\ m[q + k] \in Nat
      OBVIOUS
    <2>1. PICK i \in 1 .. n : i = k + 1 /\ pos + i - 1 = pos + k /\ q + i - 1 = q + k
      BY <1>1, <1>6
    <2> QED BY <1>4, <1>7, <1>8, <2>1, BytesAre
  <1>11. /\ Less(t, u) <=> k < n /\ (k = n \/ t[k + 1] < u[k + 1])
         /\ t = u <=> k = n
    <2>1. /\ t \in Seq(Byte) /\ u \in Seq(Byte) /\ k \in Nat
          /\ k <= Len(t) /\ k <= Len(u) /\ \A i \in 1 .. k : t[i] = u[i]
          /\ k = Len(t) \/ k = Len(u) \/ t[k + 1] # u[k + 1]
      BY <1>1, <1>6, <1>8, <1>9, <1>10
    <2>2. Len(t) = n /\ Len(u) = n
      BY <1>8
    <2> QED BY <2>1, <2>2, CompareAt
  <1> QED BY <1>1, <1>5, <1>6, <1>10, <1>11 DEF Compares, t, u

(* Where the loops of strcmp and strncmp stop.                             *)
StopsAt(m, pos, q, n, k) ==
    /\ k \in Nat /\ k <= n
    /\ k <= strlen(m, pos) /\ k <= strlen(m, q)
    /\ \A i \in 1 .. k : Text(m, pos)[i] = Text(m, q)[i]
    /\ k < n => m[pos + k] = 0 \/ m[pos + k] # m[q + k]

LEMMA StopIs ==
  ASSUME NEW m, NEW pos, NEW q, StringAt(m, pos), StringAt(m, q),
         NEW n \in Nat, NEW k \in 0 .. Top + 1,
         k < n => ~(m[pos + k] # 0 /\ m[pos + k] = m[q + k]),
         \A j \in 0 .. k - 1 : j < n /\ m[pos + j] # 0 /\ m[pos + j] = m[q + j]
  PROVE  StopsAt(m, pos, q, n, k)
  <1> DEFINE lp == strlen(m, pos)
             lq == strlen(m, q)
             t == Text(m, pos)
             u == Text(m, q)
  <1>1. /\ lp \in Nat /\ m[pos + lp] = 0 /\ pos \in Nat
        /\ lq \in Nat /\ m[q + lq] = 0 /\ q \in Nat /\ k \in Nat
    <2>1. lp \in Nat /\ m[pos + lp] = 0 /\ pos \in Nat
      BY StrlenIs
    <2>2. lq \in Nat /\ m[q + lq] = 0 /\ q \in Nat
      BY StrlenIs
    <2> QED BY <2>1, <2>2
  <1>2. /\ Len(t) = lp /\ \A i \in 1 .. lp : t[i] = m[pos + i - 1]
        /\ Len(u) = lq /\ \A i \in 1 .. lq : u[i] = m[q + i - 1]
    BY TextIs
  <1> HIDE DEF lp, lq, t, u
  <1>3. k <= n
    <2> SUFFICES ASSUME n < k PROVE FALSE
      BY <1>1
    <2>1. n \in 0 .. k - 1
      BY <1>1
    <2> QED BY <2>1
  <1>4. k <= lp
    <2> SUFFICES ASSUME lp < k PROVE FALSE
      BY <1>1
    <2>1. lp \in 0 .. k - 1
      BY <1>1
    <2> QED BY <1>1, <2>1
  <1>5. k <= lq
    <2> SUFFICES ASSUME lq < k PROVE FALSE
      BY <1>1
    <2>1. lq \in 0 .. k - 1
      BY <1>1
    <2> QED BY <1>1, <2>1
  <1>6. ASSUME NEW i \in 1 .. k PROVE t[i] = u[i]
    <2>1. /\ i - 1 \in 0 .. k - 1 /\ i \in 1 .. lp /\ i \in 1 .. lq
          /\ pos + (i - 1) = pos + i - 1 /\ q + (i - 1) = q + i - 1
      BY <1>1, <1>4, <1>5
    <2>2. m[pos + (i - 1)] = m[q + (i - 1)]
      BY <2>1
    <2> QED BY <1>2, <2>1, <2>2
  <1> QED BY <1>1, <1>3, <1>4, <1>5, <1>6 DEF StopsAt, lp, lq, t, u

LEMMA StopCompares ==
  ASSUME NEW m, NEW pos, NEW q, StringAt(m, pos), StringAt(m, q), NEW n \in Nat, NEW k,
         StopsAt(m, pos, q, n, k)
  PROVE  Compares(IF k = n THEN 0 ELSE m[pos + k] - m[q + k],
                  FirstOf(Text(m, pos), n), FirstOf(Text(m, q), n))
  <1> DEFINE lp == strlen(m, pos)
             lq == strlen(m, q)
             x == Text(m, pos)
             y == Text(m, q)
             t == FirstOf(x, n)
             u == FirstOf(y, n)
  <1>1. /\ lp \in Nat /\ pos + lp \in Cells /\ m[pos + lp] = 0 /\ pos \in Nat
        /\ lq \in Nat /\ q + lq \in Cells /\ m[q + lq] = 0 /\ q \in Nat
        /\ m \in [Cells -> Byte]
        /\ \A j \in 0 .. lp - 1 : m[pos + j] # 0
        /\ \A j \in 0 .. lq - 1 : m[q + j] # 0
    <2>1. /\ lp \in Nat /\ pos + lp \in Cells /\ m[pos + lp] = 0 /\ pos \in Nat
          /\ m \in [Cells -> Byte] /\ \A j \in 0 .. lp - 1 : m[pos + j] # 0
      BY StrlenIs
    <2>2. /\ lq \in Nat /\ q + lq \in Cells /\ m[q + lq] = 0 /\ q \in Nat
          /\ \A j \in 0 .. lq - 1 : m[q + j] # 0
      BY StrlenIs
    <2> QED BY <2>1, <2>2
  <1>2. /\ x \in Seq(Byte) /\ Len(x) = lp /\ \A i \in 1 .. lp : x[i] = m[pos + i - 1]
        /\ y \in Seq(Byte) /\ Len(y) = lq /\ \A i \in 1 .. lq : y[i] = m[q + i - 1]
    BY TextIs
  <1>3. /\ k \in Nat /\ k <= n /\ k <= lp /\ k <= lq
        /\ \A i \in 1 .. k : x[i] = y[i]
        /\ k < n => m[pos + k] = 0 \/ m[pos + k] # m[q + k]
    BY DEF StopsAt
  <1> HIDE DEF lp, lq, x, y
  <1>4. /\ t \in Seq(Byte) /\ Len(t) = Shorter(n, lp)
        /\ \A i \in 1 .. Shorter(n, lp) : t[i] = x[i]
        /\ u \in Seq(Byte) /\ Len(u) = Shorter(n, lq)
        /\ \A i \in 1 .. Shorter(n, lq) : u[i] = y[i]
    BY <1>2, FirstOfIs
  <1> HIDE DEF t, u
  <1>5. pos + k \in Cells /\ q + k \in Cells
    BY <1>1, <1>3, StringsAssumption DEF Cells
  <1>6. m[pos + k] \in Nat /\ m[q + k] \in Nat
    BY <1>1, <1>5, BytesAre
  <1>7. /\ k = lp \/ m[pos + k] # 0
        /\ k = lq \/ m[q + k] # 0
    <2>1. k < lp => k \in 0 .. lp - 1
      BY <1>1, <1>3
    <2>2. k < lq => k \in 0 .. lq - 1
      BY <1>1, <1>3
    <2> QED BY <1>1, <1>3, <2>1, <2>2
  <1>8. /\ k <= Len(t) /\ k <= Len(u) /\ Len(t) \in Nat /\ Len(u) \in Nat
        /\ k = Len(t) <=> k = n \/ k = lp
        /\ k = Len(u) <=> k = n \/ k = lq
    BY <1>1, <1>3, <1>4 DEF Shorter
  <1>9. \A i \in 1 .. k : t[i] = u[i]
    <2> SUFFICES ASSUME NEW i \in 1 .. k PROVE t[i] = u[i]
      OBVIOUS
    <2>1. i \in 1 .. Shorter(n, lp) /\ i \in 1 .. Shorter(n, lq)
      BY <1>1, <1>3 DEF Shorter
    <2> QED BY <1>3, <1>4, <2>1
  <1>10. k < Len(t) => t[k + 1] = m[pos + k]
    <2> SUFFICES ASSUME k < Len(t) PROVE t[k + 1] = m[pos + k]
      OBVIOUS
    <2>1. /\ k + 1 \in 1 .. Shorter(n, lp) /\ k + 1 \in 1 .. lp
          /\ pos + (k + 1) - 1 = pos + k
      <3>1. k < Shorter(n, lp)
        BY <1>4
      <3>2. Shorter(n, lp) \in Nat /\ Shorter(n, lp) <= lp
        BY <1>1 DEF Shorter
      <3>3. k \in Nat /\ lq \in Nat /\ lp \in Nat /\ pos \in Nat /\ q \in Nat
        BY <1>1, <1>3
      <3> QED BY <3>1, <3>2, <3>3
    <2> QED BY <1>2, <1>4, <2>1
  <1>11. k < Len(u) => u[k + 1] = m[q + k]
    <2> SUFFICES ASSUME k < Len(u) PROVE u[k + 1] = m[q + k]
      OBVIOUS
    <2>1. /\ k + 1 \in 1 .. Shorter(n, lq) /\ k + 1 \in 1 .. lq
          /\ q + (k + 1) - 1 = q + k
      <3>1. k < Shorter(n, lq)
        BY <1>4
      <3>2. Shorter(n, lq) \in Nat /\ Shorter(n, lq) <= lq
        BY <1>1 DEF Shorter
      <3>3. k \in Nat /\ lq \in Nat /\ lp \in Nat /\ pos \in Nat /\ q \in Nat
        BY <1>1, <1>3
      <3> QED BY <3>1, <3>2, <3>3
    <2> QED BY <1>2, <1>4, <2>1
  <1>12. k = Len(t) \/ k = Len(u) \/ t[k + 1] # u[k + 1]
    BY <1>3, <1>7, <1>8, <1>10, <1>11
  <1>13. /\ Less(t, u) <=> k < Len(u) /\ (k = Len(t) \/ t[k + 1] < u[k + 1])
         /\ t = u <=> k = Len(t) /\ k = Len(u)
    BY <1>3, <1>4, <1>8, <1>9, <1>12, CompareAt
  <1>14. CASE k = n
    BY <1>8, <1>13, <1>14 DEF Compares, t, u, x, y
  <1>15. CASE k # n
    <2> DEFINE a == m[pos + k]
               b == m[q + k]
    <2>1. /\ a \in Nat /\ b \in Nat /\ k < n
          /\ k = lp \/ (a # 0 /\ k < lp)
          /\ k = lq \/ (b # 0 /\ k < lq)
      BY <1>1, <1>3, <1>6, <1>7, <1>15
    <2>5. /\ k = lp => a = 0
          /\ k = lq => b = 0
          /\ a = 0 \/ a # b
      BY <1>1, <1>3, <1>15
    <2>6. /\ k < lp => k < Len(t) /\ t[k + 1] = a
          /\ k < lq => k < Len(u) /\ u[k + 1] = b
      BY <1>1, <1>3, <1>8, <1>10, <1>11, <1>15
    <2> HIDE DEF a, b
    <2>2. a - b = 0 <=> k = lp /\ k = lq
      BY <2>1, <2>5
    <2>3. a - b < 0 <=> k < lq /\ (k = lp \/ t[k + 1] < u[k + 1])
      <3>1. CASE k = lp
        <4>1. a = 0
          BY <2>5, <3>1
        <4>2. k < lq <=> b # 0
          BY <1>1, <1>3, <2>1, <2>5
        <4> QED BY <2>1, <3>1, <4>1, <4>2
      <3>2. CASE k < lp
        <4>1. a # 0 /\ a # b /\ k # lp /\ t[k + 1] = a
          BY <1>1, <1>3, <2>1, <2>5, <2>6, <3>2
        <4>2. CASE k < lq
          BY <2>1, <2>6, <4>1, <4>2
        <4>3. CASE k = lq
          BY <1>1, <2>1, <2>5, <4>1, <4>3
        <4> QED BY <1>1, <1>3, <4>2, <4>3
      <3> QED BY <1>1, <1>3, <3>1, <3>2
    <2>4. /\ Less(t, u) <=> k < lq /\ (k = lp \/ t[k + 1] < u[k + 1])
          /\ t = u <=> k = lp /\ k = lq
      BY <1>3, <1>8, <1>13, <1>15, <2>1, <2>5, <2>6
    <2> QED BY <1>15, <2>2, <2>3, <2>4 DEF Compares, a, b, t, u, x, y
  <1> QED BY <1>14, <1>15

FirstStopIs(m, pos, q, n, e) ==
    /\ ~(e < n /\ m[pos + e] # 0 /\ m[pos + e] = m[q + e])
    /\ \A j \in 0 .. e - 1 : j < n /\ m[pos + j] # 0 /\ m[pos + j] = m[q + j]

LEMMA FirstStopAt ==
  ASSUME NEW m, NEW pos, NEW q, StringAt(m, pos), NEW n
  PROVE  \E e \in 0 .. Top + 1 : FirstStopIs(m, pos, q, n, e)
  <1> DEFINE l == strlen(m, pos)
             stop == {i \in 0 .. Top + 1 : ~(i < n /\ m[pos + i] # 0 /\ m[pos + i] = m[q + i])}
  <1>1. l \in Nat /\ m[pos + l] = 0 /\ l \in 0 .. Top + 1
    BY StrlenIs, StringsAssumption DEF StringAt, Cells
  <1>2. l \in stop
    BY <1>1
  <1> HIDE DEF l
  <1>3. PICK e \in 0 .. l : e \in stop /\ \A j \in 0 .. e - 1 : j \notin stop
    <2> HIDE DEF stop
    <2> QED BY <1>1, <1>2, FirstStop
  <1>4. \A j \in 0 .. e - 1 : j \in 0 .. Top + 1
    BY <1>1, <1>3, StringsAssumption
  <1> QED BY <1>1, <1>3, <1>4 DEF l, FirstStopIs

LEMMA StrncmpIs ==
  ASSUME NEW m, NEW pos, NEW q, StringAt(m, pos), StringAt(m, q), NEW n \in Nat
  PROVE  Compares(strncmp(m, pos, q, n), FirstOf(Text(m, pos), n), FirstOf(Text(m, q), n))
  <1> DEFINE k == Exit(LAMBDA j : j < n /\ m[pos + j] # 0 /\ m[pos + j] = m[q + j])
  <1>1. /\ k \in 0 .. Top + 1
        /\ ~(k < n /\ m[pos + k] # 0 /\ m[pos + k] = m[q + k])
        /\ \A j \in 0 .. k - 1 : j < n /\ m[pos + j] # 0 /\ m[pos + j] = m[q + j]
    <2>1. PICK e \in 0 .. Top + 1 : FirstStopIs(m, pos, q, n, e)
      BY FirstStopAt
    <2> QED BY <2>1 DEF Exit, FirstStopIs
  <1>2. strncmp(m, pos, q, n) = IF k = n THEN 0 ELSE m[pos + k] - m[q + k]
    BY DEF strncmp
  <1> HIDE DEF k
  <1>3. StopsAt(m, pos, q, n, k)
    BY <1>1, StopIs
  <1> QED BY <1>2, <1>3, StopCompares

(* strcmp is strncmp with a count that no string reaches.                  *)
LEMMA StrcmpIs ==
  ASSUME NEW m, NEW pos, NEW q, StringAt(m, pos), StringAt(m, q)
  PROVE  Compares(strcmp(m, pos, q), Text(m, pos), Text(m, q))
  <1> DEFINE k == Exit(LAMBDA j : m[pos + j] # 0 /\ m[pos + j] = m[q + j])
             n == Top + 2
  <1>1. /\ strlen(m, pos) \in Nat /\ strlen(m, q) \in Nat
        /\ strlen(m, pos) <= Top /\ strlen(m, q) <= Top /\ n \in Nat
    <2>1. strlen(m, pos) \in Nat /\ pos \in Nat /\ pos + strlen(m, pos) <= Top
      BY StrlenIs DEF Cells
    <2>2. strlen(m, q) \in Nat /\ q \in Nat /\ q + strlen(m, q) <= Top
      BY StrlenIs DEF Cells
    <2> QED BY <2>1, <2>2, StringsAssumption
  <1>2. /\ k \in 0 .. Top + 1
        /\ ~(m[pos + k] # 0 /\ m[pos + k] = m[q + k])
        /\ \A j \in 0 .. k - 1 : m[pos + j] # 0 /\ m[pos + j] = m[q + j]
    <2>1. PICK e \in 0 .. Top + 1 : FirstStopIs(m, pos, q, n, e)
      BY FirstStopAt
    <2>2. e < n
      BY <2>1, StringsAssumption
    <2> HIDE DEF n
    <2> QED BY <2>1, <2>2 DEF Exit, FirstStopIs
  <1>3. strcmp(m, pos, q) = m[pos + k] - m[q + k]
    BY DEF strcmp
  <1> HIDE DEF k
  <1>4. StopsAt(m, pos, q, n, k)
    <2>1. \A j \in 0 .. k - 1 : j < n
      BY <1>2, StringsAssumption
    <2> HIDE DEF n
    <2> QED BY <1>1, <1>2, <2>1, StopIs
  <1>5. k # n
    BY <1>2, StringsAssumption
  <1>6. FirstOf(Text(m, pos), n) = Text(m, pos) /\ FirstOf(Text(m, q), n) = Text(m, q)
    <2> HIDE DEF n
    <2>1. ASSUME NEW t \in Seq(Byte), Len(t) <= Top PROVE FirstOf(t, n) = t
      <3>1. Shorter(n, Len(t)) = Len(t)
        BY <1>1, <2>1, StringsAssumption DEF Shorter, n
      <3>2. FirstOf(t, n) \in Seq(Byte) /\ Len(FirstOf(t, n)) = Len(t)
            /\ \A i \in 1 .. Len(t) : FirstOf(t, n)[i] = t[i]
        BY <1>1, <3>1, FirstOfIs
      <3> QED BY <3>2, SeqEqual
    <2>2. /\ Text(m, pos) \in Seq(Byte) /\ Len(Text(m, pos)) = strlen(m, pos)
          /\ Text(m, q) \in Seq(Byte) /\ Len(Text(m, q)) = strlen(m, q)
      BY TextIs
    <2> QED BY <1>1, <2>1, <2>2
  <1> HIDE DEF n
  <1>7. Compares(IF k = n THEN 0 ELSE m[pos + k] - m[q + k],
                 FirstOf(Text(m, pos), n), FirstOf(Text(m, q), n))
    BY <1>1, <1>4, StopCompares
  <1> QED BY <1>3, <1>5, <1>6, <1>7

LEMMA MaxIs ==
  ASSUME NEW b \in Nat, NEW set \in SUBSET (0 .. b), set # {}
  PROVE  Max(set) \in set /\ \A y \in set : Max(set) >= y
  <1> DEFINE below == {b - x : x \in set}
  <1>1. below \in SUBSET Nat /\ below # {}
    <2>1. \A x \in set : b - x \in Nat
      OBVIOUS
    <2> QED BY <2>1
  <1> HIDE DEF below
  <1>2. PICK i \in below : \A j \in below : i <= j
    BY <1>1, LeastOf
  <1>3. PICK x \in set : i = b - x
    BY <1>2 DEF below
  <1>4. \A y \in set : x >= y
    <2> SUFFICES ASSUME NEW y \in set PROVE x >= y
      OBVIOUS
    <2>1. b - x <= b - y
      BY <1>2, <1>3 DEF below
    <2> QED BY <2>1
  <1> QED BY <1>4 DEF Max

(* Where c is in a string: the reference of strchr and strrchr.            *)
Places(t, c) == {i \in 1 .. Len(t) : t[i] = c}

LEMMA AtIs ==
  ASSUME NEW t \in Seq(Byte \ {0}), NEW c
  PROVE  /\ c \in ToSet(t) <=> Places(t, c) # {}
         /\ Places(t, c) \in SUBSET (1 .. Len(t)) /\ Len(t) \in Nat
  BY DEF Places, ToSet

LEMMA StrchrIs ==
  ASSUME NEW m, NEW s, StringAt(m, s), NEW c
  PROVE  strchr(m, s, c) = IF c \in ToSet(Text(m, s)) THEN s - 1 + Min(Places(Text(m, s), c))
                                                     ELSE NULL
  <1> DEFINE l == strlen(m, s)
             t == Text(m, s)
             k == Exit(LAMBDA j : m[s + j] # 0 /\ m[s + j] # c)
             stop == {i \in 0 .. Top + 1 : ~(m[s + i] # 0 /\ m[s + i] # c)}
  <1>1. /\ l \in Nat /\ l \in 0 .. Top + 1 /\ m[s + l] = 0 /\ s \in Nat
        /\ \A j \in 0 .. l - 1 : m[s + j] # 0
    BY StrlenIs
  <1>2. t \in Seq(Byte \ {0}) /\ Len(t) = l /\ \A i \in 1 .. l : t[i] = m[s + i - 1]
    BY TextIs
  <1>3. strchr(m, s, c) = IF m[s + k] = 0 THEN NULL ELSE s + k
    BY DEF strchr
  <1>4. l \in stop
    BY <1>1
  <1> HIDE DEF l, t
  <1>5. PICK e \in 0 .. l : e \in stop /\ \A j \in 0 .. e - 1 : j \notin stop
    <2> HIDE DEF stop
    <2> QED BY <1>1, <1>4, FirstStop
  <1>6. /\ k \in 0 .. Top + 1 /\ ~(m[s + k] # 0 /\ m[s + k] # c)
        /\ \A j \in 0 .. k - 1 : m[s + j] # 0 /\ m[s + j] # c
    <2>1. \A j \in 0 .. e - 1 : j \in 0 .. Top + 1
      BY <1>1, <1>5, StringsAssumption
    <2>2. /\ e \in 0 .. Top + 1 /\ ~(m[s + e] # 0 /\ m[s + e] # c)
          /\ \A j \in 0 .. e - 1 : m[s + j] # 0 /\ m[s + j] # c
      BY <1>5, <2>1
    <2> QED BY <2>2 DEF Exit
  <1> HIDE DEF k
  <1>7. k \in Nat /\ k <= l
    <2>1. l < k => l \in 0 .. k - 1
      BY <1>1, <1>6
    <2> QED BY <1>1, <1>6, <2>1
  <1>8. \A i \in 1 .. k : t[i] # c
    <2> SUFFICES ASSUME NEW i \in 1 .. k PROVE t[i] # c
      OBVIOUS
    <2>1. i - 1 \in 0 .. k - 1 /\ i \in 1 .. l /\ s + (i - 1) = s + i - 1
      BY <1>1, <1>7
    <2> QED BY <1>2, <1>6, <2>1
  <1>9. CASE m[s + k] = 0
    <2>1. k = l
      <3>1. k < l => k \in 0 .. l - 1
        BY <1>1, <1>7
      <3> QED BY <1>1, <1>7, <1>9, <3>1
    <2>2. Places(t, c) = {}
      BY <1>2, <1>8, <2>1 DEF Places
    <2>3. ~(c \in ToSet(t))
      BY <1>2, <2>2, AtIs
    <2> QED BY <1>3, <1>9, <2>3 DEF t
  <1>10. CASE m[s + k] # 0
    <2>1. k # l /\ m[s + k] = c
      BY <1>1, <1>6, <1>10
    <2>2. k + 1 \in 1 .. l /\ s + (k + 1) - 1 = s + k
      BY <1>1, <1>7, <2>1
    <2>3. k + 1 \in Places(t, c)
      BY <1>2, <2>1, <2>2 DEF Places
    <2>4. Places(t, c) \in SUBSET (1 .. l) /\ c \in ToSet(t)
      BY <1>2, <2>3, AtIs
    <2>5. Min(Places(t, c)) \in Places(t, c) /\ Min(Places(t, c)) <= k + 1
      <3>1. Places(t, c) \in SUBSET Nat /\ Places(t, c) # {}
        BY <2>3, <2>4
      <3> QED BY <2>3, <3>1, MinIs
    <2>6. Min(Places(t, c)) = k + 1
      <3>1. t[Min(Places(t, c))] = c
        BY <2>5 DEF Places
      <3>2. Min(Places(t, c)) \in 1 .. l
        BY <2>4, <2>5
      <3>3. ~(Min(Places(t, c)) \in 1 .. k)
        BY <1>8, <3>1
      <3> QED BY <1>7, <2>5, <3>2, <3>3
    <2>7. s - 1 + (k + 1) = s + k
      BY <1>1, <1>7
    <2> QED BY <1>3, <1>10, <2>4, <2>6, <2>7 DEF t
  <1> QED BY <1>9, <1>10

LEMMA StrrchrIs ==
  ASSUME NEW m, NEW s, StringAt(m, s), NEW c
  PROVE  strrchr(m, s, c) = IF c \in ToSet(Text(m, s)) THEN s - 1 + Max(Places(Text(m, s), c))
                                                      ELSE NULL
  <1> DEFINE l == strlen(m, s)
             t == Text(m, s)
             found == {a \in s .. s + l - 1 : m[a] = c}
  <1>1. l \in Nat /\ s \in Nat
    BY StrlenIs
  <1>2. t \in Seq(Byte \ {0}) /\ Len(t) = l /\ \A i \in 1 .. l : t[i] = m[s + i - 1]
    BY TextIs
  <1>3. strrchr(m, s, c) = IF found = {} THEN NULL ELSE Max(found)
    BY DEF strrchr
  <1> HIDE DEF l, t
  <1>4. Places(t, c) \in SUBSET (1 .. l) /\ (c \in ToSet(t) <=> Places(t, c) # {})
    BY <1>2, AtIs
  <1>5. \A i \in Places(t, c) : s - 1 + i \in found
    <2> SUFFICES ASSUME NEW i \in Places(t, c) PROVE s - 1 + i \in found
      OBVIOUS
    <2>1. i \in 1 .. l /\ t[i] = c /\ s - 1 + i = s + i - 1
      BY <1>1, <1>4 DEF Places
    <2> QED BY <1>1, <1>2, <2>1
  <1>6. \A a \in found : a - s + 1 \in Places(t, c)
    <2> SUFFICES ASSUME NEW a \in found PROVE a - s + 1 \in Places(t, c)
      OBVIOUS
    <2>1. a - s + 1 \in 1 .. l /\ s + (a - s + 1) - 1 = a
      BY <1>1
    <2> QED BY <1>2, <2>1 DEF Places
  <1>7. found \in SUBSET (0 .. s + l) /\ s + l \in Nat
    BY <1>1
  <1> HIDE DEF found
  <1>8. CASE found = {}
    BY <1>3, <1>4, <1>5, <1>8 DEF t
  <1>9. CASE found # {}
    <2>1. Max(found) \in found /\ \A y \in found : Max(found) >= y
      BY <1>7, <1>9, MaxIs
    <2>2. Max(Places(t, c)) \in Places(t, c) /\ \A y \in Places(t, c) : Max(Places(t, c)) >= y
      <3>1. Places(t, c) \in SUBSET (0 .. l) /\ Places(t, c) # {}
        BY <1>1, <1>4, <1>6, <1>9
      <3> QED BY <1>1, <3>1, MaxIs
    <2>3. s - 1 + Max(Places(t, c)) \in found /\ Max(found) - s + 1 \in Places(t, c)
      BY <1>5, <1>6, <2>1, <2>2
    <2>4. Max(found) \in Int /\ Max(Places(t, c)) \in Int
      <3>1. Max(found) \in 0 .. s + l
        BY <1>7, <2>1
      <3>2. Max(Places(t, c)) \in 1 .. l
        BY <1>4, <2>2
      <3> QED BY <3>1, <3>2
    <2>5. Max(found) >= s - 1 + Max(Places(t, c)) /\ Max(Places(t, c)) >= Max(found) - s + 1
      BY <2>1, <2>2, <2>3
    <2>6. Max(found) = s - 1 + Max(Places(t, c))
      BY <1>1, <2>4, <2>5
    <2> QED BY <1>3, <1>4, <1>9, <2>2, <2>6 DEF t
  <1> QED BY <1>8, <1>9

(* The string from its jth byte on.                                        *)
TailOf(t, j) == SubSeq(t, j + 1, Len(t))

LEMMA TailIs ==
  ASSUME NEW t \in Seq(Byte \ {0}), NEW j \in 0 .. Len(t)
  PROVE  /\ TailOf(t, j) \in Seq(Byte \ {0}) /\ Len(TailOf(t, j)) = Len(t) - j
         /\ \A i \in 1 .. Len(t) - j : TailOf(t, j)[i] = t[j + i]
  <1>1. Len(t) \in Nat /\ \A i \in j + 1 .. Len(t) : t[i] \in Byte \ {0}
    OBVIOUS
  <1>2. /\ TailOf(t, j) \in Seq(Byte \ {0})
        /\ Len(TailOf(t, j)) = IF j + 1 <= Len(t) THEN Len(t) - (j + 1) + 1 ELSE 0
        /\ \A i \in 1 .. Len(t) - (j + 1) + 1 : TailOf(t, j)[i] = t[(j + 1) + i - 1]
    BY <1>1, SubSeqProperties DEF TailOf
  <1>3. /\ Len(t) - (j + 1) + 1 = Len(t) - j
        /\ IF j + 1 <= Len(t) THEN TRUE ELSE Len(t) - j = 0
        /\ \A i \in 1 .. Len(t) - j : (j + 1) + i - 1 = j + i
    BY <1>1
  <1>4. Len(TailOf(t, j)) = Len(t) - j
    BY <1>2, <1>3
  <1>5. ASSUME NEW i \in 1 .. Len(t) - j PROVE TailOf(t, j)[i] = t[j + i]
    BY <1>2, <1>3
  <1> QED BY <1>2, <1>4, <1>5

LEMMA PrefixIs ==
  ASSUME NEW u \in Seq(Byte), NEW v \in Seq(Byte)
  PROVE  IsPrefix(u, v) <=> Len(u) <= Len(v) /\ \A i \in 1 .. Len(u) : u[i] = v[i]
  <1>1. SubSeq(u, 1, Len(u)) = u
    OBVIOUS
  <1>2. ASSUME Len(u) <= Len(v)
        PROVE  SubSeq(u, 1, Len(u)) = SubSeq(v, 1, Len(u))
                  <=> \A i \in 1 .. Len(u) : u[i] = v[i]
    <2> DEFINE w == SubSeq(v, 1, Len(u))
    <2>1. /\ w \in Seq(Byte) /\ Len(w) = Len(u)
          /\ \A i \in 1 .. Len(u) : w[i] = v[i]
      BY <1>2
    <2> HIDE DEF w
    <2>2. ASSUME \A i \in 1 .. Len(u) : u[i] = v[i] PROVE u = w
      BY <2>1, <2>2, SeqEqual
    <2>3. u = w => \A i \in 1 .. Len(u) : u[i] = v[i]
      BY <2>1
    <2> QED BY <1>1, <2>2, <2>3 DEF w
  <1> QED BY <1>2 DEF IsPrefix

(* The inner loop of strstr tells whether the needle is here.              *)
LEMMA AgreesIs ==
  ASSUME NEW m, NEW s, NEW needle, StringAt(m, s), StringAt(m, needle),
         NEW j \in 0 .. strlen(m, s)
  PROVE  Agrees(m, s + j, needle) <=> IsPrefix(Text(m, needle), TailOf(Text(m, s), j))
  <1> DEFINE h == s + j
             l == strlen(m, s)
             n == strlen(m, needle)
             t == Text(m, s)
             u == Text(m, needle)
             v == TailOf(t, j)
             stop == {i \in 0 .. Top + 1 : ~(m[h + i] # 0 /\ m[needle + i] # 0
                                                         /\ m[h + i] = m[needle + i])}
             k == Exit(LAMBDA i : m[h + i] # 0 /\ m[needle + i] # 0
                                               /\ m[h + i] = m[needle + i])
  <1>1. /\ l \in Nat /\ l \in 0 .. Top + 1 /\ s \in Nat /\ m[s + l] = 0
        /\ \A i \in 0 .. l - 1 : m[s + i] # 0
    BY StrlenIs
  <1>2. /\ n \in Nat /\ n \in 0 .. Top + 1 /\ needle \in Nat /\ m[needle + n] = 0
        /\ \A i \in 0 .. n - 1 : m[needle + i] # 0
    BY StrlenIs
  <1>3. t \in Seq(Byte \ {0}) /\ Len(t) = l /\ \A i \in 1 .. l : t[i] = m[s + i - 1]
    BY TextIs
  <1>4. u \in Seq(Byte \ {0}) /\ Len(u) = n /\ \A i \in 1 .. n : u[i] = m[needle + i - 1]
    BY TextIs
  <1>5. Agrees(m, h, needle) <=> m[needle + k] = 0
    BY DEF Agrees
  <1>6. j \in Nat /\ j <= l /\ j \in 0 .. l /\ h \in Nat /\ h + (l - j) = s + l
    BY <1>1
  <1> HIDE DEF l, n, t, u
  <1>7. v \in Seq(Byte \ {0}) /\ Len(v) = l - j /\ \A i \in 1 .. l - j : v[i] = t[j + i]
    BY <1>3, <1>6, TailIs
  <1> HIDE DEF v
  <1>8. PICK e \in 0 .. l - j : e \in stop /\ \A i \in 0 .. e - 1 : i \notin stop
    <2>1. l - j \in 0 .. Top + 1
      BY <1>1, <1>6, StringsAssumption
    <2>2. l - j \in stop
      BY <1>1, <1>6, <2>1
    <2> HIDE DEF stop
    <2> QED BY <2>1, <2>2, FirstStop
  <1>9. /\ ~(m[h + k] # 0 /\ m[needle + k] # 0 /\ m[h + k] = m[needle + k])
        /\ k \in 0 .. Top + 1
        /\ \A i \in 0 .. k - 1 : m[h + i] # 0 /\ m[needle + i] # 0 /\ m[h + i] = m[needle + i]
    <2>1. \A i \in 0 .. e - 1 : i \in 0 .. Top + 1
      BY <1>1, <1>6, <1>8, StringsAssumption
    <2>2. /\ e \in 0 .. Top + 1
          /\ ~(m[h + e] # 0 /\ m[needle + e] # 0 /\ m[h + e] = m[needle + e])
          /\ \A i \in 0 .. e - 1 : m[h + i] # 0 /\ m[needle + i] # 0 /\ m[h + i] = m[needle + i]
      BY <1>8, <2>1
    <2> HIDE DEF h
    <2> QED BY <2>2 DEF Exit
  <1> HIDE DEF k, stop
  <1>10. k \in Nat /\ k <= l - j /\ k <= n
    <2>1. l - j < k => l - j \in 0 .. k - 1
      BY <1>1, <1>6, <1>9
    <2>2. n < k => n \in 0 .. k - 1
      BY <1>2, <1>9
    <2> QED BY <1>1, <1>2, <1>6, <1>9, <2>1, <2>2
  <1>11. ASSUME NEW i \in 1 .. n, i <= l - j
         PROVE  u[i] = m[needle + (i - 1)] /\ v[i] = m[h + (i - 1)]
    <2>1. /\ i \in 1 .. l - j /\ j + i \in 1 .. l
          /\ needle + i - 1 = needle + (i - 1) /\ s + (j + i) - 1 = h + (i - 1)
      BY <1>1, <1>2, <1>6, <1>11
    <2> QED BY <1>3, <1>4, <1>7, <2>1
  <1>12. IsPrefix(u, v) <=> n <= l - j /\ \A i \in 1 .. n : u[i] = v[i]
    <2>1. u \in Seq(Byte) /\ v \in Seq(Byte)
      BY <1>4, <1>7
    <2> QED BY <1>4, <1>7, <2>1, PrefixIs
  <1>13. CASE m[needle + k] = 0
    <2>1. k = n
      <3>1. k < n => k \in 0 .. n - 1
        BY <1>2, <1>10
      <3> QED BY <1>2, <1>10, <1>13, <3>1
    <2>2. ASSUME NEW i \in 1 .. n PROVE u[i] = v[i]
      <3>1. i - 1 \in 0 .. k - 1 /\ i <= l - j
        BY <1>1, <1>2, <1>6, <1>10, <2>1
      <3> QED BY <1>9, <1>11, <3>1
    <2> QED BY <1>5, <1>10, <1>12, <1>13, <2>1, <2>2 DEF u, v, t
  <1>14. CASE m[needle + k] # 0
    <2>1. k # n /\ k < n
      BY <1>2, <1>10, <1>14
    <2>2. ~(n <= l - j /\ \A i \in 1 .. n : u[i] = v[i])
      <3> SUFFICES ASSUME n <= l - j, \A i \in 1 .. n : u[i] = v[i] PROVE FALSE
        OBVIOUS
      <3>1. k + 1 \in 1 .. n /\ k + 1 <= l - j /\ (k + 1) - 1 = k
        BY <1>1, <1>2, <1>6, <1>10, <2>1
      <3>2. m[needle + k] = m[h + k]
        BY <1>11, <3>1
      <3>3. m[h + k] = 0
        BY <1>9, <1>14, <3>2
      <3> QED BY <1>14, <3>2, <3>3
    <2> QED BY <1>5, <1>12, <1>14, <2>2 DEF u, v, t
  <1> QED BY <1>13, <1>14

(* Where the needle u is in t.                                             *)
Found(t, u) == {i \in 0 .. Len(t) : IsPrefix(u, SubSeq(t, i + 1, Len(t)))}

LEMMA StrstrIs ==
  ASSUME NEW m, NEW s, NEW needle, StringAt(m, s), StringAt(m, needle)
  PROVE  strstr(m, s, needle) = IF Found(Text(m, s), Text(m, needle)) = {} THEN NULL
                                ELSE s + Min(Found(Text(m, s), Text(m, needle)))
  <1> DEFINE at == Found(Text(m, s), Text(m, needle))
             l == strlen(m, s)
             n == strlen(m, needle)
             u == Text(m, needle)
             Miss(i) == m[s + i] # 0 /\ ~Agrees(m, s + i, needle)
             stop == {i \in 0 .. Top + 1 : ~Miss(i)}
             k == Exit(LAMBDA j : m[s + j] # 0 /\ ~Agrees(m, s + j, needle))
  <1>1. /\ l \in Nat /\ l \in 0 .. Top + 1 /\ s \in Nat /\ m[s + l] = 0
        /\ \A i \in 0 .. l - 1 : m[s + i] # 0
    BY StrlenIs
  <1>2. n \in Nat /\ (m[needle] = 0 <=> n = 0)
    <2>1. /\ n \in Nat /\ needle \in Nat /\ m[needle + n] = 0
          /\ \A i \in 0 .. n - 1 : m[needle + i] # 0
      BY StrlenIs
    <2> HIDE DEF n
    <2>2. needle + 0 = needle /\ (n # 0 => 0 \in 0 .. n - 1)
      BY <2>1
    <2>3. CASE n = 0
      BY <2>1, <2>2, <2>3
    <2>4. CASE n # 0
      BY <2>1, <2>2, <2>4
    <2> QED BY <2>1, <2>3, <2>4
  <1>3. u \in Seq(Byte \ {0}) /\ Len(u) = n
    BY TextIs
  <1>4. Text(m, s) \in Seq(Byte \ {0}) /\ Len(Text(m, s)) = l
    BY TextIs
  <1>5. \A i \in 0 .. l : Agrees(m, s + i, needle) <=> IsPrefix(u, TailOf(Text(m, s), i))
    BY AgreesIs
  <1>6. at = {i \in 0 .. l : Agrees(m, s + i, needle)}
    <2>1. at = {i \in 0 .. l : IsPrefix(u, TailOf(Text(m, s), i))}
      BY <1>4 DEF Found, TailOf
    <2> QED BY <1>5, <2>1
  <1>7. strstr(m, s, needle) = IF m[needle] = 0 THEN s
                               ELSE IF m[s + k] = 0 THEN NULL ELSE s + k
    BY DEF strstr
  <1>8. l \in at <=> n = 0
    <2>1. TailOf(Text(m, s), l) \in Seq(Byte) /\ Len(TailOf(Text(m, s), l)) = 0 /\ u \in Seq(Byte)
      <3>1. l \in 0 .. l
        BY <1>1
      <3>2. l \in 0 .. Len(Text(m, s))
        BY <1>4, <3>1
      <3>3. /\ TailOf(Text(m, s), l) \in Seq(Byte \ {0})
            /\ Len(TailOf(Text(m, s), l)) = Len(Text(m, s)) - l
        BY <1>4, <3>2, TailIs
      <3> HIDE DEF l, u
      <3> QED BY <1>1, <1>3, <1>4, <3>3
    <2>2. IsPrefix(u, TailOf(Text(m, s), l))
            <=> n <= 0 /\ \A i \in 1 .. n : u[i] = TailOf(Text(m, s), l)[i]
      BY <1>3, <2>1, PrefixIs
    <2>3. l \in 0 .. l
      BY <1>1
    <2>4. l \in at <=> IsPrefix(u, TailOf(Text(m, s), l))
      BY <1>5, <1>6, <2>3
    <2> HIDE DEF l, n, u
    <2> QED BY <1>2, <2>2, <2>4
  <1> HIDE DEF l, n, u, at
  <1>9. at \in SUBSET Nat /\ at \in SUBSET (0 .. l)
    BY <1>1, <1>6
  <1>10. /\ k \in 0 .. Top + 1 /\ ~Miss(k)
         /\ \A i \in 0 .. k - 1 : Miss(i)
    <2>1. l \in stop
      BY <1>1
    <2>2. PICK e \in 0 .. l : e \in stop /\ \A j \in 0 .. e - 1 : j \notin stop
      <3> HIDE DEF stop
      <3> QED BY <1>1, <2>1, FirstStop
    <2>3. \A j \in 0 .. e - 1 : j \in 0 .. Top + 1
      BY <1>1, <2>2, StringsAssumption
    <2>4. e \in 0 .. Top + 1 /\ ~Miss(e) /\ \A j \in 0 .. e - 1 : Miss(j)
      BY <1>1, <2>2, <2>3
    <2> QED BY <2>4 DEF Exit
  <1> HIDE DEF k
  <1>11. k \in Nat /\ k <= l
    <2>1. l < k => l \in 0 .. k - 1
      BY <1>1, <1>10
    <2> QED BY <1>1, <1>10, <2>1
  <1>12. \A i \in 0 .. k - 1 : i \notin at
    BY <1>6, <1>10
  <1>13. CASE n = 0
    <2>1. 0 \in at
      <3>1. l = 0 \/ 0 \in 0 .. l - 1
        BY <1>1
      <3>2. IsPrefix(u, TailOf(Text(m, s), 0))
        <4>1. 0 \in 0 .. Len(Text(m, s))
          BY <1>1, <1>4
        <4>2. /\ TailOf(Text(m, s), 0) \in Seq(Byte \ {0})
              /\ Len(TailOf(Text(m, s), 0)) = Len(Text(m, s)) - 0
          BY <1>4, <4>1, TailIs
        <4>3. TailOf(Text(m, s), 0) \in Seq(Byte) /\ u \in Seq(Byte)
              /\ Len(u) <= Len(TailOf(Text(m, s), 0))
          BY <1>1, <1>3, <1>4, <1>13, <4>2
        <4>4. \A i \in 1 .. Len(u) : u[i] = TailOf(Text(m, s), 0)[i]
          BY <1>3, <1>13
        <4> QED BY <4>3, <4>4, PrefixIs
      <3>3. 0 \in 0 .. l
        BY <1>1
      <3> QED BY <1>5, <1>6, <3>2, <3>3
    <2>2. Min(at) = 0
      <3>1. Min(at) \in at /\ Min(at) <= 0
        BY <1>9, <2>1, MinIs
      <3>2. Min(at) \in Nat
        BY <1>9, <3>1
      <3> QED BY <3>1, <3>2
    <2> QED BY <1>1, <1>2, <1>7, <1>13, <2>1, <2>2 DEF at
  <1>14. CASE n # 0 /\ m[s + k] = 0
    <2>1. k = l
      <3>1. k < l => k \in 0 .. l - 1
        BY <1>1, <1>11
      <3> QED BY <1>1, <1>11, <1>14, <3>1
    <2>2. at = {}
      <3>1. \A i \in at : i \in 0 .. l - 1
        BY <1>1, <1>8, <1>9, <1>14
      <3> QED BY <1>12, <2>1, <3>1
    <2> QED BY <1>2, <1>7, <1>14, <2>2 DEF at
  <1>15. CASE n # 0 /\ m[s + k] # 0
    <2>1. k \in at
      <3>1. k \in 0 .. l
        BY <1>1, <1>11
      <3> QED BY <1>6, <1>10, <1>15, <3>1
    <2>2. Min(at) = k
      <3>1. Min(at) \in at /\ Min(at) <= k
        BY <1>9, <2>1, MinIs
      <3>2. ~(Min(at) \in 0 .. k - 1)
        BY <1>12, <3>1
      <3>3. Min(at) \in Nat
        BY <1>9, <3>1
      <3> QED BY <1>11, <3>1, <3>2, <3>3
    <2> QED BY <1>2, <1>7, <1>15, <2>1, <2>2 DEF at
  <1> QED BY <1>13, <1>14, <1>15 DEF at

(* The runs of t that end before the offset pos.                           *)
Passed(t, c, pos) == {r \in Runs(t, c) : r[2] < pos}

LEMMA RunsAre ==
  ASSUME NEW t \in Seq(Byte), NEW c
  PROVE  /\ IsFiniteSet(Runs(t, c))
         /\ \A r \in Runs(t, c) :
               /\ r = <<r[1], r[2]>>
               /\ r[1] \in 1 .. Len(t) /\ r[2] \in 1 .. Len(t) /\ r[1] <= r[2]
               /\ \A i \in r[1] .. r[2] : t[i] # c
               /\ r[1] = 1 \/ t[r[1] - 1] = c
               /\ r[2] = Len(t) \/ t[r[2] + 1] = c
  <1>1. IsFiniteSet(Runs(t, c))
    <2>1. IsFiniteSet((1 .. Len(t)) \X (1 .. Len(t)))
      <3>1. IsFiniteSet(1 .. Len(t))
        BY FS_Interval
      <3> QED BY <3>1, FS_Product
    <2>2. Runs(t, c) \subseteq (1 .. Len(t)) \X (1 .. Len(t))
      BY DEF Runs
    <2> QED BY <2>1, <2>2, FS_Subset
  <1>2. ASSUME NEW r \in Runs(t, c)
        PROVE  /\ r = <<r[1], r[2]>>
               /\ r[1] \in 1 .. Len(t) /\ r[2] \in 1 .. Len(t) /\ r[1] <= r[2]
               /\ \A i \in r[1] .. r[2] : t[i] # c
               /\ r[1] = 1 \/ t[r[1] - 1] = c
               /\ r[2] = Len(t) \/ t[r[2] + 1] = c
    BY DEF Runs
  <1> QED BY <1>1, <1>2

(* What a search from the offset pos finds: nothing, or the next run.      *)
LEMMA NoneIsLeft ==
  ASSUME NEW t \in Seq(Byte), NEW c, NEW pos \in 0 .. Len(t), pos = 0 \/ t[pos] = c,
         \A i \in pos + 1 .. Len(t) : t[i] = c
  PROVE  Passed(t, c, pos) = Runs(t, c)
  <1> SUFFICES ASSUME NEW r \in Runs(t, c), pos <= r[2] PROVE FALSE
    <2>1. \A r \in Runs(t, c) : r[2] < pos \/ pos <= r[2]
      BY RunsAre
    <2> QED BY <2>1 DEF Passed
  <1>1. /\ r[1] \in 1 .. Len(t) /\ r[2] \in 1 .. Len(t) /\ r[1] <= r[2]
        /\ \A i \in r[1] .. r[2] : t[i] # c
    BY RunsAre
  <1>2. r[2] \in r[1] .. r[2]
    BY <1>1
  <1>3. CASE pos = r[2]
    BY <1>1, <1>2, <1>3
  <1>4. CASE pos < r[2]
    BY <1>1, <1>2, <1>4
  <1> QED BY <1>1, <1>3, <1>4

LEMMA NextRun ==
  ASSUME NEW t \in Seq(Byte), NEW c, NEW pos \in 0 .. Len(t), pos = 0 \/ t[pos] = c,
         NEW b \in pos .. Len(t), \A i \in pos + 1 .. b : t[i] = c,
         NEW e \in b + 1 .. Len(t), \A i \in b + 1 .. e : t[i] # c,
         e = Len(t) \/ t[e + 1] = c
  PROVE  /\ <<b + 1, e>> \in Runs(t, c)
         /\ Passed(t, c, e + 1) = Passed(t, c, pos) \cup {<<b + 1, e>>}
         /\ {q \in Runs(t, c) : q[1] < b + 1} = Passed(t, c, pos)
         /\ Cardinality(Passed(t, c, e + 1)) = Cardinality(Passed(t, c, pos)) + 1
         /\ Cardinality(Passed(t, c, pos)) \in Nat
  <1> DEFINE new == <<b + 1, e>>
  <1>1. pos \in Nat /\ b \in Nat /\ e \in Nat /\ Len(t) \in Nat /\ pos <= b /\ b < e /\ e <= Len(t)
    OBVIOUS
  <1>2. b = 0 \/ t[b] = c
    <2>1. b = pos \/ b \in pos + 1 .. b
      BY <1>1
    <2> QED BY <2>1
  <1>3. new \in Runs(t, c)
    <2>1. b + 1 \in 1 .. Len(t) /\ e \in 1 .. Len(t) /\ (b + 1) - 1 = b /\ b + 1 <= e
      BY <1>1
    <2> QED BY <1>2, <2>1 DEF Runs
  <1>4. ASSUME NEW r \in Runs(t, c), pos <= r[2] PROVE b + 1 <= r[1]
    <2>1. /\ r[1] \in 1 .. Len(t) /\ r[2] \in 1 .. Len(t) /\ r[1] <= r[2]
          /\ \A i \in r[1] .. r[2] : t[i] # c
      BY RunsAre
    <2>2. ~(r[1] <= pos)
      <3> SUFFICES ASSUME r[1] <= pos PROVE FALSE
        OBVIOUS
      <3>1. pos \in r[1] .. r[2] /\ pos # 0
        BY <1>1, <1>4, <2>1
      <3> QED BY <2>1, <3>1
    <2>3. ~(r[1] \in pos + 1 .. b)
      <3>1. r[1] \in r[1] .. r[2]
        BY <2>1
      <3> QED BY <2>1, <3>1
    <2> QED BY <1>1, <2>1, <2>2, <2>3
  <1>5. ASSUME NEW r \in Runs(t, c), pos <= r[2], r[2] <= e PROVE r = new
    <2>1. /\ r[1] \in 1 .. Len(t) /\ r[2] \in 1 .. Len(t) /\ r[1] <= r[2]
          /\ r = <<r[1], r[2]>>
          /\ r[1] = 1 \/ t[r[1] - 1] = c
          /\ r[2] = Len(t) \/ t[r[2] + 1] = c
      BY RunsAre
    <2>2. b + 1 <= r[1]
      BY <1>4, <1>5
    <2>3. r[1] = b + 1
      <3> SUFFICES ASSUME r[1] # b + 1 PROVE FALSE
        OBVIOUS
      <3>1. r[1] - 1 \in b + 1 .. e /\ r[1] # 1
        BY <1>1, <1>5, <2>1, <2>2
      <3> QED BY <2>1, <3>1
    <2>4. r[2] = e
      <3> SUFFICES ASSUME r[2] # e PROVE FALSE
        OBVIOUS
      <3>1. r[2] + 1 \in b + 1 .. e /\ r[2] # Len(t)
        BY <1>1, <1>5, <2>1, <2>2
      <3> QED BY <2>1, <3>1
    <2> QED BY <2>1, <2>3, <2>4
  <1>6. \A r \in Runs(t, c) : r[1] \in Nat /\ r[2] \in Nat /\ r[1] <= r[2]
    BY RunsAre
  <1>7. new[1] = b + 1 /\ new[2] = e
    OBVIOUS
  <1> HIDE DEF new
  <1>8. Passed(t, c, e + 1) = Passed(t, c, pos) \cup {new}
    <2>1. ASSUME NEW r \in Runs(t, c), r[2] < e + 1, ~(r[2] < pos) PROVE r = new
      BY <1>1, <1>5, <1>6, <2>1
    <2>2. \A r \in Runs(t, c) : r[2] < pos => r[2] < e + 1
      BY <1>1, <1>6
    <2>3. new[2] < e + 1
      BY <1>1, <1>7
    <2> QED BY <1>3, <2>1, <2>2, <2>3 DEF Passed
  <1>9. {q \in Runs(t, c) : q[1] < b + 1} = Passed(t, c, pos)
    <2>1. ASSUME NEW r \in Runs(t, c), r[1] < b + 1 PROVE r[2] < pos
      BY <1>1, <1>4, <1>6, <2>1
    <2>2. \A r \in Runs(t, c) : r[2] < pos => r[1] < b + 1
      BY <1>1, <1>6
    <2> QED BY <2>1, <2>2 DEF Passed
  <1>10. /\ Cardinality(Passed(t, c, e + 1)) = Cardinality(Passed(t, c, pos)) + 1
         /\ Cardinality(Passed(t, c, pos)) \in Nat
    <2>1. IsFiniteSet(Passed(t, c, pos))
      <3>1. Passed(t, c, pos) \subseteq Runs(t, c) /\ IsFiniteSet(Runs(t, c))
        BY RunsAre DEF Passed
      <3> QED BY <3>1, FS_Subset
    <2>2. new \notin Passed(t, c, pos)
      BY <1>1, <1>7 DEF Passed
    <2> QED BY <1>8, <2>1, <2>2, FS_AddElement, FS_CardinalityType
  <1> QED BY <1>3, <1>8, <1>9, <1>10 DEF new

-----------------------------------------------------------------------------
(* n bytes from a on are not zero, and the next one is.                    *)
EndsAfter(m, a, n) ==
    /\ n \in 0 .. Top + 1 /\ m[a + n] = 0
    /\ \A i \in 0 .. n - 1 : m[a + i] # 0

(* The two searches of strtok.                                             *)
Skipped(m, a, c) == Exit(LAMBDA i : m[a + i] # 0 /\ m[a + i] \in {c})
Scanned(m, a, c) == Exit(LAMBDA i : m[a + i] # 0 /\ m[a + i] \notin {c})

LEMMA SkippedIs ==
  ASSUME NEW m, NEW a, NEW n, EndsAfter(m, a, n), NEW c
  PROVE  /\ Skipped(m, a, c) \in 0 .. n
         /\ \A i \in 0 .. Skipped(m, a, c) - 1 : m[a + i] = c
         /\ Skipped(m, a, c) < n => m[a + Skipped(m, a, c)] # c
  <1> DEFINE k == Skipped(m, a, c)
             stop == {i \in 0 .. Top + 1 : ~(m[a + i] # 0 /\ m[a + i] \in {c})}
  <1>1. n \in 0 .. Top + 1 /\ n \in Nat /\ m[a + n] = 0 /\ \A i \in 0 .. n - 1 : m[a + i] # 0
    BY StringsAssumption DEF EndsAfter
  <1>2. n \in stop
    BY <1>1
  <1>3. PICK e \in 0 .. n : e \in stop /\ \A i \in 0 .. e - 1 : i \notin stop
    <2> HIDE DEF stop
    <2> QED BY <1>1, <1>2, FirstStop
  <1>4. \A i \in 0 .. e - 1 : i \in 0 .. Top + 1
    BY <1>1, <1>3, StringsAssumption
  <1>5. /\ e \in 0 .. Top + 1 /\ ~(m[a + e] # 0 /\ m[a + e] \in {c})
        /\ \A i \in 0 .. e - 1 : m[a + i] # 0 /\ m[a + i] \in {c}
    BY <1>3, <1>4
  <1>6. /\ k \in 0 .. Top + 1 /\ ~(m[a + k] # 0 /\ m[a + k] \in {c})
        /\ \A i \in 0 .. k - 1 : m[a + i] # 0 /\ m[a + i] \in {c}
    BY <1>5 DEF Exit, Skipped
  <1> HIDE DEF k, stop
  <1>7. k \in 0 .. n
    <2>1. n < k => n \in 0 .. k - 1
      BY <1>1, <1>6
    <2> QED BY <1>1, <1>6, <2>1
  <1>8. k < n => k \in 0 .. n - 1
    BY <1>1, <1>7
  <1> QED BY <1>1, <1>6, <1>7, <1>8 DEF k

LEMMA ScannedIs ==
  ASSUME NEW m, NEW a, NEW n, EndsAfter(m, a, n), NEW c
  PROVE  /\ Scanned(m, a, c) \in 0 .. n
         /\ \A i \in 0 .. Scanned(m, a, c) - 1 : m[a + i] # c
         /\ Scanned(m, a, c) < n => m[a + Scanned(m, a, c)] = c
  <1> DEFINE k == Scanned(m, a, c)
             stop == {i \in 0 .. Top + 1 : ~(m[a + i] # 0 /\ m[a + i] \notin {c})}
  <1>1. n \in 0 .. Top + 1 /\ n \in Nat /\ m[a + n] = 0 /\ \A i \in 0 .. n - 1 : m[a + i] # 0
    BY StringsAssumption DEF EndsAfter
  <1>2. n \in stop
    BY <1>1
  <1>3. PICK e \in 0 .. n : e \in stop /\ \A i \in 0 .. e - 1 : i \notin stop
    <2> HIDE DEF stop
    <2> QED BY <1>1, <1>2, FirstStop
  <1>4. \A i \in 0 .. e - 1 : i \in 0 .. Top + 1
    BY <1>1, <1>3, StringsAssumption
  <1>5. /\ e \in 0 .. Top + 1 /\ ~(m[a + e] # 0 /\ m[a + e] \notin {c})
        /\ \A i \in 0 .. e - 1 : m[a + i] # 0 /\ m[a + i] \notin {c}
    BY <1>3, <1>4
  <1>6. /\ k \in 0 .. Top + 1 /\ ~(m[a + k] # 0 /\ m[a + k] \notin {c})
        /\ \A i \in 0 .. k - 1 : m[a + i] # 0 /\ m[a + i] \notin {c}
    BY <1>5 DEF Exit, Scanned
  <1> HIDE DEF k, stop
  <1>7. k \in 0 .. n
    <2>1. n < k => n \in 0 .. k - 1
      BY <1>1, <1>6
    <2> QED BY <1>1, <1>6, <2>1
  <1>8. k < n => k \in 0 .. n - 1
    BY <1>1, <1>7
  <1> QED BY <1>1, <1>6, <1>7, <1>8 DEF k

(* The runs before r.                                                      *)
RunsBefore(t, c, r) == {q \in Runs(t, c) : q[1] < r[1]}

(* tok is the token that r is the run of, the ith one.                     *)
IsToken(m, bef, d, c, tok, i, r) ==
    /\ Cardinality(RunsBefore(Text(bef, d), c, r)) = i - 1
    /\ tok = d + r[1] - 1
    /\ m[d + r[2]] = 0
    /\ \A a \in d + r[1] - 1 .. d + r[2] - 1 : m[a] = bef[a]

(* A series of calls has passed the offset pos of the string at d.         *)
Series(m, bef, toks, d, c, pos) ==
    LET t == Text(bef, d)
    IN  /\ StringAt(bef, d) /\ m \in [Cells -> Byte] /\ c \in Byte \ {0}
        /\ pos \in 0 .. Len(t) + 1
        /\ pos = 0 \/ pos = Len(t) + 1 \/ t[pos] = c
        /\ \A a \in Cells : a >= d + pos => m[a] = bef[a]
        /\ toks \in Seq(Nat) /\ Len(toks) = Cardinality(Passed(t, c, pos))
        /\ \A i \in 1 .. Len(toks) : \E r \in Passed(t, c, pos) :
              IsToken(m, bef, d, c, toks[i], i, r)

LEMMA SeriesStarts ==
  ASSUME NEW m, NEW d, StringAt(m, d), NEW c \in Byte \ {0}
  PROVE  Series(m, m, << >>, d, c, 0)
  <1> DEFINE t == Text(m, d)
  <1>1. t \in Seq(Byte)
    BY TextIs
  <1> HIDE DEF t
  <1>2. Passed(t, c, 0) = {}
    <2>1. \A r \in Runs(t, c) : ~(r[2] < 0)
      BY <1>1, RunsAre
    <2> QED BY <2>1 DEF Passed
  <1>3. << >> \in Seq(Nat) /\ Len(<< >>) = 0 /\ Cardinality(Passed(t, c, 0)) = 0
    BY <1>2, FS_EmptySet
  <1>4. 0 \in 0 .. Len(t) + 1
    BY <1>1
  <1> QED BY <1>3, <1>4 DEF Series, StringAt, t

(* What is left of the string, as strtok reads it.                         *)
LEMMA Remaining ==
  ASSUME NEW m, NEW bef, NEW toks, NEW d, NEW c, NEW pos, Series(m, bef, toks, d, c, pos),
         pos <= Len(Text(bef, d))
  PROVE  /\ EndsAfter(m, d + pos, Len(Text(bef, d)) - pos)
         /\ \A i \in 1 .. Len(Text(bef, d)) - pos : m[d + pos + (i - 1)] = Text(bef, d)[pos + i]
         /\ Text(bef, d) \in Seq(Byte \ {0}) /\ d \in Nat /\ pos \in 0 .. Len(Text(bef, d))
         /\ d + Len(Text(bef, d)) \in Cells /\ bef[d + Len(Text(bef, d))] = 0
         /\ Len(Text(bef, d)) \in Nat
  <1> DEFINE t == Text(bef, d)
             l == strlen(bef, d)
  <1>1. /\ StringAt(bef, d) /\ pos \in 0 .. Len(t) + 1
        /\ \A a \in Cells : a >= d + pos => m[a] = bef[a]
    BY DEF Series
  <1>2. /\ l \in Nat /\ l \in 0 .. Top + 1 /\ d \in Nat /\ d \in Cells
        /\ bef[d + l] = 0 /\ d + l \in Cells
        /\ \A j \in 0 .. l - 1 : bef[d + j] # 0
    BY <1>1, StrlenIs
  <1>3. t \in Seq(Byte \ {0}) /\ Len(t) = l /\ \A i \in 1 .. l : t[i] = bef[d + i - 1]
    BY <1>1, TextIs
  <1>4. pos <= Len(t)
    OBVIOUS
  <1> HIDE DEF l, t
  <1>5. pos \in 0 .. l /\ pos \in Nat
    BY <1>1, <1>2, <1>3, <1>4
  <1>6. ASSUME NEW i \in 0 .. l - pos
        PROVE  m[d + pos + i] = bef[d + (pos + i)]
    <2>1. d + pos + i = d + (pos + i) /\ d + (pos + i) \in Cells /\ d + (pos + i) >= d + pos
      BY <1>2, <1>5, StringsAssumption DEF Cells
    <2> QED BY <1>1, <2>1
  <1>7. EndsAfter(m, d + pos, l - pos)
    <2>1. l - pos \in 0 .. Top + 1 /\ l - pos \in 0 .. l - pos /\ pos + (l - pos) = l
      BY <1>2, <1>5, StringsAssumption
    <2>2. m[d + pos + (l - pos)] = 0
      BY <1>2, <1>6, <2>1
    <2>3. ASSUME NEW i \in 0 .. (l - pos) - 1 PROVE m[d + pos + i] # 0
      <3>1. i \in 0 .. l - pos /\ pos + i \in 0 .. l - 1
        BY <1>2, <1>5
      <3> QED BY <1>2, <1>6, <3>1
    <2> QED BY <2>1, <2>2, <2>3 DEF EndsAfter
  <1>8. ASSUME NEW i \in 1 .. l - pos PROVE m[d + pos + (i - 1)] = t[pos + i]
    <2>1. i - 1 \in 0 .. l - pos /\ pos + i \in 1 .. l /\ d + (pos + (i - 1)) = d + (pos + i) - 1
      BY <1>2, <1>5
    <2> QED BY <1>3, <1>6, <2>1
  <1> QED BY <1>2, <1>3, <1>5, <1>7, <1>8 DEF t

LEMMA SeriesEnds ==
  ASSUME NEW m, NEW bef, NEW toks, NEW d, NEW c, NEW pos, Series(m, bef, toks, d, c, pos),
         pos <= Len(Text(bef, d)),
         m[d + pos + Skipped(m, d + pos, c)] = 0
  PROVE  Series(m, bef, toks, d, c, Len(Text(bef, d)) + 1)
  <1> DEFINE t == Text(bef, d)
             l == Len(t)
             k == Skipped(m, d + pos, c)
  <1>1. /\ EndsAfter(m, d + pos, l - pos)
        /\ \A i \in 1 .. l - pos : m[d + pos + (i - 1)] = t[pos + i]
        /\ t \in Seq(Byte \ {0}) /\ d \in Nat /\ pos \in 0 .. l /\ l \in Nat
    BY Remaining
  <1>2. /\ StringAt(bef, d) /\ m \in [Cells -> Byte] /\ c \in Byte \ {0}
        /\ pos = 0 \/ pos = l + 1 \/ t[pos] = c
        /\ \A a \in Cells : a >= d + pos => m[a] = bef[a]
        /\ toks \in Seq(Nat) /\ Len(toks) = Cardinality(Passed(t, c, pos))
        /\ \A i \in 1 .. Len(toks) : \E r \in Passed(t, c, pos) :
              IsToken(m, bef, d, c, toks[i], i, r)
    BY DEF Series
  <1>3. /\ k \in 0 .. l - pos
        /\ \A i \in 0 .. k - 1 : m[d + pos + i] = c
    BY <1>1, SkippedIs
  <1>4. m[d + pos + k] = 0
    OBVIOUS
  <1> HIDE DEF k, l, t
  <1>5. k = l - pos
    <2>1. k # l - pos => k \in 0 .. (l - pos) - 1
      BY <1>1, <1>3
    <2> QED BY <1>1, <1>4, <2>1 DEF EndsAfter
  <1>6. ASSUME NEW i \in pos + 1 .. l PROVE t[i] = c
    <2>1. i - pos \in 1 .. l - pos /\ i - pos - 1 \in 0 .. k - 1 /\ pos + (i - pos) = i
      BY <1>1, <1>5
    <2> QED BY <1>1, <1>3, <2>1
  <1>7. t \in Seq(Byte) /\ pos \in 0 .. l /\ (pos = 0 \/ t[pos] = c)
    BY <1>1, <1>2
  <1>8. Passed(t, c, pos) = Runs(t, c)
    BY <1>6, <1>7, NoneIsLeft DEF l
  <1>9. Passed(t, c, l + 1) = Runs(t, c)
    <2>1. \A r \in Runs(t, c) : r[2] < l + 1
      BY <1>1, <1>7, RunsAre DEF l
    <2> QED BY <2>1 DEF Passed
  <1>10. \A a \in Cells : a >= d + (l + 1) => m[a] = bef[a]
    <2>1. \A a \in Cells : a >= d + (l + 1) => a >= d + pos
      BY <1>1 DEF Cells
    <2> QED BY <1>2, <2>1
  <1>11. l + 1 \in 0 .. l + 1
    BY <1>1
  <1> QED BY <1>2, <1>8, <1>9, <1>10, <1>11 DEF Series, l, t

LEMMA SeriesGoesOn ==
  ASSUME NEW m, NEW bef, NEW toks, NEW d, NEW c, NEW pos, Series(m, bef, toks, d, c, pos),
         pos <= Len(Text(bef, d)),
         NEW start, start = d + pos + Skipped(m, d + pos, c), m[start] # 0,
         NEW end, end = start + Scanned(m, start, c)
  PROVE  /\ start \in Nat /\ end \in Nat
         /\ m[end] = 0 => Series(m, bef, Append(toks, start), d, c, Len(Text(bef, d)) + 1)
         /\ m[end] # 0 => /\ end + 1 - d <= Len(Text(bef, d)) /\ end + 1 \in Nat
                          /\ Series([m EXCEPT ![end] = 0], bef, Append(toks, start), d, c,
                                    end + 1 - d)
  <1> DEFINE t == Text(bef, d)
             l == Len(t)
             k == Skipped(m, d + pos, c)
             b == pos + k
             j == Scanned(m, start, c)
             e == b + j
             new == <<b + 1, e>>
             more == Append(toks, start)
             cut == [m EXCEPT ![end] = 0]
  <1>1. /\ EndsAfter(m, d + pos, l - pos)
        /\ \A i \in 1 .. l - pos : m[d + pos + (i - 1)] = t[pos + i]
        /\ t \in Seq(Byte \ {0}) /\ d \in Nat /\ pos \in 0 .. l /\ l \in Nat
        /\ d + l \in Cells /\ bef[d + l] = 0
    BY Remaining
  <1>2. /\ StringAt(bef, d) /\ m \in [Cells -> Byte] /\ c \in Byte \ {0}
        /\ pos = 0 \/ pos = l + 1 \/ t[pos] = c
        /\ \A a \in Cells : a >= d + pos => m[a] = bef[a]
        /\ toks \in Seq(Nat) /\ Len(toks) = Cardinality(Passed(t, c, pos))
        /\ \A i \in 1 .. Len(toks) : \E r \in Passed(t, c, pos) :
              IsToken(m, bef, d, c, toks[i], i, r)
    BY DEF Series
  <1>3. /\ k \in 0 .. l - pos
        /\ \A i \in 0 .. k - 1 : m[d + pos + i] = c
        /\ k < l - pos => m[d + pos + k] # c
    BY <1>1, SkippedIs
  <1>4. start = d + pos + k /\ m[start] # 0 /\ end = start + j
    OBVIOUS
  <1> HIDE DEF k, l, t
  <1>5. k < l - pos
    <2>1. k = l - pos => m[d + pos + k] = 0
      BY <1>1 DEF EndsAfter
    <2> QED BY <1>1, <1>3, <1>4, <2>1
  <1>6. /\ b \in pos .. l /\ b < l /\ b \in Nat /\ start = d + b /\ start \in Nat
        /\ (l - pos) - k = l - b /\ pos \in Nat /\ k \in Nat /\ b = pos + k /\ pos <= b
        /\ d \in Nat /\ l \in Nat
    BY <1>1, <1>3, <1>4, <1>5
  <1> HIDE DEF b
  <1>7. EndsAfter(m, start, l - b)
    <2>1. /\ l - b \in 0 .. Top + 1 /\ start + (l - b) = d + pos + (l - pos)
          /\ \A i \in 0 .. (l - b) - 1 : k + i \in 0 .. (l - pos) - 1 /\ start + i = d + pos + (k + i)
      BY <1>1, <1>4, <1>6, StringsAssumption DEF EndsAfter
    <2>2. m[start + (l - b)] = 0
      BY <1>1, <2>1 DEF EndsAfter
    <2>3. ASSUME NEW i \in 0 .. (l - b) - 1 PROVE m[start + i] # 0
      BY <1>1, <2>1 DEF EndsAfter
    <2> QED BY <2>1, <2>2, <2>3 DEF EndsAfter
  <1>8. /\ j \in 0 .. l - b
        /\ \A i \in 0 .. j - 1 : m[start + i] # c
        /\ j < l - b => m[start + j] = c
    <2> QED BY <1>7, ScannedIs
  <1>9. m[start] # c
    BY <1>3, <1>4, <1>5
  <1> HIDE DEF j
  <1>10. j # 0
    <2> SUFFICES ASSUME j = 0 PROVE FALSE
      OBVIOUS
    <2>1. start + j = start /\ j < l - b
      BY <1>6
    <2> QED BY <1>8, <1>9, <2>1
  <1>11. /\ e \in b + 1 .. l /\ end = d + e /\ e \in Nat /\ j \in Nat
         /\ e = b + j /\ b < e /\ e <= l
    BY <1>4, <1>6, <1>8, <1>10
  <1> HIDE DEF e
  <1>12. \A i \in pos + 1 .. b : t[i] = c
    <2> SUFFICES ASSUME NEW i \in pos + 1 .. b PROVE t[i] = c
      OBVIOUS
    <2>1. i - pos \in 1 .. l - pos /\ i - pos - 1 \in 0 .. k - 1 /\ pos + (i - pos) = i
      BY <1>1, <1>6
    <2> QED BY <1>1, <1>3, <2>1
  <1>13. \A i \in b + 1 .. e : t[i] # c
    <2> SUFFICES ASSUME NEW i \in b + 1 .. e PROVE t[i] # c
      OBVIOUS
    <2>1. /\ i - pos \in 1 .. l - pos /\ pos + (i - pos) = i /\ i - b - 1 \in 0 .. j - 1
          /\ d + pos + (i - pos - 1) = start + (i - b - 1)
      BY <1>6, <1>11
    <2> QED BY <1>1, <1>8, <2>1
  <1>14. e < l => t[e + 1] = c
    <2> SUFFICES ASSUME e < l PROVE t[e + 1] = c
      OBVIOUS
    <2>1. PICK i \in 1 .. l - pos : pos + i = e + 1 /\ j < l - b /\ d + pos + (i - 1) = start + j
      BY <1>6, <1>11
    <2> QED BY <1>1, <1>8, <2>1
  <1>15. /\ m[end] = 0 <=> e = l
         /\ end \in Cells /\ end >= d + pos /\ bef[end] = m[end]
    <2>1. /\ j \in 0 .. l - b /\ (e = l <=> j = l - b) /\ end = start + j
          /\ j # l - b => j \in 0 .. (l - b) - 1
      BY <1>4, <1>6, <1>8, <1>11
    <2>2. m[end] = 0 <=> e = l
      BY <1>7, <2>1 DEF EndsAfter
    <2>3. end \in Cells /\ end >= d + pos
      BY <1>1, <1>6, <1>11, StringsAssumption DEF Cells
    <2> QED BY <1>2, <2>2, <2>3
  <1>16. /\ new \in Runs(t, c)
         /\ Passed(t, c, e + 1) = Passed(t, c, pos) \cup {new}
         /\ {q \in Runs(t, c) : q[1] < b + 1} = Passed(t, c, pos)
         /\ Cardinality(Passed(t, c, e + 1)) = Cardinality(Passed(t, c, pos)) + 1
         /\ Cardinality(Passed(t, c, pos)) \in Nat
    <2>1. /\ t \in Seq(Byte) /\ pos \in 0 .. l /\ (pos = 0 \/ t[pos] = c)
          /\ b \in pos .. l /\ e \in b + 1 .. l /\ (e = l \/ t[e + 1] = c)
      BY <1>1, <1>2, <1>6, <1>11, <1>14
    <2> HIDE DEF new
    <2> QED BY <1>12, <1>13, <2>1, NextRun DEF l, new
  <1>17. new[1] = b + 1 /\ new[2] = e
    OBVIOUS
  <1>18. /\ more \in Seq(Nat) /\ Len(more) = Len(toks) + 1 /\ Len(toks) \in Nat
         /\ \A i \in 1 .. Len(toks) : more[i] = toks[i]
         /\ more[Len(toks) + 1] = start
    <2>1. toks \in Seq(Nat) /\ start \in Nat
      BY <1>2, <1>6
    <2> QED BY <2>1, AppendProperties
  <1> HIDE DEF new, more, cut
  (* Whatever becomes of the memory from the end of the token on.          *)
  <1>19. ASSUME NEW now \in [Cells -> Byte], now[end] = 0,
                \A a \in Cells : a # end => now[a] = m[a]
         PROVE  Series(now, bef, more, d, c, e + 1)
    <2>1. \A a \in Cells : a >= d + (e + 1) => now[a] = bef[a]
      <3>1. \A a \in Cells : a >= d + (e + 1) => a # end /\ a >= d + pos
        BY <1>1, <1>6, <1>11 DEF Cells
      <3> QED BY <1>2, <1>19, <3>1
    <2>2. ASSUME NEW i \in 1 .. Len(toks), NEW r \in Passed(t, c, pos),
                 IsToken(m, bef, d, c, toks[i], i, r)
          PROVE  IsToken(now, bef, d, c, more[i], i, r)
      <3> DEFINE lo == d + r[1] - 1
                 hi == d + r[2]
                 z == d + r[2] - 1
      <3>1. /\ r[1] \in 1 .. l /\ r[2] \in 1 .. l /\ r[1] <= r[2] /\ r[2] < pos
        <4>1. t \in Seq(Byte)
          BY <1>1
        <4> QED BY <4>1, RunsAre DEF Passed, l
      <3>2. lo \in Nat /\ hi \in Nat /\ lo <= hi /\ hi <= d + l /\ hi < end /\ z \in Int /\ z <= hi
        <4>1. PICK x \in 1 .. l, y \in 1 .. l : r[1] = x /\ r[2] = y /\ x <= y /\ y < pos
          BY <3>1
        <4>2. lo = d + x - 1 /\ hi = d + y /\ z = d + y - 1
          BY <4>1
        <4>3. x \in Nat /\ y \in Nat /\ 1 <= x /\ x <= y /\ y < pos /\ y <= l
          BY <1>6, <4>1
        <4>4. d + x - 1 \in Nat /\ d + x - 1 <= d + y /\ d + y <= d + l /\ d + y < end
                /\ d + y - 1 \in Int /\ d + y - 1 <= d + y
          BY <1>6, <1>11, <4>3
        <4>5. d + y \in Nat
          BY <1>6, <4>3
        <4> HIDE DEF lo, hi, z
        <4> QED BY <4>2, <4>4, <4>5
      <3> HIDE DEF lo, hi, z
      <3>5. \A a \in lo .. hi : a \in Cells /\ a # end
        BY <1>1, <1>6, <1>11, <3>2, StringsAssumption DEF Cells
      <3>3. hi \in lo .. hi /\ \A a \in lo .. z : a \in lo .. hi
        BY <3>2
      <3>4. now[hi] = m[hi] /\ \A a \in lo .. z : now[a] = m[a]
        BY <1>19, <3>5, <3>3
      <3>6. /\ toks[i] = d + r[1] - 1 /\ m[hi] = 0
            /\ \A a \in lo .. z : m[a] = bef[a]
            /\ Cardinality(RunsBefore(t, c, r)) = i - 1
        BY <2>2 DEF IsToken, lo, hi, z, t
      <3>7. /\ more[i] = d + r[1] - 1 /\ now[hi] = 0
            /\ \A a \in lo .. z : now[a] = bef[a]
        BY <1>18, <3>4, <3>6
      <3> QED BY <3>6, <3>7 DEF IsToken, lo, hi, z, t
    <2>3. IsToken(now, bef, d, c, start, Len(toks) + 1, new)
      <3>1. Cardinality(RunsBefore(t, c, new)) = (Len(toks) + 1) - 1
        <4>1. Cardinality(RunsBefore(t, c, new)) = Len(toks)
          BY <1>2, <1>16, <1>17 DEF RunsBefore
        <4> QED BY <1>18, <4>1
      <3>2. start = d + new[1] - 1 /\ d + new[2] = end
        <4>1. start = d + (b + 1) - 1 /\ d + e = end
          BY <1>6, <1>11
        <4> QED BY <1>17, <4>1
      <3>3. \A a \in d + new[1] - 1 .. d + new[2] - 1 : now[a] = bef[a]
        <4>1. \A a \in d + new[1] - 1 .. d + new[2] - 1 :
                 a \in Cells /\ a # end /\ a >= d + pos
          BY <1>1, <1>6, <1>11, <1>17, StringsAssumption DEF Cells
        <4> QED BY <1>2, <1>19, <4>1
      <3> QED BY <1>19, <3>1, <3>2, <3>3 DEF IsToken, t
    <2>4. ASSUME NEW i \in 1 .. Len(more)
          PROVE  \E r \in Passed(t, c, e + 1) : IsToken(now, bef, d, c, more[i], i, r)
      <3>1. CASE i \in 1 .. Len(toks)
        <4>1. PICK r \in Passed(t, c, pos) : IsToken(m, bef, d, c, toks[i], i, r)
          BY <1>2, <3>1
        <4>2. IsToken(now, bef, d, c, more[i], i, r)
          BY <2>2, <3>1, <4>1
        <4> QED BY <1>16, <4>2
      <3>2. CASE i = Len(toks) + 1
        BY <1>16, <1>18, <2>3, <3>2
      <3> QED BY <1>18, <3>1, <3>2
    <2>5. e + 1 \in 0 .. l + 1 /\ (e + 1 = l + 1 \/ t[e + 1] = c)
      BY <1>1, <1>6, <1>11, <1>14
    <2>6. Len(more) = Cardinality(Passed(t, c, e + 1))
      BY <1>2, <1>16, <1>18
    <2> QED BY <1>2, <1>18, <1>19, <2>1, <2>4, <2>5, <2>6 DEF Series, l, t
  <1>20. m[end] = 0 => Series(m, bef, more, d, c, l + 1)
    BY <1>2, <1>15, <1>19
  <1>21. ASSUME m[end] # 0
         PROVE  /\ end + 1 - d <= l /\ end + 1 \in Nat
                /\ Series(cut, bef, more, d, c, end + 1 - d)
    <2>1. end + 1 - d = e + 1 /\ end + 1 - d <= l /\ end + 1 \in Nat
      <3>1. e # l
        BY <1>15, <1>21
      <3>2. d \in Nat /\ e \in Nat /\ l \in Nat /\ e <= l /\ end = d + e
        BY <1>6, <1>11
      <3> QED BY <3>1, <3>2
    <2>2. /\ cut \in [Cells -> Byte] /\ cut[end] = 0
          /\ \A a \in Cells : a # end => cut[a] = m[a]
      <3>1. 0 \in Byte
        BY StringsAssumption DEF Byte
      <3> QED BY <1>2, <1>15, <3>1 DEF cut
    <2> QED BY <1>19, <2>1, <2>2
  <1> QED BY <1>6, <1>11, <1>20, <1>21 DEF l, t, more, cut

LEMMA TokenText ==
  ASSUME NEW m \in [Cells -> Byte], NEW bef, NEW d, NEW c, NEW tok, NEW i,
         StringAt(bef, d),
         NEW r \in Runs(Text(bef, d), c), IsToken(m, bef, d, c, tok, i, r)
  PROVE  Text(m, tok) = SubSeq(Text(bef, d), r[1], r[2])
  <1> DEFINE t == Text(bef, d)
             l == strlen(bef, d)
             w == SubSeq(t, r[1], r[2])
             u == Text(m, tok)
             k == strlen(m, tok)
  <1>1. l \in Nat /\ d \in Nat /\ d + l \in Cells
    BY StrlenIs
  <1>2. t \in Seq(Byte \ {0}) /\ t \in Seq(Byte) /\ Len(t) = l
        /\ \A x \in 1 .. l : t[x] = bef[d + x - 1] /\ t[x] \in Byte \ {0}
    BY TextIs
  <1>3. PICK x \in 1 .. l, y \in 1 .. l : x = r[1] /\ y = r[2] /\ x <= y
    BY <1>2, RunsAre
  <1>4. /\ tok = d + x - 1 /\ m[d + y] = 0
        /\ \A a \in d + x - 1 .. d + y - 1 : m[a] = bef[a]
    BY <1>3 DEF IsToken
  <1> HIDE DEF l, t
  <1>5. /\ x \in Nat /\ y \in Nat /\ 1 <= x /\ y <= l
        /\ tok \in Nat /\ tok \in Cells /\ d + y \in Cells /\ d + y >= tok
        /\ tok + (y - x + 1) = d + y /\ y - x + 1 \in Nat
    <2>1. x \in Nat /\ y \in Nat /\ 1 <= x /\ y <= l /\ x <= y /\ y - x + 1 \in Nat
      BY <1>1, <1>3
    <2>2. tok = d + x - 1 /\ d \in Nat /\ d + l <= Top /\ Top \in Nat /\ l \in Nat
      BY <1>1, <1>4, StringsAssumption DEF Cells
    <2>3. tok \in Nat /\ tok <= d + y /\ d + y <= Top /\ tok + (y - x + 1) = d + y
      BY <2>1, <2>2
    <2> QED BY <2>1, <2>2, <2>3 DEF Cells
  <1>6. StringAt(m, tok)
    BY <1>4, <1>5 DEF StringAt
  <1>7. /\ k \in Nat /\ m[tok + k] = 0 /\ \A j \in 0 .. k - 1 : m[tok + j] # 0
        /\ Len(u) = k /\ u \in Seq(Byte \ {0})
        /\ \A j \in 1 .. k : u[j] = m[tok + j - 1]
    <2>1. k \in Nat /\ m[tok + k] = 0 /\ \A j \in 0 .. k - 1 : m[tok + j] # 0
      BY <1>6, StrlenIs
    <2>2. /\ Len(u) = k /\ u \in Seq(Byte \ {0})
          /\ \A j \in 1 .. k : u[j] = m[tok + j - 1]
      BY <1>6, TextIs
    <2> QED BY <2>1, <2>2
  <1>8. ASSUME NEW j \in 1 .. y - x + 1
        PROVE  m[tok + (j - 1)] = t[x + j - 1] /\ t[x + j - 1] # 0
    <2>1. /\ tok + (j - 1) = d + (x + j - 1) - 1 /\ x + j - 1 \in 1 .. l
          /\ tok + (j - 1) \in d + x - 1 .. d + y - 1
      BY <1>1, <1>3, <1>4, <1>5
    <2> QED BY <1>2, <1>4, <2>1
  <1> HIDE DEF k, u
  <1>9. k = y - x + 1
    <2>1. ~(y - x + 1 < k)
      <3>1. y - x + 1 < k => y - x + 1 \in 0 .. k - 1
        BY <1>5, <1>7
      <3> QED BY <1>4, <1>5, <1>7, <3>1
    <2>2. ~(k < y - x + 1)
      <3> SUFFICES ASSUME k < y - x + 1 PROVE FALSE
        OBVIOUS
      <3>1. k + 1 \in 1 .. y - x + 1 /\ (k + 1) - 1 = k
        BY <1>5, <1>7
      <3>2. m[tok + ((k + 1) - 1)] # 0
        BY <1>8, <3>1
      <3> QED BY <1>7, <3>1, <3>2
    <2> QED BY <1>5, <1>7, <2>1, <2>2
  <1>10. /\ w \in Seq(Byte \ {0}) /\ Len(w) = y - x + 1
         /\ \A j \in 1 .. y - x + 1 : w[j] = t[x + j - 1]
    <2>1. \A j \in x .. y : t[j] \in Byte \ {0}
      BY <1>1, <1>2, <1>5
    <2>2. w = SubSeq(t, x, y)
      BY <1>3
    <2>3. x \in Int /\ y \in Int /\ x <= y
      BY <1>3, <1>5
    <2>4. /\ SubSeq(t, x, y) \in Seq(Byte \ {0})
          /\ Len(SubSeq(t, x, y)) = IF x <= y THEN y - x + 1 ELSE 0
          /\ \A j \in 1 .. y - x + 1 : SubSeq(t, x, y)[j] = t[x + j - 1]
      BY <2>1, <2>3, SubSeqProperties
    <2> HIDE DEF w
    <2> QED BY <2>2, <2>3, <2>4
  <1> HIDE DEF w
  <1>11. \A j \in 1 .. k : u[j] = w[j]
    <2> SUFFICES ASSUME NEW j \in 1 .. k PROVE u[j] = w[j]
      OBVIOUS
    <2>1. j \in 1 .. y - x + 1 /\ tok + j - 1 = tok + (j - 1)
      BY <1>5, <1>9
    <2>2. u[j] = m[tok + (j - 1)]
      BY <1>7, <2>1
    <2>3. m[tok + (j - 1)] = t[x + j - 1]
      BY <1>8, <2>1
    <2> QED BY <1>10, <2>1, <2>2, <2>3
  <1>12. u = w
    BY <1>7, <1>9, <1>10, <1>11, SeqEqual
  <1> QED BY <1>12 DEF u, w, t

(* The tokens are the runs of t, in their order.                           *)
TokensAre(m, toks, t, d, c) ==
    \A i \in 1 .. Len(toks) : \E r \in Runs(t, c) :
        /\ Cardinality({q \in Runs(t, c) : q[1] < r[1]}) = i - 1
        /\ toks[i] = d + r[1] - 1
        /\ Text(m, toks[i]) = SubSeq(t, r[1], r[2])

LEMMA SeriesWorks ==
  ASSUME NEW m, NEW bef, NEW toks, NEW d, NEW c, NEW pos, Series(m, bef, toks, d, c, pos)
  PROVE  /\ pos = Len(Text(bef, d)) + 1 => Len(toks) = Cardinality(Runs(Text(bef, d), c))
         /\ TokensAre(m, toks, Text(bef, d), d, c)
  <1> DEFINE t == Text(bef, d)
  <1>1. /\ StringAt(bef, d) /\ m \in [Cells -> Byte]
        /\ Len(toks) = Cardinality(Passed(t, c, pos))
        /\ \A i \in 1 .. Len(toks) : \E r \in Passed(t, c, pos) :
              IsToken(m, bef, d, c, toks[i], i, r)
    BY DEF Series
  <1>2. t \in Seq(Byte) /\ Len(t) \in Nat
    BY <1>1, TextIs
  <1>3. pos = Len(t) + 1 => Passed(t, c, pos) = Runs(t, c)
    <2>1. \A r \in Runs(t, c) : r[2] < Len(t) + 1
      <3> HIDE DEF t
      <3> QED BY <1>2, RunsAre
    <2> QED BY <2>1 DEF Passed
  <1>4. ASSUME NEW i \in 1 .. Len(toks)
        PROVE  \E r \in Runs(t, c) :
                  /\ Cardinality({q \in Runs(t, c) : q[1] < r[1]}) = i - 1
                  /\ toks[i] = d + r[1] - 1
                  /\ Text(m, toks[i]) = SubSeq(t, r[1], r[2])
    <2>1. PICK r \in Passed(t, c, pos) : IsToken(m, bef, d, c, toks[i], i, r)
      BY <1>1
    <2>2. r \in Runs(t, c)
      BY DEF Passed
    <2>3. Text(m, toks[i]) = SubSeq(t, r[1], r[2])
      BY <1>1, <2>1, <2>2, TokenText
    <2>4. Cardinality(RunsBefore(t, c, r)) = i - 1 /\ toks[i] = d + r[1] - 1
      BY <2>1 DEF IsToken
    <2>5. Cardinality({q \in Runs(t, c) : q[1] < r[1]}) = i - 1
      BY <2>4 DEF RunsBefore
    <2> HIDE DEF t
    <2> QED BY <2>2, <2>3, <2>4, <2>5
  <1> QED BY <1>1, <1>3, <1>4 DEF TokensAre

-----------------------------------------------------------------------------
SeriesSound ==
    \E pos \in Int :
       /\ Series(mem, before, tokens, call.d, call.s, pos)
       /\ next = NULL => pos = Len(Text(before, call.d)) + 1
       /\ next # NULL => next = call.d + pos /\ pos <= Len(Text(before, call.d))

StringsInv ==
    /\ mem \in [Cells -> Byte]
    /\ before \in [Cells -> Byte]
    /\ call.f = "none" => mem = before /\ tokens = << >>
    /\ call.f = "strtok" => SeriesSound /\ (ret = NULL => next = NULL)
    /\ StringsDoTheirWork

(* A call of one function: what it changed, and what it returned.          *)
Called(f, d, s, n, w) ==
    /\ call' = [f |-> f, d |-> d, s |-> s, n |-> n]
    /\ before' = mem
    /\ mem' = With(mem, d, w) /\ w \in Seq(Byte)

LEMMA CalledKeeps ==
  ASSUME NEW f, NEW d \in Cells, NEW s, NEW n, NEW w, Called(f, d, s, n, w),
         mem \in [Cells -> Byte]
  PROVE  mem' \in [Cells -> Byte]
  <1>1. ASSUME NEW a \in Cells, a \in d .. d + Len(w) - 1 PROVE w[a - d + 1] \in Byte
    <2>1. w \in Seq(Byte) /\ Len(w) \in Nat
      BY DEF Called
    <2>2. a - d + 1 \in 1 .. Len(w)
      BY <1>1, <2>1 DEF Cells
    <2> QED BY <2>1, <2>2
  <1> QED BY <1>1 DEF Called, With

LEMMA MovesWork ==
  ASSUME StringsInv, call.f = "none", before' = before,
         NEW d \in Cells, NEW s \in Cells, NEW n \in Nat, Moves(d, s, n)
  PROVE  StringsDoTheirWork' /\ mem' \in [Cells -> Byte]
  <1>1. /\ InRoom(d, s, n) /\ mem \in [Cells -> Byte] /\ before' = mem
        /\ d \in Nat /\ s \in Nat
    BY StringsAssumption DEF Moves, Room, InRoom, StringsInv, Cells
  <1>5. Slice(mem, s, n) \in Seq(Byte)
    BY <1>1, SliceBytes DEF InRoom
  <1>2. CASE Of("memmove", d, s, n) /\ mem' = memmove(mem, d, s, n)
    <2>1. Called("memmove", d, s, n, Slice(mem, s, n))
      BY <1>1, <1>2, <1>5, MovesAre DEF Called, Of
    <2>2. mem' \in [Cells -> Byte]
      BY <1>1, <2>1, CalledKeeps
    <2> QED BY <2>1, <2>2 DEF Called, StringsDoTheirWork, Became, With
  <1>3. CASE Of("memcpy", d, s, n) /\ Apart(d, s, n) /\ mem' = memcpy(mem, d, s, n)
    <2>1. Called("memcpy", d, s, n, Slice(mem, s, n))
      BY <1>1, <1>3, <1>5, MovesAre DEF Called, Of
    <2>2. mem' \in [Cells -> Byte]
      BY <1>1, <2>1, CalledKeeps
    <2> QED BY <2>1, <2>2 DEF Called, StringsDoTheirWork, Became, With
  <1>4. CASE Of("memset", d, s, n) /\ mem' = memset(mem, d, s, n)
    <2>1. Called("memset", d, s, n, [i \in 1 .. n |-> s % Bytes])
      <3>1. s % Bytes \in Byte
        BY <1>1, StringsAssumption DEF Byte
      <3>2. [i \in 1 .. n |-> s % Bytes] \in Seq(Byte)
        BY <3>1
      <3> QED BY <1>1, <1>4, <3>2, MemsetIs DEF Called, Of
    <2>2. mem' \in [Cells -> Byte]
      BY <1>1, <2>1, CalledKeeps
    <2>3. StringsDoTheirWork'
      BY <2>1 DEF Called, StringsDoTheirWork, Became, With
    <2> QED BY <2>2, <2>3
  <1> QED BY <1>2, <1>3, <1>4 DEF Moves

LEMMA CopiesWork ==
  ASSUME StringsInv, call.f = "none", before' = before,
         NEW d \in Cells, NEW s \in Cells, NEW n \in Nat, Copies(d, s, n)
  PROVE  StringsDoTheirWork' /\ mem' \in [Cells -> Byte]
  <1> DEFINE l == strlen(mem, s)
             t == Text(mem, d)
             u == Text(mem, s)
  <1>1. /\ mem \in [Cells -> Byte] /\ before' = mem /\ StringAt(mem, s)
        /\ d \in Nat /\ s \in Nat /\ (IsString(d) => StringAt(mem, d))
    BY StringsAssumption DEF Copies, StringsInv, Cells, IsString, StringAt
  <1>2. l \in Nat /\ s + l \in Cells
    BY <1>1, StrlenIs
  <1>7. u \in Seq(Byte) /\ Zeros(1) \in Seq(Byte) /\ Zeros(n) \in Seq(Byte)
    BY <1>1, TextIs, ZerosAre
  <1>3. CASE /\ Of("strcpy", d, s, n)
             /\ Room(d, l + 1) /\ Apart(d, s, l + 1)
             /\ mem' = strcpy(mem, d, s)
    <2>1. InRoom(d, s, l + 1)
      BY <1>1, <1>2, <1>3, StringsAssumption DEF InRoom, Room, Cells
    <2>2. mem' = With(mem, d, u \o Zeros(1))
      BY <1>1, <1>3, <2>1, StrcpyIs
    <2>3. Called("strcpy", d, s, n, u \o Zeros(1))
      <3>1. (u \o Zeros(1)) \in Seq(Byte)
        BY <1>7
      <3> QED BY <1>1, <1>3, <2>2, <3>1 DEF Called, Of
    <2>4. mem' \in [Cells -> Byte]
      BY <1>1, <2>3, CalledKeeps
    <2> QED BY <2>3, <2>4 DEF Called, StringsDoTheirWork, Became, With
  <1>4. CASE /\ Of("strncpy", d, s, n)
             /\ Room(d, n) /\ (d + n <= s \/ s + l < d)
             /\ mem' = strncpy(mem, d, s, n)
    <2>1. d + n - 1 <= Top
      BY <1>4 DEF Room
    <2>2. mem' = With(mem, d, FirstOf(u \o Zeros(n), n))
      BY <1>1, <1>4, <2>1, StrncpyIs
    <2>3. Called("strncpy", d, s, n, FirstOf(u \o Zeros(n), n))
      <3>1. FirstOf(u \o Zeros(n), n) \in Seq(Byte)
        <4>1. u \o Zeros(n) \in Seq(Byte)
          BY <1>7
        <4> QED BY <4>1, FirstOfIs
      <3> QED BY <1>1, <1>4, <2>2, <3>1 DEF Called, Of
    <2>4. mem' \in [Cells -> Byte]
      BY <1>1, <2>3, CalledKeeps
    <2> QED BY <2>3, <2>4 DEF Called, StringsDoTheirWork, Became, With
  <1>5. CASE /\ Of("strcat", d, s, n)
             /\ IsString(d) /\ s + l < d /\ Room(d, strlen(mem, d) + l + 1)
             /\ mem' = strcat(mem, d, s)
    <2>1. d + strlen(mem, d) + l <= Top
      <3>1. strlen(mem, d) \in Nat
        BY <1>1, <1>5, StrlenIs
      <3> QED BY <1>1, <1>2, <1>5, <3>1, StringsAssumption DEF Room
    <2>2. mem' = With(mem, d, t \o u \o Zeros(1))
      BY <1>1, <1>5, <2>1, StrcatIs
    <2>3. Called("strcat", d, s, n, t \o u \o Zeros(1))
      <3>1. (t \o u \o Zeros(1)) \in Seq(Byte)
        <4>1. t \in Seq(Byte)
          BY <1>1, <1>5, TextIs
        <4> QED BY <1>7, <4>1
      <3> QED BY <1>1, <1>5, <2>2, <3>1 DEF Called, Of
    <2>4. mem' \in [Cells -> Byte]
      BY <1>1, <2>3, CalledKeeps
    <2> QED BY <2>3, <2>4 DEF Called, StringsDoTheirWork, Became, With
  <1>6. CASE /\ Of("strncat", d, s, n)
             /\ IsString(d) /\ s + l < d /\ Room(d, strlen(mem, d) + Min({n, l}) + 1)
             /\ mem' = strncat(mem, d, s, n)
    <2>1. d + strlen(mem, d) + Shorter(n, l) <= Top
      <3>1. strlen(mem, d) \in Nat
        BY <1>1, <1>6, StrlenIs
      <3>2. Min({n, l}) = Shorter(n, l) /\ Shorter(n, l) \in Nat
        BY <1>2, MinOf DEF Shorter
      <3> QED BY <1>1, <1>6, <3>1, <3>2, StringsAssumption DEF Room
    <2>2. mem' = With(mem, d, t \o FirstOf(u, n) \o Zeros(1))
      BY <1>1, <1>6, <2>1, StrncatIs
    <2>3. Called("strncat", d, s, n, t \o FirstOf(u, n) \o Zeros(1))
      <3>1. (t \o FirstOf(u, n) \o Zeros(1)) \in Seq(Byte)
        <4>1. t \in Seq(Byte)
          BY <1>1, <1>6, TextIs
        <4>2. FirstOf(u, n) \in Seq(Byte)
          BY <1>7, FirstOfIs
        <4> HIDE DEF t
        <4> QED BY <1>7, <4>1, <4>2
      <3> QED BY <1>1, <1>6, <2>2, <3>1 DEF Called, Of
    <2>4. mem' \in [Cells -> Byte]
      BY <1>1, <2>3, CalledKeeps
    <2> QED BY <2>3, <2>4 DEF Called, StringsDoTheirWork, Became, With
  <1> QED BY <1>3, <1>4, <1>5, <1>6 DEF Copies

(* A call of a function that only reads.                                   *)
Read(f, d, s, n) ==
    /\ call' = [f |-> f, d |-> d, s |-> s, n |-> n]
    /\ before' = mem
    /\ mem' = mem

LEMMA ReadsWork ==
  ASSUME StringsInv, call.f = "none", before' = before,
         NEW d \in Cells, NEW s \in Cells, NEW n \in Nat, Reads(d, s, n)
  PROVE  StringsDoTheirWork' /\ mem' \in [Cells -> Byte]
  <1>1. /\ mem \in [Cells -> Byte] /\ before' = mem /\ mem' = mem
        /\ StringAt(mem, d) /\ StringAt(mem, s)
    BY DEF Reads, StringsInv, IsString, StringAt
  <1>2. CASE Of("memcmp", d, s, n) /\ Room(d, n) /\ Room(s, n) /\ ret' = memcmp(mem, d, s, n)
    <2>1. Read("memcmp", d, s, n)
      BY <1>1, <1>2 DEF Read, Of
    <2>2. InRoom(d, s, n)
      BY <1>2 DEF InRoom, Room
    <2>3. Compares(ret', Slice(mem, d, n), Slice(mem, s, n))
      BY <1>1, <1>2, <2>2, MemcmpIs
    <2> QED BY <1>1, <2>1, <2>3 DEF Read, StringsDoTheirWork
  <1>3. CASE Of("strcmp", d, s, n) /\ ret' = strcmp(mem, d, s)
    <2>1. Read("strcmp", d, s, n)
      BY <1>1, <1>3 DEF Read, Of
    <2>2. Compares(ret', Text(mem, d), Text(mem, s))
      BY <1>1, <1>3, StrcmpIs
    <2> QED BY <1>1, <2>1, <2>2 DEF Read, StringsDoTheirWork
  <1>4. CASE Of("strncmp", d, s, n) /\ ret' = strncmp(mem, d, s, n)
    <2>1. Read("strncmp", d, s, n)
      BY <1>1, <1>4 DEF Read, Of
    <2>2. Compares(ret', FirstOf(Text(mem, d), n), FirstOf(Text(mem, s), n))
      BY <1>1, <1>4, StrncmpIs
    <2> QED BY <1>1, <2>1, <2>2 DEF Read, StringsDoTheirWork
  <1>5. CASE Of("strchr", d, s, n) /\ ret' = strchr(mem, d, n)
    <2>1. Read("strchr", d, s, n)
      BY <1>1, <1>5 DEF Read, Of
    <2>2. ret' = IF n \in ToSet(Text(mem, d)) THEN d - 1 + Min(Places(Text(mem, d), n)) ELSE NULL
      BY <1>1, <1>5, StrchrIs
    <2> QED BY <1>1, <2>1, <2>2 DEF Read, StringsDoTheirWork, Places
  <1>6. CASE Of("strrchr", d, s, n) /\ ret' = strrchr(mem, d, n)
    <2>1. Read("strrchr", d, s, n)
      BY <1>1, <1>6 DEF Read, Of
    <2>2. ret' = IF n \in ToSet(Text(mem, d)) THEN d - 1 + Max(Places(Text(mem, d), n)) ELSE NULL
      BY <1>1, <1>6, StrrchrIs
    <2> QED BY <1>1, <2>1, <2>2 DEF Read, StringsDoTheirWork, Places
  <1>7. CASE Of("strstr", d, s, n) /\ ret' = strstr(mem, d, s)
    <2>1. Read("strstr", d, s, n)
      BY <1>1, <1>7 DEF Read, Of
    <2>2. ret' = IF Found(Text(mem, d), Text(mem, s)) = {} THEN NULL
                 ELSE d + Min(Found(Text(mem, d), Text(mem, s)))
      BY <1>1, <1>7, StrstrIs
    <2> QED BY <1>1, <2>1, <2>2 DEF Read, StringsDoTheirWork, Found
  <1> QED BY <1>2, <1>3, <1>4, <1>5, <1>6, <1>7 DEF Reads

SeriesHolds == call.f = "strtok" /\ SeriesSound /\ (ret = NULL => next = NULL)

LEMMA SeriesPromise == SeriesHolds => StringsDoTheirWork
  <1> SUFFICES ASSUME SeriesHolds PROVE StringsDoTheirWork
    OBVIOUS
  <1>1. PICK pos \in Int :
           /\ Series(mem, before, tokens, call.d, call.s, pos)
           /\ next = NULL => pos = Len(Text(before, call.d)) + 1
    BY DEF SeriesHolds, SeriesSound
  <1>2. /\ ret = NULL => Len(tokens) = Cardinality(Runs(Text(before, call.d), call.s))
        /\ TokensAre(mem, tokens, Text(before, call.d), call.d, call.s)
    BY <1>1, SeriesWorks DEF SeriesHolds
  <1> QED BY <1>2 DEF StringsDoTheirWork, TokensAre, SeriesHolds

(* A call of strtok that reads from the offset pos on.                     *)
LEMMA SeriesStep ==
  ASSUME NEW d, NEW c, NEW pos \in Int, Series(mem, before, tokens, d, c, pos),
         pos <= Len(Text(before, d)),
         NEW str, IF str # NULL THEN str = d + pos ELSE next = d + pos,
         strtok(str, {c}), before' = before, call'.d = d, call'.s = c,
         tokens' = IF ret' = NULL THEN tokens ELSE Append(tokens, ret')
  PROVE  SeriesSound' /\ (ret' = NULL => next' = NULL) /\ mem' \in [Cells -> Byte]
  <1> DEFINE l == Len(Text(before, d))
             from == IF str # NULL THEN str ELSE next
             start == from + Skipped(mem, from, c)
             end == start + Scanned(mem, start, c)
  <1>1. /\ from = d + pos /\ from # NULL /\ l \in Nat /\ d \in Nat
        /\ mem \in [Cells -> Byte]
    <2>1. d \in Nat /\ pos \in 0 .. l /\ l \in Nat
      BY Remaining
    <2>2. d + pos # NULL
      BY <2>1 DEF NULL
    <2> QED BY <2>1, <2>2 DEF Series
  <1>2. IF from = NULL \/ mem[start] = 0
        THEN ret' = NULL /\ next' = NULL /\ UNCHANGED mem
        ELSE /\ ret' = start
             /\ IF mem[end] = 0
                THEN next' = NULL /\ UNCHANGED mem
                ELSE next' = end + 1 /\ mem' = [mem EXCEPT ![end] = 0]
    BY DEF strtok, Skipped, Scanned
  <1>3. start = d + pos + Skipped(mem, d + pos, c) /\ end = start + Scanned(mem, start, c)
    BY <1>1
  <1> HIDE DEF from, start, end
  <1>4. CASE mem[start] = 0
    <2>1. Series(mem, before, tokens, d, c, l + 1)
      BY <1>3, <1>4, SeriesEnds
    <2>2. ret' = NULL /\ next' = NULL /\ mem' = mem /\ tokens' = tokens
      BY <1>2, <1>4
    <2>3. l + 1 \in Int
      BY <1>1
    <2> QED BY <1>1, <2>1, <2>2, <2>3 DEF SeriesSound
  <1>5. CASE mem[start] # 0
    <2>1. /\ start \in Nat /\ end \in Nat
          /\ mem[end] = 0 => Series(mem, before, Append(tokens, start), d, c, l + 1)
          /\ mem[end] # 0 => /\ end + 1 - d <= l /\ end + 1 \in Nat
                             /\ Series([mem EXCEPT ![end] = 0], before, Append(tokens, start),
                                       d, c, end + 1 - d)
      BY <1>3, <1>5, SeriesGoesOn
    <2>2. ret' = start /\ ret' # NULL /\ tokens' = Append(tokens, start)
      <3>1. start # NULL
        BY <2>1 DEF NULL
      <3> QED BY <1>1, <1>2, <1>5, <3>1
    <2>3. CASE mem[end] = 0
      <3>1. next' = NULL /\ mem' = mem /\ l + 1 \in Int
        BY <1>1, <1>2, <1>5, <2>3
      <3> QED BY <1>1, <2>1, <2>2, <2>3, <3>1 DEF SeriesSound
    <2>4. CASE mem[end] # 0
      <3>1. next' = end + 1 /\ mem' = [mem EXCEPT ![end] = 0]
        BY <1>1, <1>2, <1>5, <2>4
      <3>2. end + 1 - d \in Int /\ end + 1 = d + (end + 1 - d) /\ end + 1 # NULL
        BY <1>1, <2>1, <2>4 DEF NULL
      <3>3. mem' \in [Cells -> Byte]
        BY <2>1, <2>4, <3>1 DEF Series
      <3> QED BY <1>1, <2>1, <2>2, <2>4, <3>1, <3>2, <3>3 DEF SeriesSound
    <2> QED BY <2>3, <2>4
  <1> QED BY <1>4, <1>5

LEMMA TokenizeKeepsInv ==
  ASSUME StringsInv, NEW d \in Cells, NEW delim \in Byte \ {0}, Tokenize(d, delim)
  PROVE  StringsInv'
  <1>1. before' = before /\ before \in [Cells -> Byte]
        /\ tokens' = IF ret' = NULL THEN tokens ELSE Append(tokens, ret')
    BY DEF Tokenize, StringsInv
  <1>2. CASE /\ call.f = "none" /\ IsString(d)
             /\ call' = [f |-> "strtok", d |-> d, s |-> delim, n |-> 0]
             /\ strtok(d, {delim})
    <2>1. StringAt(mem, d) /\ before = mem /\ tokens = << >> /\ d \in Nat
      BY <1>2, StringsAssumption DEF StringsInv, IsString, StringAt, Cells
    <2>2. Series(mem, before, tokens, d, delim, 0) /\ 0 <= Len(Text(before, d))
      <3>1. Len(Text(mem, d)) = strlen(mem, d) /\ strlen(mem, d) \in Nat
        BY <2>1, StrlenIs, TextIs
      <3> QED BY <2>1, <3>1, SeriesStarts
    <2>3. IF d # NULL THEN d = d + 0 ELSE next = d + 0
      BY <2>1 DEF NULL
    <2>4. call'.f = "strtok" /\ call'.d = d /\ call'.s = delim
      BY <1>2
    <2>5. SeriesSound' /\ (ret' = NULL => next' = NULL) /\ mem' \in [Cells -> Byte]
      BY <1>1, <1>2, <2>2, <2>3, <2>4, SeriesStep
    <2>6. SeriesHolds'
      BY <2>4, <2>5 DEF SeriesHolds
    <2>7. StringsDoTheirWork'
      BY <2>6, SeriesPromise, PTL
    <2> QED BY <1>1, <2>4, <2>5, <2>7 DEF StringsInv
  <1>3. CASE /\ call = [f |-> "strtok", d |-> d, s |-> delim, n |-> 0]
             /\ ret # NULL
             /\ strtok(NULL, {delim})
             /\ UNCHANGED call
    <2>1. call'.f = "strtok" /\ call'.d = d /\ call'.s = delim /\ SeriesSound
      BY <1>3 DEF StringsInv
    <2>2. PICK pos \in Int :
             /\ Series(mem, before, tokens, d, delim, pos)
             /\ next = NULL => pos = Len(Text(before, d)) + 1
             /\ next # NULL => next = d + pos /\ pos <= Len(Text(before, d))
      BY <1>3, <2>1 DEF SeriesSound
    <2>3. CASE next # NULL
      <3>1. IF NULL # NULL THEN NULL = d + pos ELSE next = d + pos
        BY <2>2, <2>3
      <3>2. SeriesSound' /\ (ret' = NULL => next' = NULL) /\ mem' \in [Cells -> Byte]
        BY <1>1, <1>3, <2>1, <2>2, <2>3, <3>1, SeriesStep
      <3>4. SeriesHolds'
        BY <2>1, <3>2 DEF SeriesHolds
      <3>3. StringsDoTheirWork'
        BY <3>4, SeriesPromise, PTL
      <3> QED BY <1>1, <2>1, <3>2, <3>3 DEF StringsInv
    <2>4. CASE next = NULL
      <3>1. ret' = NULL /\ next' = NULL /\ mem' = mem /\ tokens' = tokens
        BY <1>1, <1>3, <2>4 DEF strtok
      <3>2. SeriesSound'
        BY <1>1, <2>1, <2>2, <2>4, <3>1 DEF SeriesSound
      <3>5. SeriesHolds'
        BY <2>1, <3>1, <3>2 DEF SeriesHolds
      <3>3. StringsDoTheirWork'
        BY <3>5, SeriesPromise, PTL
      <3>4. mem' \in [Cells -> Byte]
        BY <3>1 DEF StringsInv
      <3> QED BY <1>1, <2>1, <3>1, <3>2, <3>3, <3>4 DEF StringsInv
    <2> QED BY <2>3, <2>4
  <1> QED BY <1>2, <1>3 DEF Tokenize

(* The functions of string.c do what they are for, on memories of any size:*)
(* the copying ones write what they should and nothing else (memmove also  *)
(* where the ranges overlap), comparisons agree with the order of the byte *)
(* sequences, searches find the first or last occurrence (of characters    *)
(* but the terminator, which strchr and strrchr stop in front of), and a   *)
(* series of calls of strtok returns the runs without the delimiter, one   *)
(* after the other, and cuts the string behind each.                       *)
THEOREM StringsWork == StringsSpec => []StringsDoTheirWork
  <1>1. StringsInit => StringsInv
    BY DEF StringsInit, StringsInv, NoCall, StringsDoTheirWork
  <1>2. StringsInv /\ [StringsNext]_stringVars => StringsInv'
    <2> SUFFICES ASSUME StringsInv, [StringsNext]_stringVars PROVE StringsInv'
      OBVIOUS
    <2>1. CASE CallOne
      <3>1. PICK d \in Cells, s \in Cells, n \in 0 .. Bytes :
               Moves(d, s, n) \/ Copies(d, s, n) \/ Reads(d, s, n)
        BY <2>1 DEF CallOne
      <3>2. call.f = "none" /\ before' = before /\ n \in Nat
        BY <2>1, StringsAssumption DEF CallOne
      <3>3. StringsDoTheirWork' /\ mem' \in [Cells -> Byte]
        BY <3>1, <3>2, MovesWork, CopiesWork, ReadsWork
      <3>4. call'.f # "none" /\ call'.f # "strtok"
        BY <3>1 DEF Moves, Copies, Reads, Of
      <3> QED BY <3>2, <3>3, <3>4 DEF StringsInv
    <2>2. CASE \E d \in Cells, delim \in Byte \ {0} : Tokenize(d, delim)
      BY <2>2, TokenizeKeepsInv
    <2>3. CASE UNCHANGED stringVars
      <3>1. /\ mem' = mem /\ next' = next /\ call' = call /\ ret' = ret
            /\ before' = before /\ tokens' = tokens
        BY <2>3 DEF stringVars
      <3>2. SeriesSound' <=> SeriesSound
        BY <3>1 DEF SeriesSound
      <3>3. StringsDoTheirWork' <=> StringsDoTheirWork
        BY <3>1 DEF StringsDoTheirWork, Became
      <3> QED BY <3>1, <3>2, <3>3 DEF StringsInv
    <2> QED BY <2>1, <2>2, <2>3 DEF StringsNext
  <1>3. StringsInv => StringsDoTheirWork
    BY DEF StringsInv
  <1> QED BY <1>1, <1>2, <1>3, PTL DEF StringsSpec
-----------------------------------------------------------------------------
(* The serial log: numbers first.                                          *)

(* Induction up to N over membership in a set.                             *)
LEMMA UpTo ==
  ASSUME NEW N \in Nat, NEW good,
         \A k \in 0 .. N : (\A j \in 0 .. k - 1 : j \in good) => k \in good
  PROVE  \A k \in 0 .. N : k \in good
  <1> DEFINE bad == {k \in 0 .. N : k \notin good}
  <1>1. SUFFICES ASSUME bad # {} PROVE FALSE
    OBVIOUS
  <1>2. PICK k \in bad : \A j \in bad : k <= j
    <2>1. bad \in SUBSET Nat
      OBVIOUS
    <2> HIDE DEF bad
    <2> QED BY <1>1, <2>1, LeastOf
  <1>3. k \in 0 .. N /\ k \notin good
    OBVIOUS
  <1>4. ASSUME NEW j \in 0 .. k - 1 PROVE j \in good
    <2>1. j \in 0 .. N /\ ~(k <= j)
      BY <1>3
    <2> QED BY <1>2, <2>1
  <1> QED BY <1>3, <1>4

(* A recursion that goes back from k to pred[k] has a solution.            *)
Recurs(f, N, zero, step, pred) ==
    f[0] = zero /\ \A k \in 1 .. N : f[k] = step[<<k, f[pred[k]]>>]

LEMMA Recursion ==
  ASSUME NEW N \in Nat, NEW S, NEW zero \in S,
         NEW step \in [(1 .. N) \X S -> S],
         NEW pred, \A k \in 1 .. N : pred[k] \in 0 .. k - 1
  PROVE  \E f \in [0 .. N -> S] : Recurs(f, N, zero, step, pred)
  <1> DEFINE good == {m \in 0 .. N : \E f \in [0 .. m -> S] : Recurs(f, m, zero, step, pred)}
  <1>1. ASSUME NEW m \in 0 .. N, \A j \in 0 .. m - 1 : j \in good
        PROVE  m \in good
    <2>1. CASE m = 0
      <3> DEFINE f == [i \in 0 .. 0 |-> zero]
      <3>1. f \in [0 .. 0 -> S] /\ Recurs(f, 0, zero, step, pred)
        BY DEF Recurs
      <3> QED BY <2>1, <3>1
    <2>2. CASE m # 0
      <3>1. m - 1 \in 0 .. m - 1 /\ m \in 1 .. N /\ m - 1 \in Nat
        BY <2>2
      <3>2. PICK f \in [0 .. m - 1 -> S] : Recurs(f, m - 1, zero, step, pred)
        BY <1>1, <3>1
      <3> DEFINE g == [i \in 0 .. m |-> IF i = m THEN step[<<m, f[pred[m]]>>] ELSE f[i]]
      <3>3. g \in [0 .. m -> S]
        <4>1. f[pred[m]] \in S
          BY <3>1
        <4> DEFINE new == step[<<m, f[pred[m]]>>]
        <4>2. new \in S
          BY <4>1, <3>1
        <4> HIDE DEF new
        <4>3. [i \in 0 .. m |-> IF i = m THEN new ELSE f[i]] \in [0 .. m -> S]
          BY <4>2
        <4> QED BY <4>3 DEF new
      <3>4. g[0] = zero
        BY <2>2, <3>2 DEF Recurs
      <3>5. ASSUME NEW k \in 1 .. m PROVE g[k] = step[<<k, g[pred[k]]>>]
        <4>1. pred[k] \in 0 .. m - 1 /\ g[pred[k]] = f[pred[k]]
          <5>1. pred[k] \in 0 .. k - 1
            OBVIOUS
          <5> QED BY <5>1
        <4>2. CASE k = m
          <5>1. g[m] = step[<<m, f[pred[m]]>>]
            OBVIOUS
          <5> HIDE DEF g
          <5> QED BY <4>1, <4>2, <5>1
        <4>3. CASE k # m
          <5>1. k \in 1 .. m - 1 /\ g[k] = f[k]
            BY <4>3
          <5>2. f[k] = step[<<k, f[pred[k]]>>]
            BY <3>2, <5>1 DEF Recurs
          <5> QED BY <4>1, <5>1, <5>2
        <4> QED BY <4>2, <4>3
      <3> HIDE DEF g
      <3>6. Recurs(g, m, zero, step, pred)
        BY <3>4, <3>5 DEF Recurs
      <3> HIDE DEF Recurs
      <3> QED BY <3>3, <3>6
    <2> QED BY <2>1, <2>2
  <1> HIDE DEF good
  <1>2. \A k \in 0 .. N : k \in good
    BY <1>1, UpTo
  <1>3. N \in good
    BY <1>2
  <1> QED BY <1>3 DEF good

-----------------------------------------------------------------------------
(* Powers.                                                                 *)
PowerTo(base, n) ==
    CHOOSE power : power = [i \in 0 .. n |-> IF i = 0 THEN 1 ELSE base * power[i - 1]]

LEMMA PowerToIs ==
  ASSUME NEW base \in Nat, NEW n \in Nat
  PROVE  /\ Power(base, n) = PowerTo(base, n)[n]
         /\ PowerTo(base, n)[0] = 1
         /\ \A i \in 1 .. n : PowerTo(base, n)[i] = base * PowerTo(base, n)[i - 1]
  <1> DEFINE step == [x \in (1 .. n) \X Nat |-> base * x[2]]
             pred == [k \in 1 .. n |-> k - 1]
             Fixed(f) == f = [i \in 0 .. n |-> IF i = 0 THEN 1 ELSE base * f[i - 1]]
  <1>1. PICK f \in [0 .. n -> Nat] : Recurs(f, n, 1, step, pred)
    <2>1. step \in [(1 .. n) \X Nat -> Nat] /\ \A k \in 1 .. n : pred[k] \in 0 .. k - 1
      OBVIOUS
    <2> HIDE DEF step, pred
    <2> QED BY <2>1, Recursion
  <1>2. Fixed(f)
    <2>1. f[0] = 1
      BY <1>1 DEF Recurs
    <2>2. ASSUME NEW k \in 1 .. n PROVE f[k] = base * f[k - 1]
      <3>1. f[k] = step[<<k, f[k - 1]>>]
        BY <1>1 DEF Recurs
      <3>2. <<k, f[k - 1]>> \in (1 .. n) \X Nat
        OBVIOUS
      <3> QED BY <3>1, <3>2
    <2> QED BY <2>1, <2>2
  <1>3. Fixed(PowerTo(base, n))
    <2>1. PowerTo(base, n) = CHOOSE g : Fixed(g)
      BY DEF PowerTo
    <2> HIDE DEF Fixed
    <2> QED BY <1>2, <2>1
  <1>4. Power(base, n) = PowerTo(base, n)[n]
    BY DEF Power, PowerTo
  <1> HIDE DEF PowerTo
  <1> QED BY <1>3, <1>4

LEMMA PowerIs ==
  ASSUME NEW base \in Nat, NEW n \in Nat
  PROVE  /\ Power(base, 0) = 1
         /\ Power(base, n + 1) = base * Power(base, n)
         /\ Power(base, n) \in Nat
  <1>1. Power(base, 0) = 1
    BY PowerToIs
  <1> DEFINE good == {i \in 0 .. n : PowerTo(base, n)[i] = PowerTo(base, n + 1)[i]
                                      /\ PowerTo(base, n)[i] \in Nat}
  <1>2. ASSUME NEW i \in 0 .. n, \A j \in 0 .. i - 1 : j \in good
        PROVE  i \in good
    <2>1. CASE i = 0
      BY <2>1, PowerToIs
    <2>2. CASE i # 0
      <3>1. i - 1 \in 0 .. i - 1 /\ i \in 1 .. n /\ i \in 1 .. n + 1 /\ n + 1 \in Nat
        BY <2>2
      <3>2. PowerTo(base, n)[i] = base * PowerTo(base, n)[i - 1]
        BY <3>1, PowerToIs
      <3>3. PowerTo(base, n + 1)[i] = base * PowerTo(base, n + 1)[i - 1]
        BY <3>1, PowerToIs
      <3>4. PowerTo(base, n)[i - 1] = PowerTo(base, n + 1)[i - 1] /\ PowerTo(base, n)[i - 1] \in Nat
        BY <1>2, <3>1
      <3>5. base * PowerTo(base, n)[i - 1] \in Nat
        BY <3>4
      <3> QED BY <3>2, <3>3, <3>4, <3>5
    <2> QED BY <2>1, <2>2
  <1> HIDE DEF good
  <1>3. \A k \in 0 .. n : k \in good
    BY <1>2, UpTo
  <1>4. PowerTo(base, n)[n] = PowerTo(base, n + 1)[n] /\ PowerTo(base, n)[n] \in Nat
    BY <1>3 DEF good
  <1>5. PowerTo(base, n + 1)[n + 1] = base * PowerTo(base, n + 1)[n]
    <2>1. n + 1 \in 1 .. n + 1 /\ n + 1 \in Nat /\ n + 1 - 1 = n
      OBVIOUS
    <2> QED BY <2>1, PowerToIs
  <1> QED BY <1>1, <1>4, <1>5, PowerToIs

Bases == {8, 10, 16}

LEMMA BaseIsNat == \A base \in Bases : base \in Nat
  BY DEF Bases

(* Powers grow, and are beyond their exponents.                            *)
LEMMA PowersGrow ==
  ASSUME NEW base \in Bases, NEW n \in Nat
  PROVE  /\ Power(base, n) > n
         /\ \A i \in 0 .. n : Power(base, i) <= Power(base, n)
  <1> DEFINE good == {k \in 0 .. n : /\ Power(base, k) > k
                                     /\ \A i \in 0 .. k : Power(base, i) <= Power(base, k)}
  <1>1. ASSUME NEW k \in 0 .. n, \A j \in 0 .. k - 1 : j \in good
        PROVE  k \in good
    <2>0. base \in Nat
      BY DEF Bases
    <2>1. CASE k = 0
      <3>1. Power(base, 0) = 1
        BY <2>0, PowerIs
      <3>2. \A i \in 0 .. 0 : Power(base, i) <= Power(base, 0)
        BY <3>1
      <3> QED BY <2>1, <3>1, <3>2
    <2>2. CASE k # 0
      <3>1. k - 1 \in Nat /\ k - 1 \in good /\ k = (k - 1) + 1
        BY <1>1, <2>2
      <3>2. Power(base, k) = base * Power(base, k - 1) /\ Power(base, k - 1) \in Nat
        BY <2>0, <3>1, PowerIs
      <3>3. Power(base, k - 1) > k - 1
        BY <3>1
      <3>4. Power(base, k) > Power(base, k - 1) /\ Power(base, k) > k /\ Power(base, k) \in Nat
        BY <3>1, <3>2, <3>3 DEF Bases
      <3>5. ASSUME NEW i \in 0 .. k PROVE Power(base, i) <= Power(base, k)
        <4>1. CASE i = k
          BY <3>4, <4>1
        <4>2. CASE i # k
          <5>1. i \in 0 .. k - 1 /\ i \in Nat
            BY <4>2
          <5>2. Power(base, i) <= Power(base, k - 1) /\ Power(base, i) \in Nat
            BY <2>0, <3>1, <5>1, PowerIs
          <5> QED BY <3>2, <3>4, <5>2
        <4> QED BY <4>1, <4>2
      <3> QED BY <3>4, <3>5
    <2> QED BY <2>1, <2>2
  <1> HIDE DEF good
  <1>2. \A k \in 0 .. n : k \in good
    BY <1>1, UpTo
  <1>3. n \in good
    BY <1>2
  <1> QED BY <1>3 DEF good

-----------------------------------------------------------------------------
(* Quotients.                                                              *)
LEMMA QuotientIs ==
  ASSUME NEW v \in Nat, NEW d \in Nat \ {0}, NEW x \in Nat, d * x <= v, v < d * x + d
  PROVE  v \div d = x
  <1> DEFINE q == v \div d
  <1>1. q \in Nat /\ d * q <= v /\ v < d * q + d /\ d * q \in Nat
    <2>1. q \in Nat
      OBVIOUS
    <2>2. d * q <= v
      OBVIOUS
    <2>3. v < d * q + d
      OBVIOUS
    <2> HIDE DEF q
    <2> QED BY <2>1, <2>2, <2>3
  <1> HIDE DEF q
  <1>2. CASE q < x
    <2>1. x = q + 1 + (x - q - 1) /\ x - q - 1 \in Nat
      BY <1>1, <1>2
    <2> DEFINE y == x - q - 1
    <2>2. d * x = d * q + d + d * y /\ d * y \in Nat /\ d * q \in Nat
      <3>1. y \in Nat /\ x = q + 1 + y
        BY <2>1
      <3> HIDE DEF y
      <3> QED BY <1>1, <3>1
    <2> QED BY <1>1, <2>2
  <1>3. CASE q > x
    <2> DEFINE y == q - x - 1
    <2>2. d * q = d * x + d + d * y /\ d * y \in Nat /\ d * x \in Nat
      <3>1. y \in Nat /\ q = x + 1 + y
        BY <1>1, <1>3
      <3> HIDE DEF y
      <3> QED BY <1>1, <3>1
    <2> QED BY <1>1, <2>2
  <1> QED BY <1>1, <1>2, <1>3 DEF q

(* Dividing by the base and then by a power is dividing by the next power. *)
LEMMA QuotientOfQuotient ==
  ASSUME NEW v \in Nat, NEW base \in Bases, NEW d \in Nat \ {0}
  PROVE  (v \div base) \div d = v \div (base * d)
  <1> DEFINE w == v \div base
             x == w \div d
  <1>1. w \in Nat /\ base * w <= v /\ v < base * w + base /\ base \in Nat
    BY DEF Bases
  <1> HIDE DEF w
  <1>2. x \in Nat /\ d * x <= w /\ w < d * x + d /\ d * x \in Nat
    <2>1. x \in Nat
      BY <1>1
    <2>2. d * x <= w
      BY <1>1
    <2>3. w < d * x + d
      BY <1>1
    <2> HIDE DEF x
    <2> QED BY <2>1, <2>2, <2>3
  <1> HIDE DEF x
  <1> DEFINE y == d * x
             e == base * d
  <1>3. e * x = base * y /\ e \in Nat \ {0}
    BY <1>2 DEF Bases
  <1>4. base * y <= v /\ v < base * y + base * d
    <2>1. y \in Nat /\ y <= w /\ w + 1 <= y + d
      BY <1>1, <1>2
    <2> HIDE DEF y
    <2> QED BY <1>1, <2>1 DEF Bases
  <1> HIDE DEF e, y
  <1>5. e * x <= v /\ v < e * x + e
    BY <1>3, <1>4 DEF e
  <1>6. v \div e = x
    BY <1>2, <1>3, <1>5, QuotientIs
  <1> QED BY <1>6 DEF e, x, w

-----------------------------------------------------------------------------
(* The characters.  (The provers know of no literal that it is a string.)  *)
DigitChars == {"0", "1", "2", "3", "4", "5", "6", "7", "8", "9",
               "a", "b", "c", "d", "e", "f"}
Chars == STRING \cup DigitChars \cup {"[", "]", " ", "-", "%", "x", "h", "i", "newline"}

(* The digits that the loops store.                                        *)
DigitsTo(base, n) ==
    CHOOSE rest : rest = [v \in 0 .. n |->
                             IF v = 0 THEN <<>>
                             ELSE <<Digit(v % base)>> \o rest[v \div base]]

LEMMA DigitIs ==
  ASSUME NEW base \in Bases, NEW v \in Nat
  PROVE  Digit(v % base) \in Chars
  <1>1. v % base \in 0 .. 15
    BY DEF Bases
  <1> DEFINE t == <<"0", "1", "2", "3", "4", "5", "6", "7", "8", "9",
                    "a", "b", "c", "d", "e", "f">>
  <1>2. \A d \in 0 .. 15 : Digit(d) \in Chars
    <2>1. t \in Seq(DigitChars)
      BY DEF DigitChars
    <2>5. \A d \in 0 .. 15 : d + 1 \in 1 .. Len(t)
      OBVIOUS
    <2>2. \A d \in 0 .. 15 : Digit(d) = t[d + 1]
      BY DEF Digit
    <2> HIDE DEF t
    <2>3. ASSUME NEW d \in 0 .. 15 PROVE t[d + 1] \in DigitChars
      <3>1. \A i \in 1 .. Len(t) : t[i] \in DigitChars
        BY <2>1
      <3> QED BY <2>5, <3>1
    <2>4. DigitChars \subseteq Chars
      BY DEF Chars
    <2> QED BY <2>2, <2>3, <2>4
  <1> QED BY <1>1, <1>2

LEMMA DigitsToIs ==
  ASSUME NEW base \in Bases, NEW n \in Nat
  PROVE  /\ Digits(n, base) = DigitsTo(base, n)[n]
         /\ DigitsTo(base, n)[0] = <<>>
         /\ \A v \in 1 .. n : DigitsTo(base, n)[v] =
                <<Digit(v % base)>> \o DigitsTo(base, n)[v \div base]
         /\ \A v \in 0 .. n : DigitsTo(base, n)[v] \in Seq(Chars)
  <1> DEFINE S == Seq(Chars)
             step == [x \in (1 .. n) \X S |-> <<Digit(x[1] % base)>> \o x[2]]
             pred == [k \in 1 .. n |-> k \div base]
             Fixed(f) == f = [v \in 0 .. n |->
                                 IF v = 0 THEN <<>>
                                 ELSE <<Digit(v % base)>> \o f[v \div base]]
  <1>1. PICK f \in [0 .. n -> S] : Recurs(f, n, <<>>, step, pred)
    <2>1. step \in [(1 .. n) \X S -> S]
      <3>1. ASSUME NEW v \in 1 .. n, NEW s \in S
            PROVE  <<Digit(v % base)>> \o s \in S
        <4>1. Digit(v % base) \in Chars
          BY DigitIs
        <4> QED BY <4>1
      <3>2. \A x \in (1 .. n) \X S : x[1] \in 1 .. n /\ x[2] \in S
        OBVIOUS
      <3> HIDE DEF S
      <3> QED BY <3>1, <3>2
    <2>2. \A k \in 1 .. n : pred[k] \in 0 .. k - 1
      BY DEF Bases
    <2>3. <<>> \in S
      OBVIOUS
    <2> HIDE DEF step, pred, S
    <2> QED BY <2>1, <2>2, <2>3, Recursion
  <1>2. /\ f[0] = <<>>
        /\ \A v \in 1 .. n : f[v] = <<Digit(v % base)>> \o f[v \div base]
    <2>1. f[0] = <<>>
      BY <1>1 DEF Recurs
    <2>2. ASSUME NEW v \in 1 .. n PROVE f[v] = <<Digit(v % base)>> \o f[v \div base]
      <3>1. f[v] = step[<<v, f[v \div base]>>]
        BY <1>1 DEF Recurs
      <3>2. v \div base \in 0 .. n
        BY DEF Bases
      <3>3. <<v, f[v \div base]>> \in (1 .. n) \X S
        BY <3>2
      <3> DEFINE s == f[v \div base]
      <3> HIDE DEF s
      <3>4. step[<<v, s>>] = <<Digit(v % base)>> \o s
        BY <3>3 DEF s
      <3> QED BY <3>1, <3>4 DEF s
    <2> QED BY <2>1, <2>2
  <1>3. Fixed(f)
    <2>1. f = [v \in 0 .. n |-> f[v]]
      OBVIOUS
    <2>2. \A v \in 0 .. n : f[v] = IF v = 0 THEN <<>>
                                   ELSE <<Digit(v % base)>> \o f[v \div base]
      BY <1>2
    <2> QED BY <2>1, <2>2
  <1>4. Fixed(DigitsTo(base, n))
    <2>1. DigitsTo(base, n) = CHOOSE g : Fixed(g)
      BY DEF DigitsTo
    <2> HIDE DEF Fixed
    <2> QED BY <1>3, <2>1
  <1>5. Digits(n, base) = DigitsTo(base, n)[n]
    BY DEF Digits, DigitsTo
  <1> HIDE DEF DigitsTo
  <1> DEFINE g == DigitsTo(base, n)
  <1>6. /\ g[0] = <<>>
        /\ \A v \in 1 .. n : g[v] = <<Digit(v % base)>> \o g[v \div base]
    <2>1. Fixed(g)
      BY <1>4
    <2> HIDE DEF g
    <2>2. \A v \in 0 .. n : g[v] = IF v = 0 THEN <<>>
                                   ELSE <<Digit(v % base)>> \o g[v \div base]
      BY <2>1
    <2> QED BY <2>2
  <1> HIDE DEF g
  <1> DEFINE good == {v \in 0 .. n : g[v] = f[v]}
  <1>7. ASSUME NEW v \in 0 .. n, \A j \in 0 .. v - 1 : j \in good
        PROVE  v \in good
    <2>1. CASE v = 0
      BY <1>2, <1>6, <2>1
    <2>2. CASE v # 0
      <3>1. v \div base \in 0 .. v - 1 /\ v \in 1 .. n
        BY <2>2 DEF Bases
      <3>2. g[v \div base] = f[v \div base]
        BY <1>7, <3>1
      <3> QED BY <1>2, <1>6, <3>1, <3>2
    <2> QED BY <2>1, <2>2
  <1> HIDE DEF good
  <1>8. \A v \in 0 .. n : v \in good
    BY <1>7, UpTo
  <1>9. \A v \in 0 .. n : g[v] \in S
    BY <1>8 DEF good
  <1> QED BY <1>5, <1>6, <1>9 DEF g

LEMMA DigitsAre ==
  ASSUME NEW base \in Bases, NEW v \in Nat
  PROVE  /\ Digits(0, base) = <<>>
         /\ Digits(v, base) \in Seq(Chars)
         /\ v # 0 => /\ v \div base \in 0 .. v - 1
                     /\ Digits(v, base) = <<Digit(v % base)>> \o Digits(v \div base, base)
  <1>1. Digits(0, base) = <<>> /\ Digits(v, base) \in Seq(Chars)
    <2>1. 0 \in Nat /\ v \in 0 .. v
      OBVIOUS
    <2> QED BY <2>1, DigitsToIs
  <1>2. ASSUME v # 0
        PROVE  /\ v \div base \in 0 .. v - 1
               /\ Digits(v, base) = <<Digit(v % base)>> \o Digits(v \div base, base)
    <2> DEFINE w == v \div base
               good == {u \in 0 .. w : DigitsTo(base, v)[u] = DigitsTo(base, w)[u]}
    <2>1. w \in 0 .. v - 1 /\ w \in Nat
      BY <1>2 DEF Bases
    <2> HIDE DEF w
    <2>2. ASSUME NEW u \in 0 .. w, \A j \in 0 .. u - 1 : j \in good
          PROVE  u \in good
      <3>1. CASE u = 0
        BY <2>1, <3>1, DigitsToIs
      <3>2. CASE u # 0
        <4>1. u \div base \in 0 .. u - 1 /\ u \in 1 .. w /\ u \in 1 .. v
          BY <2>1, <3>2 DEF Bases
        <4>2. DigitsTo(base, v)[u \div base] = DigitsTo(base, w)[u \div base]
          BY <2>2, <4>1
        <4>3. DigitsTo(base, v)[u] = <<Digit(u % base)>> \o DigitsTo(base, v)[u \div base]
          BY <4>1, DigitsToIs
        <4>4. DigitsTo(base, w)[u] = <<Digit(u % base)>> \o DigitsTo(base, w)[u \div base]
          BY <2>1, <4>1, DigitsToIs
        <4> QED BY <4>2, <4>3, <4>4
      <3> QED BY <3>1, <3>2
    <2> HIDE DEF good
    <2>3. \A u \in 0 .. w : u \in good
      BY <2>1, <2>2, UpTo
    <2>4. DigitsTo(base, v)[w] = DigitsTo(base, w)[w]
      <3>1. w \in good
        BY <2>1, <2>3
      <3> QED BY <3>1 DEF good
    <2>5. Digits(w, base) = DigitsTo(base, w)[w]
      BY <2>1, DigitsToIs
    <2>6. DigitsTo(base, v)[v] = <<Digit(v % base)>> \o DigitsTo(base, v)[w]
      <3>1. v \in 1 .. v
        BY <1>2
      <3> QED BY <3>1, DigitsToIs DEF w
    <2>7. Digits(v, base) = DigitsTo(base, v)[v]
      BY DigitsToIs
    <2> QED BY <2>1, <2>4, <2>5, <2>6, <2>7 DEF w
  <1> QED BY <1>1, <1>2

(* What Digits is of v, digit by digit.                                    *)
DigitsRight(v, base) ==
    LET D == Digits(v, base)
    IN  /\ v = 0 <=> Len(D) = 0
        /\ v < Power(base, Len(D))
        /\ v # 0 => Power(base, Len(D) - 1) <= v
        /\ \A i \in 1 .. Len(D) : D[i] = Digit((v \div Power(base, i - 1)) % base)

LEMMA DigitsStep ==
  ASSUME NEW base \in Bases, NEW v \in Nat \ {0}, DigitsRight(v \div base, base)
  PROVE  DigitsRight(v, base)
  <1> DEFINE D == Digits(v, base)
             w == v \div base
             E == Digits(w, base)
             L == Len(E)
  <1>1. /\ w \in Nat /\ base \in Nat /\ D = <<Digit(v % base)>> \o E
        /\ E \in Seq(Chars) /\ L \in Nat /\ D \in Seq(Chars)
    <2>1. w \in Nat /\ base \in Nat
      BY DEF Bases
    <2>2. E \in Seq(Chars)
      BY <2>1, DigitsAre
    <2> QED BY <2>1, <2>2, DigitsAre
  <1>2. base * w <= v /\ v < base * w + base
    BY DEF Bases
  <1>3. /\ Len(D) = L + 1
        /\ D[1] = Digit(v % base)
        /\ \A i \in 2 .. L + 1 : D[i] = E[i - 1]
    <2> DEFINE d == Digit(v % base)
    <2> HIDE DEF d, E, D
    <2> QED BY <1>1 DEF d
  <1>4. /\ w = 0 <=> L = 0
        /\ w < Power(base, L)
        /\ w # 0 => Power(base, L - 1) <= w
        /\ \A i \in 1 .. L : E[i] = Digit((w \div Power(base, i - 1)) % base)
    BY DEF DigitsRight
  <1>5. Power(base, L + 1) = base * Power(base, L) /\ Power(base, L) \in Nat
    BY <1>1, PowerIs
  <1> HIDE DEF D, E, w, L
  <1>6. v < Power(base, L + 1)
    <2> DEFINE P == Power(base, L)
    <2>1. P \in Nat /\ w + 1 <= P
      BY <1>1, <1>4, <1>5
    <2> HIDE DEF P
    <2>2. base * w + base <= base * P
      BY <1>1, <2>1 DEF Bases
    <2>3. base * P \in Nat /\ base * w \in Nat
      BY <1>1, <2>1
    <2>4. v < base * P
      BY <1>1, <1>2, <2>2, <2>3
    <2> QED BY <1>5, <2>4 DEF P
  <1>7. Power(base, L) <= v
    <2>1. CASE w = 0
      BY <1>1, <1>4, <2>1, PowerIs
    <2>2. CASE w # 0
      <3>1. L - 1 \in Nat /\ L - 1 + 1 = L
        BY <1>1, <1>4, <2>2
      <3> DEFINE P == Power(base, L - 1)
      <3>2. P \in Nat /\ Power(base, L) = base * P /\ P <= w
        BY <1>1, <1>4, <2>2, <3>1, PowerIs
      <3> HIDE DEF P
      <3>3. base * P <= base * w /\ base * P \in Nat /\ base * w \in Nat
        BY <1>1, <3>2 DEF Bases
      <3> QED BY <1>2, <3>2, <3>3
    <2> QED BY <2>1, <2>2
  <1>8. ASSUME NEW i \in 1 .. L + 1
        PROVE  D[i] = Digit((v \div Power(base, i - 1)) % base)
    <2>1. CASE i = 1
      <3>1. Power(base, i - 1) = 1
        BY <1>1, <2>1, PowerIs
      <3>2. v \div 1 = v
        OBVIOUS
      <3> QED BY <1>3, <2>1, <3>1, <3>2
    <2>2. CASE i # 1
      <3>1. i \in 2 .. L + 1 /\ i - 1 \in 1 .. L /\ i - 2 \in Nat /\ i - 1 - 1 = i - 2
            /\ i - 2 + 1 = i - 1
        BY <1>1, <2>2
      <3>2. D[i] = Digit((w \div Power(base, i - 2)) % base)
        BY <1>3, <1>4, <3>1
      <3>3. /\ Power(base, i - 2) \in Nat \ {0}
            /\ Power(base, i - 1) = base * Power(base, i - 2)
        <4> DEFINE k == i - 2
        <4>1. k \in Nat /\ i - 1 = k + 1
          BY <3>1
        <4> HIDE DEF k
        <4>2. Power(base, k) \in Nat /\ Power(base, k + 1) = base * Power(base, k)
          BY <1>1, <4>1, PowerIs
        <4>3. Power(base, k) > k
          BY <4>1, PowersGrow
        <4> QED BY <4>1, <4>2, <4>3 DEF k
      <3>4. w \div Power(base, i - 2) = v \div (base * Power(base, i - 2))
        BY <3>3, QuotientOfQuotient DEF w
      <3> QED BY <3>2, <3>3, <3>4
    <2> QED BY <2>1, <2>2
  <1>9. Len(D) # 0 /\ v < Power(base, Len(D)) /\ Power(base, Len(D) - 1) <= v
    <2>1. Len(D) = L + 1 /\ Len(D) - 1 = L /\ Len(D) # 0
      BY <1>1, <1>3
    <2>2. Power(base, Len(D)) = Power(base, L + 1)
      BY <2>1
    <2>3. Power(base, Len(D) - 1) = Power(base, L)
      BY <2>1
    <2> QED BY <1>6, <1>7, <2>1, <2>2, <2>3
  <1>10. \A i \in 1 .. Len(D) : D[i] = Digit((v \div Power(base, i - 1)) % base)
    BY <1>3, <1>8
  <1> QED BY <1>9, <1>10 DEF DigitsRight, D

LEMMA DigitsSound ==
  ASSUME NEW base \in Bases, NEW n \in Nat
  PROVE  DigitsRight(n, base)
  <1> DEFINE good == {v \in 0 .. n : DigitsRight(v, base)}
  <1>1. ASSUME NEW v \in 0 .. n, \A j \in 0 .. v - 1 : j \in good
        PROVE  v \in good
    <2>1. CASE v = 0
      <3>1. Digits(0, base) = <<>> /\ Power(base, 0) = 1
        <4>1. base \in Nat
          BY DEF Bases
        <4> QED BY <4>1, DigitsAre, PowerIs
      <3>2. DigitsRight(0, base)
        BY <3>1 DEF DigitsRight
      <3> QED BY <2>1, <3>2
    <2>2. CASE v # 0
      <3>1. v \div base \in 0 .. v - 1
        BY <2>2 DEF Bases
      <3>2. DigitsRight(v \div base, base)
        BY <1>1, <3>1
      <3>3. DigitsRight(v, base)
        BY <2>2, <3>2, DigitsStep
      <3> QED BY <3>3
    <2> QED BY <2>1, <2>2
  <1> HIDE DEF good
  <1>2. \A v \in 0 .. n : v \in good
    BY <1>1, UpTo
  <1>3. n \in good
    BY <1>2
  <1> QED BY <1>3 DEF good

LEMMA NumDigitsIs ==
  ASSUME NEW base \in Bases, NEW v \in Nat
  PROVE  /\ NumDigits(v, base) = IF v = 0 THEN 1 ELSE Len(Digits(v, base))
         /\ NumDigits(v, base) \in Nat \ {0}
  <1> DEFINE N == IF v = 0 THEN 1 ELSE Len(Digits(v, base))
             Fits(n) == Power(base, n) > v /\ (n = 1 \/ Power(base, n - 1) <= v)
  <1>1. base \in Nat /\ Digits(v, base) \in Seq(Chars) /\ DigitsRight(v, base)
    BY DigitsAre, DigitsSound, BaseIsNat
  <1>2. N \in Nat \ {0}
    BY <1>1 DEF DigitsRight
  <1>3. Power(base, N) > v /\ (v # 0 => Power(base, N - 1) <= v)
    <2>1. CASE v = 0
      <3>1. Power(base, 1) > 1
        BY PowersGrow
      <3>2. Power(base, 1) \in Nat
        BY <1>1, PowerIs
      <3> QED BY <2>1, <3>1, <3>2
    <2>2. CASE v # 0
      <3>1. N = Len(Digits(v, base))
        BY <2>2
      <3> QED BY <1>1, <2>2, <3>1 DEF DigitsRight
    <2> QED BY <2>1, <2>2
  <1> HIDE DEF N
  <1>4. N \in 1 .. v + 1
    <2>1. CASE v = 0
      BY <2>1 DEF N
    <2>2. CASE v # 0
      <3>1. N - 1 \in Nat
        BY <1>2
      <3>2. Power(base, N - 1) > N - 1 /\ Power(base, N - 1) \in Nat
        BY <1>1, <3>1, PowersGrow, PowerIs
      <3>3. Power(base, N - 1) <= v
        BY <1>3, <2>2
      <3> QED BY <1>2, <3>2, <3>3
    <2> QED BY <2>1, <2>2
  <1>5. Fits(N)
    <2>1. CASE v = 0
      BY <1>3, <2>1 DEF N
    <2>2. CASE v # 0
      BY <1>3, <2>2
    <2> QED BY <2>1, <2>2
  <1>6. ASSUME NEW n \in 1 .. v + 1, Fits(n) PROVE n = N
    <2>1. CASE n < N
      <3>1. n \in 0 .. N - 1 /\ N - 1 \in Nat /\ v # 0 /\ n \in Nat
        BY <1>2, <2>1 DEF N
      <3>2. Power(base, n) <= Power(base, N - 1) /\ Power(base, n) \in Nat /\ Power(base, N - 1) \in Nat
        BY <1>1, <3>1, PowersGrow, PowerIs
      <3> QED BY <1>3, <1>6, <3>1, <3>2
    <2>2. CASE n > N
      <3>1. N \in 0 .. n - 1 /\ n - 1 \in Nat /\ N \in Nat /\ n # 1
        BY <1>2, <2>2
      <3>2. Power(base, N) <= Power(base, n - 1) /\ Power(base, N) \in Nat /\ Power(base, n - 1) \in Nat
        BY <1>1, <3>1, PowersGrow, PowerIs
      <3>3. Power(base, n - 1) <= v
        BY <1>6, <3>1
      <3> QED BY <1>3, <3>2, <3>3
    <2> QED BY <1>2, <2>1, <2>2
  <1>7. NumDigits(v, base) = CHOOSE n \in 1 .. v + 1 : Fits(n)
    BY DEF NumDigits
  <1> HIDE DEF Fits
  <1>8. NumDigits(v, base) = N
    BY <1>4, <1>5, <1>6, <1>7
  <1> QED BY <1>2, <1>8 DEF N

(* The digit of a place: the one that Digits stores, or 0 beyond them.     *)
LEMMA PlaceIs ==
  ASSUME NEW base \in Bases, NEW v \in Nat, NEW i \in Nat
  PROVE  LET D == Digits(v, base)
         IN  Digit((v \div Power(base, i)) % base) = IF i < Len(D) THEN D[i + 1] ELSE "0"
  <1> DEFINE D == Digits(v, base)
             L == Len(D)
  <1>1. base \in Nat /\ D \in Seq(Chars) /\ DigitsRight(v, base) /\ L \in Nat
    <2>1. D \in Seq(Chars)
      BY DigitsAre
    <2> HIDE DEF D
    <2> QED BY <2>1, DigitsSound, BaseIsNat
  <1>2. CASE i < L
    <2>1. i + 1 \in 1 .. L /\ i + 1 - 1 = i
      BY <1>1, <1>2
    <2>2. D[i + 1] = Digit((v \div Power(base, i + 1 - 1)) % base)
      BY <1>1, <2>1 DEF DigitsRight
    <2> QED BY <1>2, <2>1, <2>2
  <1>3. CASE ~(i < L)
    <2>1. v < Power(base, L) /\ L \in 0 .. i
      BY <1>1, <1>3 DEF DigitsRight
    <2>2. Power(base, L) <= Power(base, i) /\ Power(base, L) \in Nat /\ Power(base, i) \in Nat
      BY <1>1, <2>1, PowersGrow, PowerIs
    <2> DEFINE P == Power(base, i)
    <2>3. P \in Nat \ {0} /\ v < P
      BY <2>1, <2>2
    <2> HIDE DEF P
    <2>4. v \div P = 0
      BY <2>3, QuotientIs
    <2>5. Digit(0 % base) = "0"
      BY DEF Digit, Bases
    <2> QED BY <1>3, <2>4, <2>5 DEF P
  <1> QED BY <1>2, <1>3

(* A numeral is the stored digits reversed, with noughts in front.         *)
NumeralRight(v, base, width) ==
    LET D == Digits(v, base)
        s == Numeral(v, base, width)
        n == IF Len(D) > width THEN Len(D) ELSE width
    IN  /\ s \in Seq(Chars)
        /\ Len(s) = n
        /\ \A i \in 1 .. n : s[i] = IF n - i < Len(D) THEN D[n - i + 1] ELSE "0"

LEMMA NumeralIs ==
  ASSUME NEW base \in Bases, NEW v \in Nat, NEW width \in Nat \ {0}
  PROVE  NumeralRight(v, base, width)
  <1> DEFINE D == Digits(v, base)
             N == NumDigits(v, base)
             n == IF N > width THEN N ELSE width
             s == Numeral(v, base, width)
  <1>1. /\ N = IF v = 0 THEN 1 ELSE Len(D)
        /\ N \in Nat \ {0}
    BY NumDigitsIs
  <1>2. D \in Seq(Chars) /\ (v = 0 <=> Len(D) = 0)
    <2>1. D \in Seq(Chars)
      BY DigitsAre
    <2>2. DigitsRight(v, base)
      BY DigitsSound
    <2> QED BY <2>1, <2>2 DEF DigitsRight
  <1>3. s = [i \in 1 .. n |-> Digit((v \div Power(base, n - i)) % base)]
    BY DEF Numeral
  <1> HIDE DEF N
  <1>4. n \in Nat /\ n >= 1
    BY <1>1
  <1> HIDE DEF n
  <1>5. ASSUME NEW i \in 1 .. n
        PROVE  Digit((v \div Power(base, n - i)) % base) =
                  IF n - i < Len(D) THEN D[n - i + 1] ELSE "0"
    <2>1. n - i \in Nat
      BY <1>4
    <2> QED BY <2>1, PlaceIs
  <1> HIDE DEF D
  <1>6. ASSUME NEW i \in 1 .. n
        PROVE  (IF n - i < Len(D) THEN D[n - i + 1] ELSE "0") \in Chars
    <2>1. CASE n - i < Len(D)
      <3>1. n - i + 1 \in 1 .. Len(D)
        BY <1>2, <1>4, <2>1
      <3>2. D[n - i + 1] \in Chars
        <4> DEFINE j == n - i + 1
        <4>1. j \in 1 .. Len(D)
          BY <3>1
        <4> HIDE DEF j
        <4>2. D[j] \in Chars
          BY <1>2, <4>1
        <4> QED BY <4>2 DEF j
      <3> QED BY <2>1, <3>2
    <2>2. CASE ~(n - i < Len(D))
      BY <2>2 DEF Chars, DigitChars
    <2> QED BY <2>1, <2>2
  <1>7. s = [i \in 1 .. n |-> IF n - i < Len(D) THEN D[n - i + 1] ELSE "0"]
    BY <1>3, <1>5
  <1>8. s \in Seq(Chars) /\ Len(s) = n
    <2>1. s \in [1 .. n -> Chars]
      <3> DEFINE e(i) == IF n - i < Len(D) THEN D[n - i + 1] ELSE "0"
      <3>1. \A i \in 1 .. n : e(i) \in Chars
        BY <1>6
      <3>2. s = [i \in 1 .. n |-> e(i)]
        BY <1>7
      <3> HIDE DEF e, s
      <3> QED BY <3>1, <3>2
    <2> HIDE DEF s
    <2> QED BY <1>4, <2>1
  <1>9. \A i \in 1 .. n : s[i] = IF n - i < Len(D) THEN D[n - i + 1] ELSE "0"
    BY <1>7
  <1>10. n = IF Len(D) > width THEN Len(D) ELSE width
    BY <1>1, <1>2 DEF n
  <1> HIDE DEF s
  <1> QED BY <1>8, <1>9, <1>10 DEF NumeralRight, s, D

LEMMA ReverseIs ==
  ASSUME NEW S, NEW s \in Seq(S)
  PROVE  /\ Reverse(s) \in Seq(S) /\ Len(Reverse(s)) = Len(s)
         /\ \A i \in 1 .. Len(s) : Reverse(s)[i] = s[Len(s) - i + 1]
  <1>1. Reverse(s) = [i \in 1 .. Len(s) |-> s[Len(s) - i + 1]]
    BY DEF Reverse
  <1>2. ASSUME NEW i \in 1 .. Len(s) PROVE s[Len(s) - i + 1] \in S
    <2>1. Len(s) - i + 1 \in 1 .. Len(s)
      OBVIOUS
    <2> QED BY <2>1
  <1>3. Len(s) \in Nat
    OBVIOUS
  <1> DEFINE r == Reverse(s)
             n == Len(s)
             e(i) == s[Len(s) - i + 1]
  <1>4. r = [i \in 1 .. n |-> e(i)] /\ \A i \in 1 .. n : e(i) \in S
    BY <1>1, <1>2
  <1> HIDE DEF r, n, e
  <1>5. r \in [1 .. n -> S] /\ n \in Nat /\ \A i \in 1 .. n : r[i] = e(i)
    BY <1>3, <1>4 DEF n
  <1>6. r \in Seq(S) /\ Len(r) = n
    BY <1>5
  <1> QED BY <1>5, <1>6 DEF r, n, e

LEMMA NoughtsAre ==
  ASSUME NEW n \in Int
  PROVE  /\ Noughts(n) \in Seq(Chars)
         /\ Len(Noughts(n)) = IF n < 0 THEN 0 ELSE n
         /\ \A i \in 1 .. n : Noughts(n)[i] = "0"
  <1>1. "0" \in Chars
    BY DEF Chars, DigitChars
  <1>2. CASE n >= 0
    BY <1>1, <1>2 DEF Noughts
  <1>3. CASE n < 0
    <2>1. 1 .. n = {}
      BY <1>3
    <2>2. Noughts(n) = <<>>
      BY <2>1 DEF Noughts
    <2> QED BY <1>3, <2>1, <2>2
  <1> QED BY <1>2, <1>3

(* %u, the log's numbers that are not negative: four characters at least.  *)
LEMMA PaddedIs ==
  ASSUME NEW v \in Nat
  PROVE  /\ Padded(Digits(v, 10)) = Numeral(v, 10, 4)
         /\ Numeral(v, 10, 4) \in Seq(Chars)
  <1> DEFINE D == Digits(v, 10)
             z == Noughts(4 - Len(D))
             s == D \o z
             t == Numeral(v, 10, 4)
             n == IF Len(D) > 4 THEN Len(D) ELSE 4
  <1>0. 10 \in Bases
    BY DEF Bases
  <1>1. D \in Seq(Chars)
    BY <1>0, DigitsAre
  <1>2. /\ t \in Seq(Chars) /\ Len(t) = n
        /\ \A i \in 1 .. n : t[i] = IF n - i < Len(D) THEN D[n - i + 1] ELSE "0"
    <2>1. NumeralRight(v, 10, 4)
      BY <1>0, NumeralIs
    <2> QED BY <2>1 DEF NumeralRight
  <1> HIDE DEF D
  <1>3. /\ z \in Seq(Chars) /\ Len(z) = IF 4 - Len(D) < 0 THEN 0 ELSE 4 - Len(D)
        /\ \A i \in 1 .. 4 - Len(D) : z[i] = "0"
    <2>1. 4 - Len(D) \in Int
      BY <1>1
    <2> QED BY <2>1, NoughtsAre
  <1> HIDE DEF z
  <1>4. s \in Seq(Chars) /\ Len(s) = n
    <2>0. D \in Seq(Chars) /\ z \in Seq(Chars)
      BY <1>1, <1>3
    <2>1. s \in Seq(Chars)
      BY <2>0
    <2>2. Len(s) = Len(D) + Len(z)
      BY <2>0
    <2>3. Len(D) \in Nat
      BY <2>0
    <2> HIDE DEF s
    <2> QED BY <1>3, <2>1, <2>2, <2>3
  <1>5. \A j \in 1 .. n : s[j] = IF j <= Len(D) THEN D[j] ELSE "0"
    <2> SUFFICES ASSUME NEW j \in 1 .. n
                 PROVE  s[j] = IF j <= Len(D) THEN D[j] ELSE "0"
      OBVIOUS
    <2>1. CASE j <= Len(D)
      BY <1>1, <1>3, <2>1
    <2>2. CASE ~(j <= Len(D))
      <3>1. j - Len(D) \in 1 .. 4 - Len(D) /\ j - Len(D) \in 1 .. Len(z)
        BY <1>1, <1>3, <2>2
      <3>2. s[j] = z[j - Len(D)]
        BY <1>1, <1>3, <2>2, <3>1
      <3> QED BY <1>3, <2>2, <3>1, <3>2
    <2> QED BY <2>1, <2>2
  <1> HIDE DEF s, t
  <1>6. Reverse(s) = t
    <2>1. /\ Reverse(s) \in Seq(Chars) /\ Len(Reverse(s)) = n
          /\ \A i \in 1 .. n : Reverse(s)[i] = s[n - i + 1]
      <3>1. /\ Reverse(s) \in Seq(Chars) /\ Len(Reverse(s)) = Len(s)
            /\ \A i \in 1 .. Len(s) : Reverse(s)[i] = s[Len(s) - i + 1]
        BY <1>4, ReverseIs
      <3> HIDE DEF n
      <3> QED BY <1>4, <3>1
    <2>2. ASSUME NEW i \in 1 .. n PROVE Reverse(s)[i] = t[i]
      <3>1. n \in Nat /\ Len(D) \in Nat
        BY <1>1
      <3> HIDE DEF n
      <3> DEFINE j == n - i + 1
      <3>2. j \in 1 .. n /\ (j <= Len(D) <=> n - i < Len(D))
        BY <3>1
      <3> HIDE DEF j
      <3>3. s[j] = IF j <= Len(D) THEN D[j] ELSE "0"
        BY <1>5, <3>2
      <3>4. Reverse(s)[i] = s[j]
        BY <2>1 DEF j
      <3>5. t[i] = IF n - i < Len(D) THEN D[j] ELSE "0"
        BY <1>2 DEF j
      <3> QED BY <3>2, <3>3, <3>4, <3>5
    <2> DEFINE r == Reverse(s)
    <2> HIDE DEF r, n
    <2>3. r \in Seq(Chars) /\ Len(r) = Len(t) /\ \A i \in 1 .. Len(r) : r[i] = t[i]
      BY <1>2, <2>1, <2>2 DEF r
    <2>4. r = t
      BY <1>2, <2>3
    <2> QED BY <2>4 DEF r
  <1>7. Padded(Digits(v, 10)) = Reverse(s)
    BY DEF Padded, s, z, D
  <1> QED BY <1>2, <1>6, <1>7 DEF t

(* %x, %o, %llu: the digits alone, and one for 0.                          *)
LEMMA UnpaddedIs ==
  ASSUME NEW base \in Bases, NEW v \in Nat
  PROVE  /\ Unpadded(Digits(v, base)) = Numeral(v, base, 1)
         /\ Numeral(v, base, 1) \in Seq(Chars)
         /\ v # 0 => Numeral(v, base, 1) = Reverse(Digits(v, base))
         /\ Len(Numeral(v, base, 1)) = IF v = 0 THEN 1 ELSE Len(Digits(v, base))
  <1> DEFINE D == Digits(v, base)
             t == Numeral(v, base, 1)
             n == IF v = 0 THEN 1 ELSE Len(D)
  <1>1. D \in Seq(Chars)
    BY DigitsAre
  <1>2. v = 0 <=> Len(D) = 0
    BY DigitsSound DEF DigitsRight
  <1>3. /\ t \in Seq(Chars) /\ Len(t) = n
        /\ \A i \in 1 .. n : t[i] = IF n - i < Len(D) THEN D[n - i + 1] ELSE "0"
    <2> DEFINE m == IF Len(D) > 1 THEN Len(D) ELSE 1
    <2>1. NumeralRight(v, base, 1)
      BY NumeralIs
    <2>2. /\ t \in Seq(Chars) /\ Len(t) = m
          /\ \A i \in 1 .. m : t[i] = IF m - i < Len(D) THEN D[m - i + 1] ELSE "0"
      BY <2>1 DEF NumeralRight
    <2> HIDE DEF D, t
    <2>3. m = n
      BY <1>1, <1>2
    <2> QED BY <2>2, <2>3
  <1> HIDE DEF D, t
  <1>4. CASE v = 0
    <2>1. D = <<>>
      BY <1>1, <1>2, <1>4
    <2>2. Unpadded(D) = <<"0">>
      BY <2>1 DEF Unpadded
    <2>3. Len(t) = 1 /\ t[1] = "0"
      BY <1>2, <1>3, <1>4
    <2>4. t = <<"0">>
      BY <1>3, <2>3
    <2> QED BY <1>3, <1>4, <2>2, <2>4 DEF D, t
  <1>5. CASE v # 0
    <2>1. D # <<>> /\ Unpadded(D) = Reverse(D)
      BY <1>1, <1>2, <1>5 DEF Unpadded
    <2> DEFINE r == Reverse(D)
    <2>2. /\ r \in Seq(Chars) /\ Len(r) = Len(D)
          /\ \A i \in 1 .. Len(D) : r[i] = D[Len(D) - i + 1]
      BY <1>1, ReverseIs
    <2> HIDE DEF r
    <2>3. \A i \in 1 .. Len(D) : t[i] = D[Len(D) - i + 1]
      BY <1>1, <1>3, <1>5
    <2>4. r = t
      BY <1>3, <1>5, <2>2, <2>3
    <2> QED BY <1>3, <1>5, <2>1, <2>4 DEF D, t, r
  <1> QED BY <1>4, <1>5

LEMMA ReverseConcat ==
  ASSUME NEW S, NEW s \in Seq(S), NEW t \in Seq(S)
  PROVE  Reverse(s \o t) = Reverse(t) \o Reverse(s)
  <1> DEFINE st == s \o t
             a == Reverse(st)
             rs == Reverse(s)
             rt == Reverse(t)
             b == rt \o rs
  <1>1. st \in Seq(S)
    OBVIOUS
  <1>2. Len(st) = Len(s) + Len(t) /\ Len(s) \in Nat /\ Len(t) \in Nat
    OBVIOUS
  <1>3. \A i \in 1 .. Len(st) : st[i] = IF i <= Len(s) THEN s[i] ELSE t[i - Len(s)]
    OBVIOUS
  <1>4. /\ rs \in Seq(S) /\ Len(rs) = Len(s)
        /\ \A i \in 1 .. Len(s) : rs[i] = s[Len(s) - i + 1]
    BY ReverseIs
  <1>5. /\ rt \in Seq(S) /\ Len(rt) = Len(t)
        /\ \A i \in 1 .. Len(t) : rt[i] = t[Len(t) - i + 1]
    BY ReverseIs
  <1> HIDE DEF st
  <1>6. /\ a \in Seq(S) /\ Len(a) = Len(st)
        /\ \A i \in 1 .. Len(st) : a[i] = st[Len(st) - i + 1]
    BY <1>1, ReverseIs
  <1> HIDE DEF rs, rt, a
  <1>7. b \in Seq(S)
    BY <1>4, <1>5
  <1>8. Len(b) = Len(rt) + Len(rs)
    <2>1. rt \in Seq(S) /\ rs \in Seq(S)
      BY <1>4, <1>5
    <2> QED BY <2>1
  <1>9. \A i \in 1 .. Len(b) : b[i] = IF i <= Len(rt) THEN rt[i] ELSE rs[i - Len(rt)]
    BY <1>4, <1>5
  <1> HIDE DEF b
  <1>10. ASSUME NEW i \in 1 .. Len(st) PROVE a[i] = b[i]
    <2> DEFINE j == Len(st) - i + 1
    <2>1. j \in 1 .. Len(st)
      BY <1>2
    <2>2. a[i] = st[j]
      BY <1>6
    <2>3. CASE i <= Len(t)
      <3>1. j > Len(s) /\ j - Len(s) = Len(t) - i + 1 /\ i \in 1 .. Len(t)
        BY <1>2, <2>3
      <3>2. st[j] = t[Len(t) - i + 1]
        <4> HIDE DEF j
        <4>1. st[j] = t[j - Len(s)]
          BY <1>2, <1>3, <2>1, <3>1
        <4> QED BY <3>1, <4>1
      <3>3. b[i] = rt[i]
        BY <1>2, <1>4, <1>5, <1>8, <1>9, <2>3
      <3> QED BY <1>5, <2>2, <3>1, <3>2, <3>3
    <2>4. CASE ~(i <= Len(t))
      <3>1. j <= Len(s) /\ j = Len(s) - (i - Len(t)) + 1 /\ i - Len(t) \in 1 .. Len(s)
        BY <1>2, <2>4
      <3>2. st[j] = s[j]
        <4> HIDE DEF j
        <4> QED BY <1>2, <1>3, <2>1, <3>1
      <3>3. b[i] = rs[i - Len(t)]
        BY <1>2, <1>4, <1>5, <1>8, <1>9, <2>4
      <3>4. rs[i - Len(t)] = s[Len(s) - (i - Len(t)) + 1]
        BY <1>4, <3>1
      <3> HIDE DEF j
      <3> QED BY <2>2, <3>1, <3>2, <3>3, <3>4
    <2> QED BY <2>3, <2>4
  <1>11. Len(a) = Len(b)
    BY <1>2, <1>4, <1>5, <1>6, <1>8
  <1> DEFINE n == Len(st)
  <1>12. Len(a) = n /\ Len(b) = n /\ a \in Seq(S) /\ \A i \in 1 .. n : a[i] = b[i]
    BY <1>6, <1>10, <1>11
  <1> HIDE DEF n
  <1>13. a = b
    BY <1>7, <1>12
  <1> QED BY <1>13 DEF a, b, rs, rt, st

LEMMA ReverseNoughts ==
  ASSUME NEW n \in Int
  PROVE  Reverse(Noughts(n)) = Noughts(n)
  <1> DEFINE s == Noughts(n)
             m == Len(s)
             r == Reverse(s)
  <1>1. s \in Seq(Chars) /\ \A i \in 1 .. m : s[i] = "0"
    BY NoughtsAre
  <1>2. r \in Seq(Chars) /\ Len(r) = m /\ \A i \in 1 .. m : r[i] = s[m - i + 1]
    BY <1>1, ReverseIs
  <1> HIDE DEF s, r
  <1>3. ASSUME NEW i \in 1 .. m PROVE r[i] = s[i]
    <2> DEFINE j == m - i + 1
    <2>1. j \in 1 .. m
      BY <1>1
    <2> HIDE DEF j
    <2>2. s[j] = "0" /\ s[i] = "0"
      BY <1>1, <2>1
    <2> QED BY <1>2, <2>2 DEF j
  <1>4. r = s
    BY <1>1, <1>2, <1>3
  <1> QED BY <1>4 DEF r, s

(* %d: four characters at least, the padding in front of the sign.         *)
DecimalOf(v) ==
    IF v < 0 THEN Noughts(4 - Len(Signed(v))) \o Signed(v) ELSE Numeral(v, 10, 4)

LEMMA SignedIs ==
  ASSUME NEW v \in Int
  PROVE  /\ Unpadded(Digits(Absolute(v), 10) \o Sign(v)) = Signed(v)
         /\ Signed(v) \in Seq(Chars)
         /\ v < 0 => /\ Signed(v) = Reverse(Digits(Absolute(v), 10) \o Sign(v))
                     /\ Len(Signed(v)) = Len(Digits(Absolute(v), 10)) + 1
  <1> DEFINE a == Absolute(v)
             D == Digits(a, 10)
             t == Numeral(a, 10, 1)
  <1>0. 10 \in Bases /\ a \in Nat
    BY DEF Bases, Absolute
  <1>1. D \in Seq(Chars)
    BY <1>0, DigitsAre
  <1>2. /\ Unpadded(D) = t
        /\ t \in Seq(Chars)
        /\ a # 0 => t = Reverse(D)
        /\ Len(t) = IF a = 0 THEN 1 ELSE Len(D)
    BY <1>0, UnpaddedIs
  <1> HIDE DEF D, t
  <1>3. CASE v < 0
    <2>1. Sign(v) = <<"-">> /\ a # 0
      BY <1>3 DEF Sign, Absolute
    <2>2. Signed(v) = <<"-">> \o t
      BY <2>1 DEF Signed, t
    <2>3. "-" \in Chars
      BY DEF Chars
    <2> DEFINE u == <<"-">>
    <2>4. u \in Seq(Chars) /\ Len(u) = 1 /\ u # <<>>
      BY <2>3
    <2>5. Reverse(u) = u
      <3>1. Reverse(u) \in Seq(Chars) /\ Len(Reverse(u)) = 1 /\ Reverse(u)[1] = u[1]
        <4> HIDE DEF u
        <4>1. /\ Reverse(u) \in Seq(Chars) /\ Len(Reverse(u)) = Len(u)
              /\ \A i \in 1 .. Len(u) : Reverse(u)[i] = u[Len(u) - i + 1]
          BY <2>4, ReverseIs
        <4>2. 1 \in 1 .. Len(u) /\ Len(u) - 1 + 1 = 1
          BY <2>4
        <4> QED BY <2>4, <4>1, <4>2
      <3> DEFINE w == Reverse(u)
      <3> HIDE DEF w, u
      <3>2. w = u
        BY <2>4, <3>1 DEF w
      <3> QED BY <3>2 DEF w
    <2> HIDE DEF u
    <2>6. Reverse(D \o u) = u \o t
      BY <1>1, <1>2, <2>1, <2>4, <2>5, ReverseConcat
    <2>7. D \o u # <<>>
      BY <1>1, <2>4
    <2>8. Unpadded(D \o u) = u \o t
      BY <2>6, <2>7 DEF Unpadded
    <2>9. u \o t \in Seq(Chars)
      BY <1>2, <2>4
    <2>10. Len(u \o t) = Len(D) + 1
      <3>1. Len(u \o t) = Len(u) + Len(t)
        <4>1. u \in Seq(Chars) /\ t \in Seq(Chars)
          BY <1>2, <2>4
        <4> QED BY <4>1
      <3>2. Len(D) \in Nat
        BY <1>1
      <3> QED BY <1>2, <2>1, <2>4, <3>1, <3>2
    <2> QED BY <1>3, <2>1, <2>2, <2>6, <2>8, <2>9, <2>10 DEF u, D
  <1>4. CASE ~(v < 0)
    <2>1. Sign(v) = <<>>
      BY <1>4 DEF Sign
    <2>2. D \o <<>> = D /\ <<>> \o t = t
      BY <1>1, <1>2
    <2>3. Signed(v) = t
      BY <2>1, <2>2 DEF Signed, t
    <2> QED BY <1>2, <1>4, <2>1, <2>2, <2>3 DEF D
  <1> QED BY <1>3, <1>4

LEMMA DecimalIs ==
  ASSUME NEW v \in Int
  PROVE  Decimal(v) = DecimalOf(v) /\ Decimal(v) \in Seq(Chars)
  <1> DEFINE D == Digits(Absolute(v), 10)
  <1>0. 10 \in Bases /\ Absolute(v) \in Nat
    BY DEF Bases, Absolute
  <1>1. D \in Seq(Chars)
    BY <1>0, DigitsAre
  <1>2. CASE v < 0
    <2> DEFINE s == D \o Sign(v)
               z == Noughts(4 - Len(s))
    <2>1. Sign(v) \in Seq(Chars)
      <3>1. Sign(v) = <<"-">> /\ "-" \in Chars
        BY <1>2 DEF Sign, Chars
      <3> QED BY <3>1
    <2>2. s \in Seq(Chars)
      BY <1>1, <2>1
    <2>3. Signed(v) = Reverse(s) /\ Signed(v) \in Seq(Chars)
      BY <1>2, SignedIs
    <2> HIDE DEF s
    <2>4. Len(Reverse(s)) = Len(s) /\ 4 - Len(s) \in Int
      BY <2>2, ReverseIs
    <2>5. z \in Seq(Chars) /\ Reverse(z) = z
      BY <2>4, NoughtsAre, ReverseNoughts
    <2>6. Reverse(s \o z) = z \o Reverse(s)
      BY <2>2, <2>5, ReverseConcat
    <2>7. Decimal(v) = z \o Signed(v)
      BY <2>3, <2>6 DEF Decimal, Padded, s
    <2>8. z = Noughts(4 - Len(Signed(v)))
      BY <2>3, <2>4
    <2> HIDE DEF z
    <2>9. z \o Signed(v) \in Seq(Chars)
      BY <2>3, <2>5
    <2> QED BY <1>2, <2>7, <2>8, <2>9 DEF DecimalOf
  <1>3. CASE ~(v < 0)
    <2>1. Sign(v) = <<>> /\ Absolute(v) = v /\ v \in Nat
      BY <1>3 DEF Sign, Absolute
    <2>2. D \o <<>> = D
      BY <1>1
    <2>3. Decimal(v) = Padded(Digits(v, 10))
      BY <2>1, <2>2 DEF Decimal
    <2>4. Decimal(v) = Numeral(v, 10, 4) /\ Numeral(v, 10, 4) \in Seq(Chars)
      BY <2>1, <2>3, PaddedIs
    <2> QED BY <1>3, <2>4 DEF DecimalOf
  <1> QED BY <1>2, <1>3

-----------------------------------------------------------------------------
(* A sequence of sequences, joined up to each of them.                     *)
FlatRight(flat, seqs) ==
    /\ flat \in [0 .. Len(seqs) -> Seq(Chars)]
    /\ flat[0] = <<>>
    /\ \A k \in 1 .. Len(seqs) : flat[k] = flat[k - 1] \o seqs[k]
    /\ FlattenSeq(seqs) = flat[Len(seqs)]

Flat(seqs) == CHOOSE flat : FlatRight(flat, seqs)

LEMMA FlatIs ==
  ASSUME NEW seqs \in Seq(Seq(Chars))
  PROVE  FlatRight(Flat(seqs), seqs)
  <1> DEFINE N == Len(seqs)
             S == Seq(Chars)
             step == [x \in (1 .. N) \X S |-> x[2] \o seqs[x[1]]]
             pred == [k \in 1 .. N |-> k - 1]
  <1>0. N \in Nat /\ \A k \in 1 .. N : seqs[k] \in S
    OBVIOUS
  <1> HIDE DEF N
  <1>1. PICK f \in [0 .. N -> S] : Recurs(f, N, <<>>, step, pred)
    <2>1. step \in [(1 .. N) \X S -> S]
      <3>1. \A k \in 1 .. N, s \in S : s \o seqs[k] \in S
        BY <1>0
      <3>2. \A x \in (1 .. N) \X S : x[1] \in 1 .. N /\ x[2] \in S
        OBVIOUS
      <3> HIDE DEF S
      <3> QED BY <3>1, <3>2
    <2>2. \A k \in 1 .. N : pred[k] \in 0 .. k - 1
      OBVIOUS
    <2>3. <<>> \in S
      OBVIOUS
    <2> HIDE DEF step, pred, S
    <2> QED BY <1>0, <2>1, <2>2, <2>3, Recursion
  <1>2. f[0] = <<>>
    BY <1>1 DEF Recurs
  <1>3. ASSUME NEW k \in 1 .. N PROVE f[k] = f[k - 1] \o seqs[k]
    <2>1. f[k] = step[<<k, f[k - 1]>>]
      BY <1>1 DEF Recurs
    <2>2. f[k - 1] \in S
      <3>1. k - 1 \in 0 .. N
        BY <1>0
      <3> HIDE DEF S
      <3> QED BY <3>1
    <2> DEFINE s == f[k - 1]
    <2> HIDE DEF s, S
    <2>3. <<k, s>> \in (1 .. N) \X S
      BY <2>2 DEF s
    <2>4. step[<<k, s>>] = s \o seqs[k]
      BY <2>3
    <2> QED BY <2>1, <2>4 DEF s
  <1> HIDE DEF S, step, pred
  <1>4. FlattenSeq(seqs) = f[N]
    <2>1. CASE N = 0
      <3>1. seqs = <<>> /\ FlattenSeq(seqs) = seqs
        BY <2>1 DEF FlattenSeq, N
      <3> QED BY <1>2, <2>1, <3>1
    <2>2. CASE N # 0
      <3> DEFINE Fixed(g) == g = [i \in 1 .. N |-> IF i = 1 THEN seqs[i] ELSE g[i - 1] \o seqs[i]]
                 h == [i \in 1 .. N |-> f[i]]
                 flatten == CHOOSE g : Fixed(g)
      <3>1. ASSUME NEW i \in 1 .. N
            PROVE  h[i] = IF i = 1 THEN seqs[i] ELSE h[i - 1] \o seqs[i]
        <4>1. CASE i = 1
          <5>1. f[1] = f[0] \o seqs[1]
            <6>1. 1 \in 1 .. N /\ 1 - 1 = 0
              BY <1>0, <2>2
            <6> QED BY <1>3, <6>1
          <5>2. <<>> \o seqs[1] = seqs[1]
            <6>1. seqs[1] \in Seq(Chars)
              BY <1>0, <4>1 DEF S
            <6> QED BY <6>1
          <5> QED BY <1>2, <4>1, <5>1, <5>2
        <4>2. CASE i # 1
          <5>1. i - 1 \in 1 .. N
            BY <1>0, <4>2
          <5> QED BY <1>3, <4>2, <5>1
        <4> QED BY <4>1, <4>2
      <3>2. Fixed(h)
        <4>1. h = [i \in 1 .. N |-> h[i]]
          OBVIOUS
        <4> HIDE DEF h
        <4> QED BY <3>1, <4>1
      <3>3. Fixed(flatten)
        <4> HIDE DEF Fixed
        <4> QED BY <3>2
      <3>4. FlattenSeq(seqs) = flatten[N]
        BY <2>2 DEF FlattenSeq, N
      <3> HIDE DEF flatten
      <3> DEFINE same == {i \in 0 .. N : i # 0 => flatten[i] = f[i]}
      <3>6. \A i \in 1 .. N : flatten[i] = IF i = 1 THEN seqs[i] ELSE flatten[i - 1] \o seqs[i]
        BY <3>3
      <3>7. \A i \in 1 .. N : f[i] = IF i = 1 THEN seqs[i] ELSE f[i - 1] \o seqs[i]
        <4> SUFFICES ASSUME NEW i \in 1 .. N
                     PROVE  f[i] = IF i = 1 THEN seqs[i] ELSE f[i - 1] \o seqs[i]
          OBVIOUS
        <4>1. f[i] = h[i] /\ (i # 1 => f[i - 1] = h[i - 1])
          BY <1>0
        <4> HIDE DEF h
        <4> QED BY <3>1, <4>1
      <3> HIDE DEF Fixed, h
      <3>8. ASSUME NEW i \in 0 .. N, \A j \in 0 .. i - 1 : j \in same
            PROVE  i \in same
        <4>1. CASE i = 0
          BY <4>1
        <4>2. CASE i = 1
          <5>1. flatten[i] = f[i]
            BY <3>6, <3>7, <4>2
          <5> QED BY <5>1
        <4>3. CASE i # 0 /\ i # 1
          <5>1. i \in 1 .. N /\ i - 1 \in 0 .. i - 1 /\ i - 1 # 0
            BY <4>3
          <5>2. flatten[i - 1] = f[i - 1]
            BY <3>8, <5>1
          <5>3. flatten[i] = f[i]
            BY <3>6, <3>7, <5>1, <5>2
          <5> QED BY <5>3
        <4> QED BY <4>1, <4>2, <4>3
      <3> HIDE DEF same
      <3>9. \A i \in 0 .. N : i \in same
        BY <1>0, <3>8, UpTo
      <3>10. flatten[N] = f[N]
        <4>1. N \in same
          BY <1>0, <3>9
        <4> QED BY <2>2, <4>1 DEF same
      <3> QED BY <3>4, <3>10
    <2> QED BY <2>1, <2>2
  <1>5. FlatRight(f, seqs)
    BY <1>1, <1>2, <1>3, <1>4 DEF FlatRight, S, N
  <1> QED BY <1>5 DEF Flat

(* Where a piece is in the text.                                           *)
LEMMA FlatGrows ==
  ASSUME NEW seqs \in Seq(Seq(Chars)), NEW k \in 0 .. Len(seqs), NEW m \in k .. Len(seqs)
  PROVE  /\ Flat(seqs)[k] \in Seq(Chars) /\ Flat(seqs)[m] \in Seq(Chars)
         /\ Len(Flat(seqs)[k]) <= Len(Flat(seqs)[m])
         /\ \A i \in 1 .. Len(Flat(seqs)[k]) : Flat(seqs)[m][i] = Flat(seqs)[k][i]
  <1> DEFINE flat == Flat(seqs)
             N == Len(seqs)
             Extends(n) == /\ Len(flat[k]) <= Len(flat[n])
                           /\ \A i \in 1 .. Len(flat[k]) : flat[n][i] = flat[k][i]
             good == {n \in 0 .. m : n >= k => Extends(n)}
  <1>1. /\ flat \in [0 .. N -> Seq(Chars)]
        /\ \A n \in 1 .. N : flat[n] = flat[n - 1] \o seqs[n]
        /\ N \in Nat /\ \A n \in 1 .. N : seqs[n] \in Seq(Chars)
    <2>1. FlatRight(flat, seqs)
      BY FlatIs
    <2>2. N \in Nat /\ \A n \in 1 .. N : seqs[n] \in Seq(Chars)
      OBVIOUS
    <2> HIDE DEF flat
    <2> QED BY <2>1, <2>2 DEF FlatRight
  <1> HIDE DEF flat, N
  <1>2. m \in 0 .. N /\ k \in 0 .. N /\ m \in Nat
    BY DEF N
  <1>3. ASSUME NEW n \in 0 .. m, \A j \in 0 .. n - 1 : j \in good
        PROVE  n \in good
    <2>1. CASE n <= k
      BY <1>1, <1>2, <2>1
    <2>2. CASE n > k
      <3>1. n \in 1 .. N /\ n - 1 \in 0 .. n - 1 /\ n - 1 >= k /\ n - 1 \in 0 .. N
        BY <1>1, <1>2, <2>2
      <3>2. Extends(n - 1)
        BY <1>3, <3>1
      <3> DEFINE a == flat[n - 1]
                 b == seqs[n]
                 c == flat[n]
                 z == flat[k]
      <3>3. a \in Seq(Chars) /\ b \in Seq(Chars) /\ c = a \o b /\ z \in Seq(Chars)
        BY <1>1, <1>2, <3>1
      <3>4. Len(z) <= Len(a) /\ \A i \in 1 .. Len(z) : a[i] = z[i]
        BY <3>2
      <3> HIDE DEF a, b, c, z
      <3>5. Len(c) = Len(a) + Len(b) /\ \A i \in 1 .. Len(a) : c[i] = a[i]
        BY <3>3
      <3>6. Len(z) <= Len(c) /\ \A i \in 1 .. Len(z) : c[i] = z[i]
        BY <3>3, <3>4, <3>5
      <3>7. Extends(n)
        BY <3>6 DEF c, z
      <3> QED BY <3>7
    <2> QED BY <1>2, <2>1, <2>2
  <1> HIDE DEF good
  <1>4. \A n \in 0 .. m : n \in good
    BY <1>2, <1>3, UpTo
  <1>5. m \in good /\ m >= k
    BY <1>2, <1>4
  <1>6. Extends(m)
    BY <1>5 DEF good
  <1>7. flat[k] \in Seq(Chars) /\ flat[m] \in Seq(Chars)
    BY <1>1, <1>2
  <1> QED BY <1>6, <1>7 DEF flat

LEMMA TextAt ==
  ASSUME NEW seqs \in Seq(Seq(Chars)), NEW k \in 1 .. Len(seqs)
  PROVE  LET sofar == Flat(seqs)[k - 1]
         IN  /\ Len(sofar) \in Nat /\ Len(seqs[k]) \in Nat
             /\ Len(FlattenSeq(seqs)) \in Nat
             /\ Len(sofar) + Len(seqs[k]) = Len(Flat(seqs)[k])
             /\ Len(sofar) + Len(seqs[k]) <= Len(FlattenSeq(seqs))
             /\ \A j \in 1 .. Len(seqs[k]) :
                   FlattenSeq(seqs)[Len(sofar) + j] = seqs[k][j]
  <1> DEFINE N == Len(seqs)
             a == Flat(seqs)[k - 1]
             b == seqs[k]
             c == Flat(seqs)[k]
             t == Flat(seqs)[N]
  <1>1. /\ a \in Seq(Chars) /\ c = a \o b /\ FlattenSeq(seqs) = t
        /\ b \in Seq(Chars) /\ t \in Seq(Chars)
    <2>1. FlatRight(Flat(seqs), seqs)
      BY FlatIs
    <2>2. k - 1 \in 0 .. N /\ N \in 0 .. N
      OBVIOUS
    <2>3. b \in Seq(Chars)
      OBVIOUS
    <2> DEFINE flat == Flat(seqs)
    <2> HIDE DEF flat, b
    <2>4. /\ flat[k - 1] \in Seq(Chars) /\ flat[k] = flat[k - 1] \o b
          /\ FlattenSeq(seqs) = flat[N] /\ flat[N] \in Seq(Chars)
      BY <2>1, <2>2 DEF FlatRight, flat, b
    <2> QED BY <2>3, <2>4 DEF flat
  <1>2. Len(c) <= Len(t) /\ \A i \in 1 .. Len(c) : t[i] = c[i]
    <2>1. k \in 0 .. N /\ N \in k .. N
      OBVIOUS
    <2> QED BY <2>1, FlatGrows
  <1> HIDE DEF a, b, c, t, N
  <1>3. /\ Len(c) = Len(a) + Len(b) /\ \A j \in 1 .. Len(b) : c[Len(a) + j] = b[j]
        /\ Len(a) \in Nat /\ Len(b) \in Nat /\ Len(t) \in Nat
    <2>1. a \in Seq(Chars) /\ b \in Seq(Chars) /\ c = a \o b
      BY <1>1
    <2> QED BY <1>1, <2>1
  <1>4. ASSUME NEW j \in 1 .. Len(b) PROVE t[Len(a) + j] = b[j]
    <2>1. Len(a) + j \in 1 .. Len(c)
      BY <1>3
    <2>2. t[Len(a) + j] = c[Len(a) + j]
      BY <1>2, <2>1
    <2> QED BY <1>3, <2>2
  <1>5. Len(a) + Len(b) <= Len(t)
    BY <1>2, <1>3
  <1> QED BY <1>1, <1>3, <1>4, <1>5 DEF a, b, c

-----------------------------------------------------------------------------
(* What callers give, and the arguments that pass it.                      *)
Values == Ints \cup Words \cup Strings \cup {"x", "nothing"}

LEMMA ValuesAre ==
  ASSUME NEW piece
  PROVE  ValuesOf(piece) \subseteq Values
  BY DEF ValuesOf, Values

LEMMA GivensAre ==
  ASSUME NEW X, NEW f \in Seq(X), NEW g \in Givens(f)
  PROVE  /\ g \in Seq(Values) /\ Len(g) = Len(f)
         /\ \A i \in 1 .. Len(f) : g[i] \in ValuesOf(f[i])
  <1> DEFINE N == Len(f)
             S == SUBSET Seq(Values)
             more(k, u) == {Append(h, v) : h \in u, v \in ValuesOf(f[k])}
             step == [x \in (1 .. N) \X S |-> more(x[1], x[2])]
             pred == [k \in 1 .. N |-> k - 1]
             Fixed(u) == u = [n \in 0 .. N |-> IF n = 0 THEN {<<>>} ELSE more(n, u[n - 1])]
             upTo == CHOOSE u : Fixed(u)
  <1>0. N \in Nat
    OBVIOUS
  <1> HIDE DEF N
  <1>1. PICK u \in [0 .. N -> S] : Recurs(u, N, {<<>>}, step, pred)
    <2>1. step \in [(1 .. N) \X S -> S]
      <3>1. ASSUME NEW k \in 1 .. N, NEW w \in S PROVE more(k, w) \in S
        <4>1. \A h \in Seq(Values), v \in Values : Append(h, v) \in Seq(Values)
          OBVIOUS
        <4>2. ValuesOf(f[k]) \subseteq Values
          BY ValuesAre
        <4> QED BY <4>1, <4>2
      <3>2. \A x \in (1 .. N) \X S : x[1] \in 1 .. N /\ x[2] \in S
        OBVIOUS
      <3> HIDE DEF S, more
      <3> QED BY <3>1, <3>2
    <2>2. \A k \in 1 .. N : pred[k] \in 0 .. k - 1
      OBVIOUS
    <2>3. {<<>>} \in S
      OBVIOUS
    <2> HIDE DEF step, pred, S
    <2> QED BY <1>0, <2>1, <2>2, <2>3, Recursion
  <1>2. u[0] = {<<>>}
    BY <1>1 DEF Recurs
  <1>3. ASSUME NEW n \in 1 .. N PROVE u[n] = more(n, u[n - 1])
    <2> HIDE DEF S, more, step
    <2>1. u[n] = step[<<n, u[n - 1]>>]
      <3>1. u[n] = step[<<n, u[pred[n]]>>] /\ pred[n] = n - 1
        BY <1>1 DEF Recurs
      <3> QED BY <3>1
    <2> USE DEF step
    <2>2. n - 1 \in 0 .. N
      BY <1>0
    <2>3. u[n - 1] \in S
      BY <2>2
    <2> DEFINE w == u[n - 1]
    <2> HIDE DEF w
    <2>4. <<n, w>> \in (1 .. N) \X S
      BY <2>3 DEF w
    <2>5. step[<<n, w>>] = more(n, w)
      BY <2>4
    <2> QED BY <2>1, <2>5 DEF w
  <1>4. Fixed(upTo)
    <2>1. Fixed(u)
      <3>1. u = [n \in 0 .. N |-> u[n]]
        OBVIOUS
      <3>2. \A n \in 0 .. N : u[n] = IF n = 0 THEN {<<>>} ELSE more(n, u[n - 1])
        <4> HIDE DEF more
        <4> QED BY <1>0, <1>2, <1>3
      <3> HIDE DEF more
      <3> QED BY <3>1, <3>2
    <2> HIDE DEF Fixed
    <2> QED BY <2>1
  <1>5. Givens(f) = upTo[N]
    BY DEF Givens, N
  <1> HIDE DEF upTo
  <1>6. upTo[0] = {<<>>} /\ \A n \in 1 .. N : upTo[n] = more(n, upTo[n - 1])
    <2> HIDE DEF more
    <2>1. \A n \in 0 .. N : upTo[n] = IF n = 0 THEN {<<>>} ELSE more(n, upTo[n - 1])
      BY <1>4
    <2>2. 0 \in 0 .. N
      BY <1>0
    <2> QED BY <1>0, <2>1, <2>2
  <1> HIDE DEF Fixed
  <1> DEFINE Fit(h, n) == /\ h \in Seq(Values) /\ Len(h) = n
                          /\ \A i \in 1 .. n : h[i] \in ValuesOf(f[i])
             good == {n \in 0 .. N : \A h \in upTo[n] : Fit(h, n)}
  <1>7. ASSUME NEW n \in 0 .. N, \A j \in 0 .. n - 1 : j \in good
        PROVE  n \in good
    <2> SUFFICES ASSUME NEW h \in upTo[n] PROVE Fit(h, n)
      OBVIOUS
    <2>1. CASE n = 0
      <3>1. h = <<>>
        BY <1>6, <2>1
      <3> QED BY <2>1, <3>1
    <2>2. CASE n # 0
      <3>1. n \in 1 .. N /\ n - 1 \in 0 .. n - 1 /\ n \in Nat
        BY <1>0, <2>2
      <3>2. PICK r \in upTo[n - 1], v \in ValuesOf(f[n]) : h = Append(r, v)
        BY <1>6, <3>1
      <3>3. Fit(r, n - 1)
        BY <1>7, <3>1
      <3>4. v \in Values
        BY ValuesAre
      <3>5. h \in Seq(Values) /\ Len(h) = n /\ h[n] = v /\ \A i \in 1 .. n - 1 : h[i] = r[i]
        BY <3>1, <3>2, <3>3, <3>4
      <3> QED BY <3>1, <3>3, <3>5
    <2> QED BY <2>1, <2>2
  <1> HIDE DEF good
  <1>8. \A n \in 0 .. N : n \in good
    BY <1>0, <1>7, UpTo
  <1>9. N \in good
    BY <1>0, <1>8
  <1>10. Fit(g, N)
    BY <1>5, <1>9 DEF good
  <1> QED BY <1>10 DEF N

(* The arguments of the pieces behind the first k.                         *)
LastOf(f, g) ==
    CHOOSE last : last = [n \in 0 .. Len(f) |->
                             LET i == Len(f) - n + 1
                             IN  IF n = 0 THEN <<>>
                                 ELSE IF IsDirective(f[i]) THEN <<g[i]>> \o last[n - 1]
                                 ELSE last[n - 1]]
ArgsBehind(f, g, k) == LastOf(f, g)[Len(f) - k]

LEMMA ArgumentsAre ==
  ASSUME NEW X, NEW f \in Seq(X), NEW g \in Seq(Values), Len(g) = Len(f)
  PROVE  /\ Arguments(f, g) = ArgsBehind(f, g, 0)
         /\ \A k \in 0 .. Len(f) : ArgsBehind(f, g, k) \in Seq(Values)
         /\ \A k \in 1 .. Len(f) :
               ArgsBehind(f, g, k - 1) =
                  IF IsDirective(f[k]) THEN <<g[k]>> \o ArgsBehind(f, g, k)
                                       ELSE ArgsBehind(f, g, k)
  <1> DEFINE N == Len(f)
             S == Seq(Values)
             more(n, a) == IF IsDirective(f[N - n + 1]) THEN <<g[N - n + 1]>> \o a ELSE a
             step == [x \in (1 .. N) \X S |-> more(x[1], x[2])]
             pred == [k \in 1 .. N |-> k - 1]
             Fixed(u) == u = [n \in 0 .. N |-> IF n = 0 THEN <<>> ELSE more(n, u[n - 1])]
  <1>0. N \in Nat /\ \A i \in 1 .. N : g[i] \in Values
    OBVIOUS
  <1>a. LastOf(f, g) = CHOOSE u : Fixed(u)
    BY DEF LastOf
  <1>b. Arguments(f, g) = LastOf(f, g)[N] /\ \A k \in 0 .. N : ArgsBehind(f, g, k) = LastOf(f, g)[N - k]
    BY DEF Arguments, LastOf, ArgsBehind
  <1> HIDE DEF N
  <1>1. PICK u \in [0 .. N -> S] : Recurs(u, N, <<>>, step, pred)
    <2>1. step \in [(1 .. N) \X S -> S]
      <3>1. ASSUME NEW n \in 1 .. N, NEW w \in S PROVE more(n, w) \in S
        <4> DEFINE v == g[N - n + 1]
        <4>1. v \in Values
          <5>1. N - n + 1 \in 1 .. N
            BY <1>0
          <5> QED BY <1>0, <5>1
        <4> HIDE DEF v
        <4>2. <<v>> \o w \in S
          BY <4>1
        <4> QED BY <4>2 DEF v
      <3>2. \A x \in (1 .. N) \X S : x[1] \in 1 .. N /\ x[2] \in S
        OBVIOUS
      <3> HIDE DEF S, more
      <3> QED BY <3>1, <3>2
    <2>2. \A k \in 1 .. N : pred[k] \in 0 .. k - 1
      OBVIOUS
    <2>3. <<>> \in S
      OBVIOUS
    <2> HIDE DEF step, pred, S
    <2> QED BY <1>0, <2>1, <2>2, <2>3, Recursion
  <1>2. u[0] = <<>>
    BY <1>1 DEF Recurs
  <1>3. ASSUME NEW n \in 1 .. N PROVE u[n] = more(n, u[n - 1])
    <2> HIDE DEF S, more, step
    <2>1. u[n] = step[<<n, u[n - 1]>>]
      <3>1. u[n] = step[<<n, u[pred[n]]>>] /\ pred[n] = n - 1
        BY <1>1 DEF Recurs
      <3> QED BY <3>1
    <2> USE DEF step
    <2>2. n - 1 \in 0 .. N
      BY <1>0
    <2>3. u[n - 1] \in S
      BY <2>2
    <2> DEFINE w == u[n - 1]
    <2> HIDE DEF w
    <2>4. <<n, w>> \in (1 .. N) \X S
      BY <2>3 DEF w
    <2>5. step[<<n, w>>] = more(n, w)
      BY <2>4
    <2> QED BY <2>1, <2>5 DEF w
  <1> DEFINE last == LastOf(f, g)
  <1>4. Fixed(last)
    <2>1. Fixed(u)
      <3>1. u = [n \in 0 .. N |-> u[n]]
        OBVIOUS
      <3>2. \A n \in 0 .. N : u[n] = IF n = 0 THEN <<>> ELSE more(n, u[n - 1])
        <4> HIDE DEF more
        <4> QED BY <1>0, <1>2, <1>3
      <3> HIDE DEF more
      <3> QED BY <3>1, <3>2
    <2> HIDE DEF Fixed
    <2> QED BY <1>a, <2>1
  <1> HIDE DEF last
  <1>6. last[0] = <<>> /\ \A n \in 1 .. N : last[n] = more(n, last[n - 1])
    <2> HIDE DEF more
    <2>1. \A n \in 0 .. N : last[n] = IF n = 0 THEN <<>> ELSE more(n, last[n - 1])
      BY <1>4
    <2>2. 0 \in 0 .. N
      BY <1>0
    <2> QED BY <1>0, <2>1, <2>2
  <1> HIDE DEF Fixed, more, step, pred
  <1> DEFINE good == {n \in 0 .. N : last[n] = u[n]}
  <1>7. ASSUME NEW n \in 0 .. N, \A j \in 0 .. n - 1 : j \in good
        PROVE  n \in good
    <2>1. CASE n = 0
      BY <1>2, <1>6, <2>1
    <2>2. CASE n # 0
      <3>1. n \in 1 .. N /\ n - 1 \in 0 .. n - 1
        BY <1>0, <2>2
      <3> QED BY <1>3, <1>6, <1>7, <3>1
    <2> QED BY <2>1, <2>2
  <1> HIDE DEF good
  <1>8. \A n \in 0 .. N : n \in good
    BY <1>0, <1>7, UpTo
  <1>9. \A n \in 0 .. N : last[n] \in S
    BY <1>8 DEF good
  <1>10. ASSUME NEW k \in 1 .. N
         PROVE  last[N - (k - 1)] = IF IsDirective(f[k]) THEN <<g[k]>> \o last[N - k]
                                                         ELSE last[N - k]
    <2> DEFINE n == N - k + 1
    <2>1. n \in 1 .. N /\ N - (k - 1) = n /\ n - 1 = N - k /\ N - n + 1 = k
      BY <1>0
    <2> HIDE DEF n
    <2>2. last[n] = more(n, last[n - 1])
      BY <1>6, <2>1
    <2> QED BY <2>1, <2>2 DEF more
  <1>11. \A k \in 0 .. N : N - k \in 0 .. N /\ (k = 0 => N - k = N)
    BY <1>0
  <1>12. \A k \in 1 .. N : k - 1 \in 0 .. N /\ k \in 0 .. N
    BY <1>0
  <1>13. Arguments(f, g) = ArgsBehind(f, g, 0)
    <2>1. 0 \in 0 .. N /\ N - 0 = N
      BY <1>0
    <2> QED BY <1>b, <2>1
  <1>14. \A k \in 0 .. N : ArgsBehind(f, g, k) \in S
    BY <1>b, <1>9, <1>11 DEF last
  <1>15. \A k \in 1 .. N : ArgsBehind(f, g, k - 1) = last[N - (k - 1)]
                           /\ ArgsBehind(f, g, k) = last[N - k]
    BY <1>b, <1>12 DEF last
  <1> QED BY <1>10, <1>13, <1>14, <1>15 DEF N, S

-----------------------------------------------------------------------------
(* What is shown for each kind of piece.                                   *)
LEMMA ShownIs ==
  ASSUME NEW v
  PROVE  /\ \A c \in {"d", "i"} : Shown(<<"%", c>>, v) = DecimalOf(v)
         /\ Shown(<<"%", "u">>, v) = Numeral(v, 10, 4)
         /\ Shown(<<"%", "o">>, v) = Numeral(v, 8, 1)
         /\ \A c \in {"x", "X", "p"} : Shown(<<"%", c>>, v) = Numeral(v, 16, 1)
         /\ Shown(<<"%", "c">>, v) = <<v>>
         /\ Shown(<<"%", "s">>, v) = v
         /\ Shown(<<"%", "%">>, v) = <<"%">>
         /\ Shown(<<"%", "l", "l", "u">>, v) = Numeral(v, 10, 1)
         /\ Shown(<<"%", "l", "l", "d">>, v) = Signed(v)
  <1>1. \A c \in {"d", "i"} : Shown(<<"%", c>>, v) = DecimalOf(v)
    BY DEF Shown, IsDirective, Written, Last, DecimalOf
  <1>2. Shown(<<"%", "u">>, v) = Numeral(v, 10, 4)
    BY DEF Shown, IsDirective, Written, Last
  <1>3. Shown(<<"%", "o">>, v) = Numeral(v, 8, 1)
    BY DEF Shown, IsDirective, Written, Last
  <1>4. \A c \in {"x", "X", "p"} : Shown(<<"%", c>>, v) = Numeral(v, 16, 1)
    BY DEF Shown, IsDirective, Written, Last
  <1>5. Shown(<<"%", "c">>, v) = <<v>>
    BY DEF Shown, IsDirective, Written, Last
  <1>6. Shown(<<"%", "s">>, v) = v
    BY DEF Shown, IsDirective, Written, Last
  <1>7. Shown(<<"%", "%">>, v) = <<"%">>
    BY DEF Shown, IsDirective
  <1>8. Shown(<<"%", "l", "l", "u">>, v) = Numeral(v, 10, 1)
    <2> DEFINE piece == <<"%", "l", "l", "u">>
    <2>1. /\ Len(piece) = 4 /\ piece[1] = "%" /\ piece[2] = "l"
          /\ piece[3] = "l" /\ piece[4] = "u"
      OBVIOUS
    <2>4. HasCase(piece)
      BY DEF HasCase
    <2> HIDE DEF piece
    <2>2. IsDirective(piece)
      BY <2>1 DEF IsDirective
    <2>3. Written(piece, v) = Numeral(v, 10, 1)
      BY <2>1, <2>4 DEF Written, Last
    <2> QED BY <2>2, <2>3 DEF Shown, piece
  <1>9. Shown(<<"%", "l", "l", "d">>, v) = Signed(v)
    <2> DEFINE piece == <<"%", "l", "l", "d">>
    <2>1. /\ Len(piece) = 4 /\ piece[1] = "%" /\ piece[2] = "l"
          /\ piece[3] = "l" /\ piece[4] = "d"
      OBVIOUS
    <2>4. HasCase(piece)
      BY DEF HasCase
    <2> HIDE DEF piece
    <2>2. IsDirective(piece)
      BY <2>1 DEF IsDirective
    <2>3. Written(piece, v) = Signed(v)
      BY <2>1, <2>4 DEF Written, Last
    <2> QED BY <2>2, <2>3 DEF Shown, piece
  <1> QED BY <1>1, <1>2, <1>3, <1>4, <1>5, <1>6, <1>7, <1>8, <1>9

LEMMA ShownNoCase ==
  ASSUME NEW piece \in Seq(Chars), NEW v, HasNoCase(piece)
  PROVE  /\ IsDirective(piece) /\ piece[1] = "%"
         /\ \/ /\ Len(piece) = 2 /\ Shown(piece, v) = piece /\ piece = <<"%", piece[2]>>
               /\ piece[2] \notin {"d", "i", "u", "o", "x", "X", "c", "s", "p", "l", "%"}
            \/ /\ Len(piece) = 3 /\ Shown(piece, v) = <<>>
               /\ piece[2] = "l" /\ piece[3] # "l"
            \/ /\ Len(piece) = 4 /\ Shown(piece, v) = <<>>
               /\ piece[2] = "l" /\ piece[3] = "l" /\ piece[4] \notin {"u", "d"}
  <1>0. piece[1] = "%" /\ ~HasCase(piece)
    BY DEF HasNoCase
  <1>1. CASE Len(piece) = 2 /\ piece[2] # "l"
    <2>1. piece = <<"%", piece[2]>>
      BY <1>0, <1>1
    <2>2. piece[2] \notin {"d", "i", "u", "o", "x", "X", "c", "s", "p", "l", "%"}
      BY <1>0, <1>1, <2>1 DEF HasCase
    <2>3. IsDirective(piece)
      BY <1>0, <1>1, <2>2 DEF IsDirective
    <2>4. Written(piece, v) = piece
      BY <1>1, <2>2 DEF Written, Last
    <2> QED BY <1>0, <1>1, <2>1, <2>2, <2>3, <2>4 DEF Shown
  <1>2. CASE Len(piece) = 3 /\ piece[2] = "l" /\ piece[3] # "l"
    <2>1. IsDirective(piece)
      BY <1>0, <1>2 DEF IsDirective
    <2>2. Written(piece, v) = <<>>
      BY <1>0, <1>2 DEF Written
    <2> QED BY <1>0, <1>2, <2>1, <2>2 DEF Shown
  <1>3. CASE Len(piece) = 4 /\ piece[2] = "l" /\ piece[3] = "l"
    <2>1. piece = <<"%", "l", "l", piece[4]>>
      BY <1>0, <1>3
    <2>2. piece[4] \notin {"u", "d"}
      BY <1>0, <2>1 DEF HasCase
    <2>3. IsDirective(piece)
      BY <1>0, <1>3 DEF IsDirective
    <2>4. Written(piece, v) = <<>>
      BY <1>0, <1>3, <2>2 DEF Written, Last
    <2> QED BY <1>0, <1>3, <2>2, <2>3, <2>4 DEF Shown
  <1> QED BY <1>1, <1>2, <1>3 DEF HasNoCase

LEMMA ShownCharacter ==
  ASSUME NEW piece \in Seq(Chars), NEW v, IsCharacter(piece)
  PROVE  /\ ~IsDirective(piece) /\ Shown(piece, v) = piece
         /\ Len(piece) = 1 /\ piece = <<piece[1]>> /\ piece[1] # "%"
  <1>1. Len(piece) = 1 /\ piece[1] # "%"
    BY DEF IsCharacter
  <1>2. piece # <<"%", "%">>
    BY <1>1
  <1>3. ~IsDirective(piece)
    BY <1>1 DEF IsDirective
  <1>4. piece = <<piece[1]>>
    BY <1>1
  <1> QED BY <1>1, <1>2, <1>3, <1>4 DEF Shown

LEMMA ShownIncomplete ==
  ASSUME NEW piece \in Incomplete, NEW v
  PROVE  Shown(piece, v) \in Seq(Chars)
  <1>1. "%" \in Chars
    BY DEF Chars
  <1>2. CASE piece = <<"%">>
    <2>1. Shown(piece, v) = piece
      BY <1>2 DEF Shown, IsDirective
    <2> QED BY <1>1, <1>2, <2>1
  <1>3. CASE piece \in {<<"%", "l">>, <<"%", "l", "l">>}
    <2>1. /\ piece[1] = "%" /\ piece[2] = "l" /\ Len(piece) \in {2, 3}
          /\ Last(piece) = "l"
      BY <1>3 DEF Last
    <2>2. ~HasCase(piece)
      BY <1>3 DEF HasCase
    <2>3. Shown(piece, v) = <<>>
      BY <2>1, <2>2 DEF Shown, IsDirective, Written
    <2> QED BY <2>3
  <1> QED BY <1>2, <1>3 DEF Incomplete

LEMMA FormatIs ==
  ASSUME NEW f \in Formats
  PROVE  /\ f \in Seq(Seq(Chars))
         /\ \A i \in 1 .. Len(f) :
               /\ f[i] \in Seq(Chars) /\ Len(f[i]) \in Nat \ {0}
               /\ \A j \in 1 .. Len(f[i]) : f[i][j] # "NUL"
               /\ \/ IsCharacter(f[i]) \/ HasCase(f[i])
                  \/ HasNoCase(f[i]) /\ \A j \in i + 1 .. Len(f) : ~IsDirective(f[j])
                  \/ f[i] \in Incomplete /\ i = Len(f)
  <1>1. f \in Seq(Seq(STRING))
    BY FormatsAssumption
  <1>2. ASSUME NEW i \in 1 .. Len(f) PROVE f[i] \in Seq(Chars)
    <2> DEFINE piece == f[i]
    <2>1. piece \in Seq(STRING)
      BY <1>1
    <2> HIDE DEF piece
    <2>2. \A j \in 1 .. Len(piece) : piece[j] \in Chars
      <3>1. \A j \in 1 .. Len(piece) : piece[j] \in STRING
        BY <2>1
      <3> QED BY <3>1 DEF Chars
    <2>3. piece = [j \in 1 .. Len(piece) |-> piece[j]] /\ Len(piece) \in Nat
      BY <2>1
    <2>4. piece \in [1 .. Len(piece) -> Chars]
      BY <2>2, <2>3
    <2>5. piece \in Seq(Chars)
      BY <2>3, <2>4
    <2> QED BY <2>5 DEF piece
  <1>3. f \in Seq(Seq(Chars))
    <2>1. f = [i \in 1 .. Len(f) |-> f[i]] /\ Len(f) \in Nat
      BY <1>1
    <2> DEFINE S == Seq(Chars)
    <2>2. \A i \in 1 .. Len(f) : f[i] \in S
      BY <1>2
    <2> HIDE DEF S
    <2>3. f \in [1 .. Len(f) -> S]
      BY <2>1, <2>2
    <2>4. f \in Seq(S)
      BY <2>1, <2>3
    <2> QED BY <2>4 DEF S
  <1>4. ASSUME NEW i \in 1 .. Len(f)
        PROVE  /\ \A j \in 1 .. Len(f[i]) : f[i][j] # "NUL"
               /\ \/ IsCharacter(f[i]) \/ HasCase(f[i])
                  \/ HasNoCase(f[i]) /\ \A j \in i + 1 .. Len(f) : ~IsDirective(f[j])
                  \/ f[i] \in Incomplete /\ i = Len(f)
    BY FormatsAssumption
  <1>5. ASSUME NEW i \in 1 .. Len(f) PROVE Len(f[i]) \in Nat \ {0}
    <2>1. Len(f[i]) \in Nat
      BY <1>2
    <2>2. CASE IsCharacter(f[i])
      BY <2>2 DEF IsCharacter
    <2>3. CASE HasCase(f[i])
      BY <2>3 DEF HasCase
    <2>4. CASE HasNoCase(f[i])
      BY <2>4 DEF HasNoCase
    <2>5. CASE f[i] \in Incomplete
      BY <2>5 DEF Incomplete
    <2> QED BY <1>4, <2>2, <2>3, <2>4, <2>5
  <1> QED BY <1>2, <1>3, <1>4, <1>5

(* The pieces with a case, and the values that are given for them.         *)
LEMMA CaseIs ==
  ASSUME NEW piece, HasCase(piece)
  PROVE  \/ piece \in {<<"%", "d">>, <<"%", "i">>} /\ ValuesOf(piece) = Ints
         \/ piece = <<"%", "u">> /\ ValuesOf(piece) = Words
         \/ piece = <<"%", "o">> /\ ValuesOf(piece) = Words
         \/ piece \in {<<"%", "x">>, <<"%", "X">>, <<"%", "p">>} /\ ValuesOf(piece) = Words
         \/ piece = <<"%", "c">> /\ ValuesOf(piece) = {"x"}
         \/ piece = <<"%", "s">> /\ ValuesOf(piece) = Strings
         \/ piece = <<"%", "%">>
         \/ piece = <<"%", "l", "l", "u">> /\ ValuesOf(piece) = Words
         \/ piece = <<"%", "l", "l", "d">> /\ ValuesOf(piece) = Ints
  <1>1. /\ ValuesOf(<<"%", "d">>) = Ints
        /\ ValuesOf(<<"%", "i">>) = Ints
    BY DEF ValuesOf, IsDirective
  <1>2. ValuesOf(<<"%", "l", "l", "d">>) = Ints
    BY DEF ValuesOf, IsDirective
  <1>3. ValuesOf(<<"%", "s">>) = Strings
    BY DEF ValuesOf, IsDirective
  <1>4. ValuesOf(<<"%", "c">>) = {"x"}
    BY DEF ValuesOf, IsDirective
  <1>5. \A c \in {"u", "o", "x", "X", "p"} : ValuesOf(<<"%", c>>) = Words
    BY DEF ValuesOf, IsDirective
  <1>6. ValuesOf(<<"%", "l", "l", "u">>) = Words
    BY DEF ValuesOf, IsDirective
  <1> QED BY <1>1, <1>2, <1>3, <1>4, <1>5, <1>6 DEF HasCase

LEMMA ShownIsText ==
  ASSUME NEW piece \in Seq(Chars), NEW v \in ValuesOf(piece),
         \/ IsCharacter(piece) \/ HasCase(piece)
         \/ HasNoCase(piece) \/ piece \in Incomplete
  PROVE  Shown(piece, v) \in Seq(Chars)
  <1>3. CASE IsCharacter(piece)
    BY <1>3, ShownCharacter
  <1>4. CASE HasNoCase(piece)
    <2>1. Shown(piece, v) \in {piece, <<>>}
      BY <1>4, ShownNoCase
    <2>2. <<>> \in Seq(Chars)
      OBVIOUS
    <2> QED BY <2>1, <2>2
  <1>5. CASE piece \in Incomplete
    BY <1>5, ShownIncomplete
  <1>6. CASE HasCase(piece)
    <2>0. {8, 10, 16} \subseteq Bases
      BY DEF Bases
    <2>1. ASSUME v \in Ints, piece \in {<<"%", "d">>, <<"%", "i">>}
          PROVE  Shown(piece, v) \in Seq(Chars)
      <3>1. v \in Int
        BY <2>1, SerialAssumption
      <3> QED BY <2>1, <3>1, ShownIs, DecimalIs
    <2>2. ASSUME v \in Words, piece = <<"%", "u">>
          PROVE  Shown(piece, v) \in Seq(Chars)
      <3>1. v \in Nat
        BY <2>2, SerialAssumption
      <3> QED BY <2>2, <3>1, ShownIs, PaddedIs
    <2>3. ASSUME v \in Words,
                 piece \in {<<"%", "o">>, <<"%", "x">>, <<"%", "X">>, <<"%", "p">>,
                            <<"%", "l", "l", "u">>}
          PROVE  Shown(piece, v) \in Seq(Chars)
      <3>1. v \in Nat
        BY <2>3, SerialAssumption
      <3>2. \A base \in {8, 10, 16} : Numeral(v, base, 1) \in Seq(Chars)
        BY <2>0, <3>1, UnpaddedIs
      <3>3. \E base \in {8, 10, 16} : Shown(piece, v) = Numeral(v, base, 1)
        BY <2>3, ShownIs
      <3> QED BY <3>2, <3>3
    <2>4. ASSUME v \in Strings, piece = <<"%", "s">>
          PROVE  Shown(piece, v) \in Seq(Chars)
      <3>1. v \in Seq(Chars)
        <4>1. "h" \in Chars /\ "i" \in Chars
          BY DEF Chars
        <4>2. <<"h", "i">> \in Seq(Chars) /\ <<>> \in Seq(Chars)
          BY <4>1
        <4>3. v = <<"h", "i">> \/ v = <<>>
          BY <2>4 DEF Strings
        <4> HIDE DEF Chars
        <4> QED BY <4>2, <4>3
      <3> QED BY <2>4, <3>1, ShownIs
    <2>5. ASSUME v = "x", piece = <<"%", "c">>
          PROVE  Shown(piece, v) \in Seq(Chars)
      <3>1. v \in Chars
        BY <2>5 DEF Chars
      <3>2. Shown(piece, v) = <<v>>
        BY <2>5, ShownIs
      <3> QED BY <3>1, <3>2
    <2>6. ASSUME piece = <<"%", "%">>
          PROVE  Shown(piece, v) \in Seq(Chars)
      <3>1. "%" \in Chars
        BY DEF Chars
      <3>2. Shown(piece, v) = <<"%">>
        BY <2>6, ShownIs
      <3> QED BY <3>1, <3>2
    <2>7. ASSUME v \in Ints, piece = <<"%", "l", "l", "d">>
          PROVE  Shown(piece, v) \in Seq(Chars)
      <3>1. v \in Int
        BY <2>7, SerialAssumption
      <3> QED BY <2>7, <3>1, ShownIs, SignedIs
    <2> QED BY <1>6, <2>1, <2>2, <2>3, <2>4, <2>5, <2>6, <2>7, CaseIs
  <1> QED BY <1>3, <1>4, <1>5, <1>6

Shows(f, g) == [i \in 1 .. Len(f) |-> Shown(f[i], g[i])]

LEMMA ShowsAre ==
  ASSUME NEW f \in Formats, NEW g \in Givens(f)
  PROVE  /\ Shows(f, g) \in Seq(Seq(Chars)) /\ Len(Shows(f, g)) = Len(f)
         /\ \A i \in 1 .. Len(f) : Shows(f, g)[i] = Shown(f[i], g[i])
         /\ LineOf(f, g) = FlattenSeq(Shows(f, g))
  <1>1. Len(f) \in Nat /\ f \in Seq(Seq(Chars))
    BY FormatIs
  <1>2. ASSUME NEW i \in 1 .. Len(f) PROVE Shown(f[i], g[i]) \in Seq(Chars)
    <2>1. /\ f[i] \in Seq(Chars)
          /\ \/ IsCharacter(f[i]) \/ HasCase(f[i])
             \/ HasNoCase(f[i]) \/ f[i] \in Incomplete
      BY FormatIs
    <2>2. g[i] \in ValuesOf(f[i])
      BY <1>1, GivensAre
    <2> QED BY <2>1, <2>2, ShownIsText
  <1> DEFINE s == Shows(f, g)
             n == Len(f)
             e(i) == Shown(f[i], g[i])
             S == Seq(Chars)
  <1>3. s = [i \in 1 .. n |-> e(i)] /\ \A i \in 1 .. n : e(i) \in S
    BY <1>2 DEF Shows
  <1>4. n \in Nat
    BY <1>1
  <1> HIDE DEF s, n, e, S
  <1>5. s \in [1 .. n -> S] /\ \A i \in 1 .. n : s[i] = e(i)
    BY <1>3
  <1>6. s \in Seq(S) /\ Len(s) = n
    BY <1>4, <1>5
  <1>7. LineOf(f, g) = FlattenSeq(s)
    BY DEF LineOf, s, Shows
  <1> QED BY <1>5, <1>6, <1>7 DEF s, n, e, S

-----------------------------------------------------------------------------
(* Where a call is: past the first k pieces of its format, or behind the   *)
(* terminator of a format that ends inside a directive.                    *)
Heading(id) == <<"[">> \o Numeral(id, 10, 4) \o <<"]", " ">>

ArgsFit(k) ==
    \/ args = ArgsBehind(fmt, given, k)
    \/ \A j \in k + 1 .. Len(fmt) : ~IsDirective(fmt[j])

Within(k) ==
    /\ p = Len(Flat(fmt)[k]) + 1
    /\ out = Heading(serial_log_id - 1) \o Flat(Shows(fmt, given))[k]
    /\ ArgsFit(k)

Beyond == p > Len(TextOf(fmt)) + 1 /\ Last(fmt) \in Incomplete

Wide ==
    \E i \in 1 .. Len(fmt) :
       /\ IsDirective(fmt[i]) /\ Last(fmt[i]) \in {"x", "X", "p"}
       /\ given[i] >= Power(16, HexCells - 1)

CacheSound == i2s.initialized => i2s.temp = Decimal(i2s.last_value)

SerialInv ==
    /\ serial_log_id \in Nat /\ p \in Nat
    /\ CacheSound
    /\ serial_log_id = 0 => p = 0 /\ fmt = <<>> /\ ~overrun
    /\ serial_log_id # 0 =>
          /\ fmt \in Formats /\ given \in Givens(fmt)
          /\ p = 0 => out = Heading(serial_log_id - 1) \o LineOf(fmt, given) \o <<"newline">>
          /\ p # 0 => Beyond \/ \E k \in 0 .. Len(fmt) : Within(k)
          /\ overrun => Wide

(* What the loop sees of the k-th piece, when it has passed those before.  *)
Looking(k) ==
    /\ fmt \in Formats /\ given \in Givens(fmt)
    /\ k \in 1 .. Len(fmt)
    /\ p = Len(Flat(fmt)[k - 1]) + 1
    /\ ArgsFit(k - 1)
    /\ CacheSound

LEMMA Seen ==
  ASSUME NEW k, Looking(k)
  PROVE  LET piece == fmt[k]
         IN  /\ p \in Nat \ {0} /\ Len(piece) \in Nat \ {0}
             /\ At(p) = piece[1] /\ At(p) # "NUL"
             /\ Len(piece) >= 2 => At(p + 1) = piece[2]
             /\ Len(piece) >= 3 => At(p + 2) = piece[3]
             /\ Len(piece) >= 4 => At(p + 3) = piece[4]
             /\ k = Len(fmt) => /\ At(p + Len(piece)) = "NUL"
                                /\ p + Len(piece) = Len(TextOf(fmt)) + 1
             /\ p + Len(piece) = Len(Flat(fmt)[k]) + 1
             /\ p <= Len(TextOf(fmt)) /\ Len(TextOf(fmt)) \in Nat
  <1> DEFINE piece == fmt[k]
             a == Len(Flat(fmt)[k - 1])
             n == Len(piece)
             t == TextOf(fmt)
             c == Len(Flat(fmt)[k])
  <1>1. /\ k \in 1 .. Len(fmt) /\ p = a + 1 /\ fmt \in Seq(Seq(Chars))
        /\ n \in Nat \ {0} /\ \A j \in 1 .. n : piece[j] # "NUL"
    BY FormatIs DEF Looking
  <1>2. /\ a \in Nat /\ Len(t) \in Nat /\ a + n = c /\ a + n <= Len(t)
        /\ \A j \in 1 .. n : t[a + j] = piece[j]
    BY <1>1, TextAt DEF TextOf
  <1>3. ASSUME k = Len(fmt) PROVE c = Len(t)
    <2>1. FlatRight(Flat(fmt), fmt)
      BY <1>1, FlatIs
    <2> QED BY <1>3, <2>1 DEF FlatRight, TextOf
  <1> HIDE DEF piece, a, n, t, c
  <1>4. \A i \in Nat : At(i) = IF i <= Len(t) THEN t[i] ELSE "NUL"
    BY DEF At, t
  <1>5. ASSUME NEW j \in 0 .. n - 1 PROVE At(p + j) = piece[j + 1]
    <2> DEFINE m == j + 1
    <2>1. m \in 1 .. n /\ p + j = a + m
      BY <1>1, <1>2
    <2> HIDE DEF m
    <2>2. a + m \in Nat /\ a + m <= Len(t)
      BY <1>1, <1>2, <2>1
    <2>3. At(a + m) = t[a + m]
      BY <1>4, <2>2
    <2> QED BY <1>2, <2>1, <2>3 DEF m
  <1>6. At(p) = piece[1] /\ piece[1] # "NUL"
    <2>1. 0 \in 0 .. n - 1 /\ p + 0 = p /\ 1 \in 1 .. n
      BY <1>1, <1>2
    <2>2. At(p + 0) = piece[0 + 1]
      BY <1>5, <2>1
    <2> QED BY <1>1, <2>1, <2>2
  <1>7. /\ n >= 2 => At(p + 1) = piece[2]
        /\ n >= 3 => At(p + 2) = piece[3]
        /\ n >= 4 => At(p + 3) = piece[4]
    <2>1. ASSUME n >= 2 PROVE At(p + 1) = piece[1 + 1]
      BY <1>1, <1>5, <2>1
    <2>2. ASSUME n >= 3 PROVE At(p + 2) = piece[2 + 1]
      BY <1>1, <1>5, <2>2
    <2>3. ASSUME n >= 4 PROVE At(p + 3) = piece[3 + 1]
      BY <1>1, <1>5, <2>3
    <2> QED BY <2>1, <2>2, <2>3
  <1>8. p \in Nat \ {0} /\ p + n = c + 1 /\ p <= Len(t)
    BY <1>1, <1>2
  <1>9. ASSUME k = Len(fmt) PROVE At(p + n) = "NUL" /\ p + n = Len(t) + 1
    <2> DEFINE l == Len(t)
    <2>1. p + n = l + 1 /\ l \in Nat
      BY <1>2, <1>3, <1>8, <1>9
    <2>2. At(l + 1) = IF l + 1 <= l THEN t[l + 1] ELSE "NUL"
      BY <1>4, <2>1
    <2> HIDE DEF l
    <2>3. ~(l + 1 <= l)
      BY <2>1
    <2> QED BY <2>1, <2>2, <2>3 DEF l
  <1> QED BY <1>1, <1>2, <1>6, <1>7, <1>8, <1>9 DEF piece, n, t, c

LEMMA ArgsTaken ==
  ASSUME NEW k, Looking(k)
  PROVE  /\ IsDirective(fmt[k]) =>
               /\ Head(args) = given[k]
               /\ SubSeq(args, 1 + 1, Len(args)) = ArgsBehind(fmt, given, k)
         /\ ~IsDirective(fmt[k]) =>
               \/ SubSeq(args, 0 + 1, Len(args)) = ArgsBehind(fmt, given, k)
               \/ \A j \in k + 1 .. Len(fmt) : ~IsDirective(fmt[j])
  <1> DEFINE r == ArgsBehind(fmt, given, k)
             v == given[k]
  <1>1. /\ k \in 1 .. Len(fmt) /\ fmt \in Seq(Seq(Chars)) /\ given \in Seq(Values)
        /\ Len(given) = Len(fmt) /\ v \in Values
    <2>1. k \in 1 .. Len(fmt) /\ fmt \in Seq(Seq(Chars))
      BY FormatIs DEF Looking
    <2>2. given \in Seq(Values) /\ Len(given) = Len(fmt)
      BY <2>1, GivensAre DEF Looking
    <2> QED BY <2>1, <2>2
  <1>2. /\ r \in Seq(Values)
        /\ ArgsBehind(fmt, given, k - 1) = IF IsDirective(fmt[k]) THEN <<v>> \o r ELSE r
    <2>1. /\ \A i \in 0 .. Len(fmt) : ArgsBehind(fmt, given, i) \in Seq(Values)
          /\ \A i \in 1 .. Len(fmt) :
                ArgsBehind(fmt, given, i - 1) =
                   IF IsDirective(fmt[i]) THEN <<given[i]>> \o ArgsBehind(fmt, given, i)
                                          ELSE ArgsBehind(fmt, given, i)
      BY <1>1, ArgumentsAre
    <2>2. k \in 0 .. Len(fmt)
      BY <1>1
    <2> QED BY <1>1, <2>1, <2>2
  <1>3. k - 1 + 1 = k /\ k \in k .. Len(fmt)
    BY <1>1
  <1> HIDE DEF r, v
  <1>4. ASSUME IsDirective(fmt[k])
        PROVE  Head(args) = v /\ SubSeq(args, 1 + 1, Len(args)) = r
    <2>1. args = <<v>> \o r
      BY <1>2, <1>3, <1>4 DEF Looking, ArgsFit
    <2> DEFINE w == <<v>> \o r
    <2>2. w \in Seq(Values) /\ Len(w) = Len(r) + 1 /\ w[1] = v
          /\ \A i \in 1 .. Len(r) : w[i + 1] = r[i]
      <3>1. v \in Values
        BY <1>1 DEF v
      <3> QED BY <1>2, <3>1
    <2> HIDE DEF w
    <2>3. Len(r) \in Nat
      BY <1>2
    <2>4. Head(w) = v
      BY <2>2, <2>3
    <2> DEFINE z == SubSeq(w, 1 + 1, Len(w))
    <2>5. z \in Seq(Values) /\ Len(z) = Len(r) /\ \A i \in 1 .. Len(r) : z[i] = w[i + 1]
      BY <2>2, <2>3
    <2> HIDE DEF z
    <2>6. z = r
      BY <1>2, <2>2, <2>5
    <2> QED BY <2>1, <2>4, <2>6 DEF w, z
  <1>5. ASSUME ~IsDirective(fmt[k]), ~(\A j \in k + 1 .. Len(fmt) : ~IsDirective(fmt[j]))
        PROVE  SubSeq(args, 0 + 1, Len(args)) = r
    <2>1. \A j \in k + 1 .. Len(fmt) : j \in k - 1 + 1 .. Len(fmt)
      BY <1>1
    <2>2. args = r
      BY <1>2, <1>5, <2>1 DEF Looking, ArgsFit
    <2>3. SubSeq(r, 0 + 1, Len(r)) = r
      BY <1>2
    <2> QED BY <2>2, <2>3
  <1> QED BY <1>4, <1>5 DEF r, v

Loop == Plain \/ WriteInt \/ WriteHex \/ WriteOther \/ WriteLong \/ WriteUnknown

(* A piece is passed: what it shows is written, and its argument taken.    *)
Passes(k) ==
    /\ p' = p + Len(fmt[k])
    /\ out' = out \o Shown(fmt[k], given[k])
    /\ \/ args' = ArgsBehind(fmt, given, k)
       \/ \A j \in k + 1 .. Len(fmt) : ~IsDirective(fmt[j])
    /\ i2s'.initialized => i2s'.temp = Decimal(i2s'.last_value)
    /\ overrun' => overrun \/ Wide
    /\ UNCHANGED <<serial_log_id, fmt, given>>

LEMMA CharacterPasses ==
  ASSUME NEW k, Looking(k), IsCharacter(fmt[k]), Loop
  PROVE  Passes(k)
  <1> DEFINE piece == fmt[k]
             shown == Shown(piece, given[k])
  <1>1. k \in 1 .. Len(fmt) /\ piece \in Seq(Chars)
    BY FormatIs DEF Looking
  <1>2. /\ ~IsDirective(piece) /\ shown = piece
        /\ Len(piece) = 1 /\ piece = <<piece[1]>> /\ piece[1] # "%"
    BY <1>1, ShownCharacter
  <1>3. At(p) = piece[1] /\ At(p) # "NUL"
    BY Seen
  <1>4. ~IsDirective(piece) =>
           \/ SubSeq(args, 0 + 1, Len(args)) = ArgsBehind(fmt, given, k)
           \/ \A j \in k + 1 .. Len(fmt) : ~IsDirective(fmt[j])
    BY ArgsTaken
  <1> HIDE DEF piece, shown
  <1>5. At(p) # "%"
    BY <1>2, <1>3
  <1>6. Plain
    BY <1>5 DEF Loop, WriteInt, WriteHex, WriteOther, WriteLong, WriteUnknown, Is
  <1>7. /\ out' = out \o piece /\ p' = p + 1
        /\ args' = SubSeq(args, 0 + 1, Len(args))
        /\ UNCHANGED <<serial_log_id, fmt, given, i2s, overrun>>
    BY <1>2, <1>3, <1>6 DEF Plain, Write
  <1>8. p' = p + Len(fmt[k]) /\ out' = out \o Shown(fmt[k], given[k])
    BY <1>2, <1>7 DEF piece, shown
  <1>9. i2s'.initialized => i2s'.temp = Decimal(i2s'.last_value)
    BY <1>7 DEF Looking, CacheSound
  <1> QED BY <1>2, <1>4, <1>7, <1>8, <1>9 DEF Passes

(* The statics after a call of serial_i2s.                                 *)
LEMMA CacheIs ==
  ASSUME CacheSound, NEW v, i2s' = serial_i2s(v)
  PROVE  /\ i2s'.temp = Decimal(v)
         /\ i2s'.initialized => i2s'.temp = Decimal(i2s'.last_value)
  BY DEF CacheSound, serial_i2s

LEMMA SeenTwo ==
  ASSUME NEW k, Looking(k), NEW c, fmt[k] = <<"%", c>>
  PROVE  p > 0 /\ At(p) = "%" /\ At(p + 1) = c /\ Len(fmt[k]) = 2
  <1> DEFINE piece == fmt[k]
  <1>1. Len(piece) = 2 /\ piece[1] = "%" /\ piece[2] = c
    OBVIOUS
  <1>2. p \in Nat \ {0} /\ At(p) = piece[1] /\ (Len(piece) >= 2 => At(p + 1) = piece[2])
    BY Seen
  <1> HIDE DEF piece
  <1>3. p > 0 /\ At(p) = "%" /\ At(p + 1) = c
    BY <1>1, <1>2
  <1> QED BY <1>1, <1>3 DEF piece

LEMMA SeenFour ==
  ASSUME NEW k, Looking(k), NEW c, fmt[k] = <<"%", "l", "l", c>>
  PROVE  /\ p > 0 /\ At(p) = "%" /\ At(p + 1) = "l" /\ At(p + 2) = "l" /\ At(p + 3) = c
         /\ Len(fmt[k]) = 4
  <1> DEFINE piece == fmt[k]
  <1>1. /\ Len(piece) = 4 /\ piece[1] = "%" /\ piece[2] = "l"
        /\ piece[3] = "l" /\ piece[4] = c
    OBVIOUS
  <1>2. /\ p \in Nat \ {0} /\ At(p) = piece[1]
        /\ Len(piece) >= 2 => At(p + 1) = piece[2]
        /\ Len(piece) >= 3 => At(p + 2) = piece[3]
        /\ Len(piece) >= 4 => At(p + 3) = piece[4]
    BY Seen
  <1> HIDE DEF piece
  <1>3. p > 0 /\ At(p) = "%" /\ At(p + 1) = "l" /\ At(p + 2) = "l" /\ At(p + 3) = c
    BY <1>1, <1>2
  <1> QED BY <1>1, <1>3 DEF piece

LEMMA GivenFor ==
  ASSUME NEW k, Looking(k)
  PROVE  given[k] \in ValuesOf(fmt[k])
  <1>1. fmt \in Seq(Seq(Chars)) /\ given \in Givens(fmt) /\ k \in 1 .. Len(fmt)
    BY FormatIs DEF Looking
  <1> QED BY <1>1, GivensAre

LEMMA IntPasses ==
  ASSUME NEW k, Looking(k), NEW c \in {"d", "i"}, fmt[k] = <<"%", c>>, Loop
  PROVE  Passes(k)
  <1> DEFINE v == given[k]
             r == ArgsBehind(fmt, given, k)
  <1>1. p > 0 /\ At(p) = "%" /\ At(p + 1) = c /\ Len(fmt[k]) = 2
    BY SeenTwo
  <1>2. WriteInt
    BY <1>1 DEF Loop, Plain, WriteHex, WriteOther, WriteLong, WriteUnknown, Is
  <1>3. v \in Int
    <2>1. v \in ValuesOf(fmt[k])
      BY GivenFor
    <2>2. ValuesOf(fmt[k]) = Ints
      BY DEF ValuesOf, IsDirective
    <2> QED BY <2>1, <2>2, SerialAssumption
  <1>4. IsDirective(fmt[k])
    BY DEF IsDirective
  <1>5. Head(args) = v /\ SubSeq(args, 1 + 1, Len(args)) = r
    BY <1>4, ArgsTaken
  <1>6. Shown(fmt[k], v) = Decimal(v)
    <2>1. Shown(<<"%", c>>, v) = DecimalOf(v)
      BY ShownIs
    <2>2. Decimal(v) = DecimalOf(v)
      BY <1>3, DecimalIs
    <2> QED BY <2>1, <2>2
  <1> HIDE DEF v, r
  <1>7. /\ i2s' = serial_i2s(v) /\ out' = out \o i2s'.temp /\ p' = p + 2 /\ args' = r
        /\ UNCHANGED <<serial_log_id, fmt, given, overrun>>
    BY <1>2, <1>5 DEF WriteInt, Write
  <1>8. /\ i2s'.temp = Decimal(v)
        /\ i2s'.initialized => i2s'.temp = Decimal(i2s'.last_value)
    BY <1>7, CacheIs DEF Looking
  <1> QED BY <1>1, <1>6, <1>7, <1>8 DEF Passes, v, r

(* A directive that leaves the statics and overrun alone.                  *)
LEMMA QuietPasses ==
  ASSUME NEW k, Looking(k), NEW n, Len(fmt[k]) = n, NEW chars, Write(chars, n, 1),
         IsDirective(fmt[k]), chars = Shown(fmt[k], given[k]), UNCHANGED <<i2s, overrun>>
  PROVE  Passes(k)
  <1>1. SubSeq(args, 1 + 1, Len(args)) = ArgsBehind(fmt, given, k)
    BY ArgsTaken
  <1>2. /\ out' = out \o chars /\ p' = p + n
        /\ args' = SubSeq(args, 1 + 1, Len(args))
        /\ UNCHANGED <<serial_log_id, fmt, given>>
    BY DEF Write
  <1>3. i2s'.initialized => i2s'.temp = Decimal(i2s'.last_value)
    BY DEF Looking, CacheSound
  <1> QED BY <1>1, <1>2, <1>3 DEF Passes

LEMMA HexPasses ==
  ASSUME NEW k, Looking(k), NEW c \in {"x", "X", "p"}, fmt[k] = <<"%", c>>, Loop
  PROVE  Passes(k)
  <1> DEFINE v == given[k]
             r == ArgsBehind(fmt, given, k)
             D == Digits(v, 16)
  <1>1. p > 0 /\ At(p) = "%" /\ At(p + 1) = c /\ Len(fmt[k]) = 2
    BY SeenTwo
  <1>2. WriteHex
    BY <1>1 DEF Loop, Plain, WriteInt, WriteOther, WriteLong, WriteUnknown, Is
  <1>3. v \in Nat
    <2>1. v \in ValuesOf(fmt[k])
      BY GivenFor
    <2>2. ValuesOf(fmt[k]) = Words
      BY DEF ValuesOf, IsDirective
    <2> QED BY <2>1, <2>2, SerialAssumption
  <1>4. IsDirective(fmt[k]) /\ Last(fmt[k]) = c
    BY DEF IsDirective, Last
  <1>5. Head(args) = v /\ SubSeq(args, 1 + 1, Len(args)) = r
    BY <1>4, ArgsTaken
  <1>0. 16 \in Bases
    BY DEF Bases
  <1>6. Shown(fmt[k], v) = Unpadded(D)
    <2>1. Shown(<<"%", c>>, v) = Numeral(v, 16, 1)
      BY ShownIs
    <2>2. Unpadded(D) = Numeral(v, 16, 1)
      BY <1>0, <1>3, UnpaddedIs
    <2> QED BY <2>1, <2>2
  <1>7. ASSUME Len(D) >= HexCells PROVE Wide
    <2>1. /\ D \in Seq(Chars)
          /\ v = 0 <=> Len(D) = 0
          /\ v # 0 => Power(16, Len(D) - 1) <= v
      BY <1>0, <1>3, DigitsAre, DigitsSound DEF DigitsRight
    <2>2. HexCells - 1 \in 0 .. Len(D) - 1 /\ Len(D) - 1 \in Nat /\ v # 0 /\ HexCells - 1 \in Nat
      <3> HIDE DEF D
      <3> QED BY <1>7, <2>1, SerialAssumption
    <2>3. /\ Power(16, HexCells - 1) <= Power(16, Len(D) - 1)
          /\ Power(16, HexCells - 1) \in Nat /\ Power(16, Len(D) - 1) \in Nat
      BY <1>0, <2>2, PowersGrow, PowerIs
    <2>4. v >= Power(16, HexCells - 1)
      BY <1>3, <2>1, <2>2, <2>3
    <2>5. k \in 1 .. Len(fmt)
      BY DEF Looking
    <2> QED BY <1>4, <2>4, <2>5 DEF Wide
  <1> HIDE DEF v, r, D
  <1>8. /\ out' = out \o Unpadded(D) /\ p' = p + 2 /\ args' = r
        /\ UNCHANGED <<serial_log_id, fmt, given, i2s>>
        /\ overrun' = (overrun \/ Len(D) >= HexCells)
    BY <1>2, <1>5 DEF WriteHex, Write, D
  <1>9. i2s'.initialized => i2s'.temp = Decimal(i2s'.last_value)
    BY <1>8 DEF Looking, CacheSound
  <1>10. overrun' => overrun \/ Wide
    BY <1>7, <1>8
  <1> QED BY <1>1, <1>6, <1>8, <1>9, <1>10 DEF Passes, v, r

LEMMA OtherPasses ==
  ASSUME NEW k, Looking(k), NEW c \in {"u", "o", "c", "s"}, fmt[k] = <<"%", c>>, Loop
  PROVE  Passes(k)
  <1> DEFINE v == given[k]
  <1>1. p > 0 /\ At(p) = "%" /\ At(p + 1) = c /\ Len(fmt[k]) = 2
    BY SeenTwo
  <1>2. WriteOther
    BY <1>1 DEF Loop, Plain, WriteInt, WriteHex, WriteLong, WriteUnknown, Is
  <1>3. IsDirective(fmt[k]) /\ Head(args) = v
    <2>1. IsDirective(fmt[k])
      BY DEF IsDirective
    <2> QED BY <2>1, ArgsTaken
  <1>4. v \in ValuesOf(fmt[k])
    BY GivenFor
  <1> HIDE DEF v
  <1>0. 10 \in Bases /\ 8 \in Bases
    BY DEF Bases
  <1>5. UNCHANGED <<i2s, overrun>>
    BY <1>2 DEF WriteOther
  <1>6. ASSUME NEW chars, Write(chars, 2, 1), chars = Shown(fmt[k], v)
        PROVE  Passes(k)
    BY <1>1, <1>3, <1>5, <1>6, QuietPasses DEF v
  <1>7. CASE c = "u"
    <2>1. Write(Padded(Digits(v, 10)), 2, 1)
      BY <1>1, <1>2, <1>3, <1>7 DEF WriteOther, Is
    <2>2. v \in Nat
      <3>1. ValuesOf(fmt[k]) = Words
        BY <1>7 DEF ValuesOf, IsDirective
      <3> QED BY <1>4, <3>1, SerialAssumption
    <2>3. Shown(fmt[k], v) = Padded(Digits(v, 10))
      BY <1>7, <2>2, ShownIs, PaddedIs
    <2> QED BY <1>6, <2>1, <2>3
  <1>8. CASE c = "o"
    <2>1. Write(Unpadded(Digits(v, 8)), 2, 1)
      BY <1>1, <1>2, <1>3, <1>8 DEF WriteOther, Is
    <2>2. v \in Nat
      <3>1. ValuesOf(fmt[k]) = Words
        BY <1>8 DEF ValuesOf, IsDirective
      <3> QED BY <1>4, <3>1, SerialAssumption
    <2>3. Shown(fmt[k], v) = Unpadded(Digits(v, 8))
      BY <1>0, <1>8, <2>2, ShownIs, UnpaddedIs
    <2> QED BY <1>6, <2>1, <2>3
  <1>9. CASE c = "c"
    <2>1. Write(<<v>>, 2, 1)
      BY <1>1, <1>2, <1>3, <1>9 DEF WriteOther, Is
    <2>2. Shown(fmt[k], v) = <<v>>
      BY <1>9, ShownIs
    <2> QED BY <1>6, <2>1, <2>2
  <1>10. CASE c = "s"
    <2>1. Write(v, 2, 1)
      BY <1>1, <1>2, <1>3, <1>10 DEF WriteOther, Is
    <2>2. Shown(fmt[k], v) = v
      BY <1>10, ShownIs
    <2> QED BY <1>6, <2>1, <2>2
  <1> QED BY <1>7, <1>8, <1>9, <1>10

LEMMA PercentPasses ==
  ASSUME NEW k, Looking(k), fmt[k] = <<"%", "%">>, Loop
  PROVE  Passes(k)
  <1>1. p > 0 /\ At(p) = "%" /\ At(p + 1) = "%" /\ Len(fmt[k]) = 2
    BY SeenTwo
  <1>2. WriteOther
    BY <1>1 DEF Loop, Plain, WriteInt, WriteHex, WriteLong, WriteUnknown, Is
  <1>3. Write(<<"%">>, 2, 0) /\ UNCHANGED <<i2s, overrun>>
    BY <1>1, <1>2 DEF WriteOther, Is
  <1>4. ~IsDirective(fmt[k])
    BY DEF IsDirective
  <1>5. Shown(fmt[k], given[k]) = <<"%">>
    BY ShownIs
  <1>6. \/ SubSeq(args, 0 + 1, Len(args)) = ArgsBehind(fmt, given, k)
        \/ \A j \in k + 1 .. Len(fmt) : ~IsDirective(fmt[j])
    BY <1>4, ArgsTaken
  <1>7. /\ out' = out \o <<"%">> /\ p' = p + 2
        /\ args' = SubSeq(args, 0 + 1, Len(args))
        /\ UNCHANGED <<serial_log_id, fmt, given>>
    BY <1>3 DEF Write
  <1>8. i2s'.initialized => i2s'.temp = Decimal(i2s'.last_value)
    BY <1>3 DEF Looking, CacheSound
  <1> QED BY <1>1, <1>3, <1>5, <1>6, <1>7, <1>8 DEF Passes

LEMMA LongPasses ==
  ASSUME NEW k, Looking(k), NEW c \in {"u", "d"}, fmt[k] = <<"%", "l", "l", c>>, Loop
  PROVE  Passes(k)
  <1> DEFINE v == given[k]
  <1>1. /\ p > 0 /\ At(p) = "%" /\ At(p + 1) = "l" /\ At(p + 2) = "l" /\ At(p + 3) = c
        /\ Len(fmt[k]) = 4
    BY SeenFour
  <1>2. WriteLong
    BY <1>1 DEF Loop, Plain, WriteInt, WriteHex, WriteOther, WriteUnknown, Is
  <1>3. IsDirective(fmt[k]) /\ Head(args) = v
    <2>1. IsDirective(fmt[k])
      BY DEF IsDirective
    <2> QED BY <2>1, ArgsTaken
  <1>4. v \in ValuesOf(fmt[k])
    BY GivenFor
  <1> HIDE DEF v
  <1>0. 10 \in Bases
    BY DEF Bases
  <1>5. UNCHANGED <<i2s, overrun>>
    BY <1>2 DEF WriteLong
  <1>6. ASSUME NEW chars, Write(chars, 4, 1), chars = Shown(fmt[k], v)
        PROVE  Passes(k)
    BY <1>1, <1>3, <1>5, <1>6, QuietPasses DEF v
  <1>7. CASE c = "u"
    <2>1. Write(Unpadded(Digits(v, 10)), 4, 1)
      BY <1>1, <1>2, <1>3, <1>7 DEF WriteLong
    <2>2. v \in Nat
      <3>1. ValuesOf(fmt[k]) = Words
        BY <1>7, CaseIs DEF HasCase
      <3> QED BY <1>4, <3>1, SerialAssumption
    <2>3. Shown(fmt[k], v) = Unpadded(Digits(v, 10))
      BY <1>0, <1>7, <2>2, ShownIs, UnpaddedIs
    <2> QED BY <1>6, <2>1, <2>3
  <1>8. CASE c = "d"
    <2>1. Write(Unpadded(Digits(Absolute(v), 10) \o Sign(v)), 4, 1)
      BY <1>1, <1>2, <1>3, <1>8 DEF WriteLong
    <2>2. v \in Int
      <3>1. ValuesOf(fmt[k]) = Ints
        BY <1>8, CaseIs DEF HasCase
      <3> QED BY <1>4, <3>1, SerialAssumption
    <2>3. Shown(fmt[k], v) = Unpadded(Digits(Absolute(v), 10) \o Sign(v))
      <3>1. Shown(fmt[k], v) = Signed(v)
        BY <1>8, ShownIs
      <3> QED BY <2>2, <3>1, SignedIs
    <2> QED BY <1>6, <2>1, <2>3
  <1> QED BY <1>7, <1>8

LEMMA NoCasePasses ==
  ASSUME NEW k, Looking(k), HasNoCase(fmt[k]),
         \A j \in k + 1 .. Len(fmt) : ~IsDirective(fmt[j]), Loop
  PROVE  Passes(k)
  <1> DEFINE piece == fmt[k]
             shown == Shown(piece, given[k])
  <1>1. piece \in Seq(Chars)
    BY FormatIs DEF Looking
  <1>2. /\ IsDirective(piece) /\ piece[1] = "%"
        /\ \/ /\ Len(piece) = 2 /\ shown = piece /\ piece = <<"%", piece[2]>>
              /\ piece[2] \notin {"d", "i", "u", "o", "x", "X", "c", "s", "p", "l", "%"}
           \/ /\ Len(piece) = 3 /\ shown = <<>>
              /\ piece[2] = "l" /\ piece[3] # "l"
           \/ /\ Len(piece) = 4 /\ shown = <<>>
              /\ piece[2] = "l" /\ piece[3] = "l" /\ piece[4] \notin {"u", "d"}
    BY <1>1, ShownNoCase
  <1>3. /\ p \in Nat \ {0} /\ At(p) = piece[1]
        /\ Len(piece) >= 2 => At(p + 1) = piece[2]
        /\ Len(piece) >= 3 => At(p + 2) = piece[3]
        /\ Len(piece) >= 4 => At(p + 3) = piece[4]
    BY Seen
  <1> HIDE DEF piece, shown
  <1>4. ASSUME NEW chars, NEW n, Write(chars, n, 0), n = Len(piece), chars = shown,
               UNCHANGED <<i2s, overrun>>
        PROVE  Passes(k)
    <2>1. /\ out' = out \o shown /\ p' = p + Len(piece)
          /\ UNCHANGED <<serial_log_id, fmt, given>>
      BY <1>4 DEF Write
    <2>2. i2s'.initialized => i2s'.temp = Decimal(i2s'.last_value)
      BY <1>4 DEF Looking, CacheSound
    <2> QED BY <1>4, <2>1, <2>2 DEF Passes, piece, shown
  <1>5. CASE Len(piece) = 2
    <2>1. /\ At(p) = "%" /\ p > 0
          /\ At(p + 1) \notin {"d", "i", "u", "o", "x", "X", "c", "s", "p", "l", "%"}
          /\ <<"%", At(p + 1)>> = shown
      BY <1>2, <1>3, <1>5
    <2>2. WriteUnknown
      BY <2>1 DEF Loop, Plain, WriteInt, WriteHex, WriteOther, WriteLong, Is
    <2> QED BY <1>4, <1>5, <2>1, <2>2 DEF WriteUnknown
  <1>6. CASE Len(piece) = 3
    <2>1. At(p) = "%" /\ p > 0 /\ At(p + 1) = "l" /\ At(p + 2) # "l" /\ shown = <<>>
      BY <1>2, <1>3, <1>6
    <2>2. WriteLong
      BY <2>1 DEF Loop, Plain, WriteInt, WriteHex, WriteOther, WriteUnknown, Is
    <2> QED BY <1>4, <1>6, <2>1, <2>2 DEF WriteLong
  <1>7. CASE Len(piece) = 4
    <2>1. /\ At(p) = "%" /\ p > 0 /\ At(p + 1) = "l" /\ At(p + 2) = "l"
          /\ At(p + 3) \notin {"u", "d"} /\ shown = <<>>
      BY <1>2, <1>3, <1>7
    <2>2. WriteLong
      BY <2>1 DEF Loop, Plain, WriteInt, WriteHex, WriteOther, WriteUnknown, Is
    <2> QED BY <1>4, <1>7, <2>1, <2>2 DEF WriteLong
  <1> QED BY <1>2, <1>5, <1>6, <1>7

(* A format that ends inside a directive: the loop reads its terminator as *)
(* part of that, and passes it.                                            *)
LEMMA IncompletePasses ==
  ASSUME NEW k, Looking(k), fmt[k] \in Incomplete, k = Len(fmt), Loop
  PROVE  /\ p' = Len(TextOf(fmt)) + 2
         /\ UNCHANGED <<serial_log_id, fmt, given, i2s, overrun>>
  <1> DEFINE piece == fmt[k]
             n == Len(piece)
  <1>1. /\ p \in Nat \ {0} /\ At(p) = piece[1]
        /\ n >= 2 => At(p + 1) = piece[2]
        /\ n >= 3 => At(p + 2) = piece[3]
        /\ At(p + n) = "NUL" /\ p + n = Len(TextOf(fmt)) + 1
    BY Seen
  <1>2. \/ n = 1 /\ piece[1] = "%"
        \/ n = 2 /\ piece[1] = "%" /\ piece[2] = "l"
        \/ n = 3 /\ piece[1] = "%" /\ piece[2] = "l" /\ piece[3] = "l"
    BY DEF Incomplete
  <1> HIDE DEF piece, n
  <1>3. ASSUME NEW chars, Write(chars, n + 1, 0), UNCHANGED <<i2s, overrun>>
        PROVE  /\ p' = Len(TextOf(fmt)) + 2
               /\ UNCHANGED <<serial_log_id, fmt, given, i2s, overrun>>
    <2>1. p' = p + (n + 1) /\ UNCHANGED <<serial_log_id, fmt, given>>
      BY <1>3 DEF Write
    <2>2. n \in Nat
      BY <1>2
    <2>3. p + (n + 1) = Len(TextOf(fmt)) + 2
      <3>1. Len(TextOf(fmt)) \in Nat
        BY Seen
      <3> QED BY <1>1, <2>2, <3>1
    <2> QED BY <1>3, <2>1, <2>3
  <1>4. CASE n = 1
    <2>1. At(p) = "%" /\ p > 0 /\ At(p + 1) = "NUL"
      BY <1>1, <1>2, <1>4
    <2>2. WriteUnknown
      BY <2>1 DEF Loop, Plain, WriteInt, WriteHex, WriteOther, WriteLong, Is
    <2>3. Write(<<"%", At(p + 1)>>, n + 1, 0) /\ UNCHANGED <<i2s, overrun>>
      BY <1>4, <2>2 DEF WriteUnknown
    <2> QED BY <1>3, <2>3
  <1>5. CASE n = 2
    <2>1. At(p) = "%" /\ p > 0 /\ At(p + 1) = "l" /\ At(p + 2) = "NUL"
      BY <1>1, <1>2, <1>5
    <2>2. WriteLong
      BY <2>1 DEF Loop, Plain, WriteInt, WriteHex, WriteOther, WriteUnknown, Is
    <2>3. Write(<<>>, n + 1, 0) /\ UNCHANGED <<i2s, overrun>>
      BY <1>5, <2>1, <2>2 DEF WriteLong
    <2> QED BY <1>3, <2>3
  <1>6. CASE n = 3
    <2>1. /\ At(p) = "%" /\ p > 0 /\ At(p + 1) = "l" /\ At(p + 2) = "l"
          /\ At(p + 3) = "NUL"
      BY <1>1, <1>2, <1>6
    <2>2. WriteLong
      BY <2>1 DEF Loop, Plain, WriteInt, WriteHex, WriteOther, WriteUnknown, Is
    <2>3. Write(<<>>, n + 1, 0) /\ UNCHANGED <<i2s, overrun>>
      BY <1>6, <2>1, <2>2 DEF WriteLong
    <2> QED BY <1>3, <2>3
  <1> QED BY <1>2, <1>4, <1>5, <1>6

(* Every piece is passed, or is the end of a format that has no right end. *)
LEMMA PiecePasses ==
  ASSUME NEW k, Looking(k), Loop
  PROVE  \/ Passes(k)
         \/ fmt[k] \in Incomplete /\ k = Len(fmt)
  <1>1. k \in 1 .. Len(fmt)
    BY DEF Looking
  <1>2. \/ IsCharacter(fmt[k]) \/ HasCase(fmt[k])
        \/ HasNoCase(fmt[k]) /\ \A j \in k + 1 .. Len(fmt) : ~IsDirective(fmt[j])
        \/ fmt[k] \in Incomplete /\ k = Len(fmt)
    BY <1>1, FormatIs DEF Looking
  <1>3. CASE IsCharacter(fmt[k])
    BY <1>3, CharacterPasses
  <1>4. CASE HasCase(fmt[k])
    <2>1. \/ \E c \in {"d", "i"} : fmt[k] = <<"%", c>>
          \/ \E c \in {"x", "X", "p"} : fmt[k] = <<"%", c>>
          \/ \E c \in {"u", "o", "c", "s"} : fmt[k] = <<"%", c>>
          \/ fmt[k] = <<"%", "%">>
          \/ \E c \in {"u", "d"} : fmt[k] = <<"%", "l", "l", c>>
      BY <1>4 DEF HasCase
    <2> QED BY <2>1, IntPasses, HexPasses, OtherPasses, PercentPasses, LongPasses
  <1>5. CASE HasNoCase(fmt[k]) /\ \A j \in k + 1 .. Len(fmt) : ~IsDirective(fmt[j])
    BY <1>5, NoCasePasses
  <1> QED BY <1>2, <1>3, <1>4, <1>5

LEMMA HeadingIs ==
  ASSUME NEW id \in Nat
  PROVE  Heading(id) \in Seq(Chars)
  <1> DEFINE n == Numeral(id, 10, 4)
  <1>1. n \in Seq(Chars)
    BY PaddedIs
  <1> HIDE DEF n
  <1>2. <<"[">> \in Seq(Chars) /\ <<"]", " ">> \in Seq(Chars)
    BY DEF Chars
  <1> DEFINE t == <<"[">> \o n
  <1>3. t \in Seq(Chars)
    <2> DEFINE u == <<"[">>
    <2>1. u \in Seq(Chars)
      BY <1>2
    <2> HIDE DEF u
    <2>2. u \o n \in Seq(Chars)
      BY <1>1, <2>1, ConcatProperties
    <2> QED BY <2>2 DEF u
  <1> HIDE DEF t
  <1>4. t \o <<"]", " ">> \in Seq(Chars)
    BY <1>2, <1>3, ConcatProperties
  <1> QED BY <1>4 DEF Heading, n, t

(* The loop's body, from one piece to the next.                            *)
LEMMA PieceByPiece ==
  ASSUME NEW k, Looking(k), Within(k - 1), Passes(k), serial_log_id \in Nat \ {0}
  PROVE  Within(k)'
  <1> DEFINE S == Shows(fmt, given)
             sofar == Flat(S)[k - 1]
             head == Heading(serial_log_id - 1)
             shown == Shown(fmt[k], given[k])
  <1>1. /\ k \in 1 .. Len(fmt) /\ fmt \in Formats /\ given \in Givens(fmt)
        /\ p' = Len(Flat(fmt)[k]) + 1
    BY Seen DEF Passes, Looking
  <1>2. /\ S \in Seq(Seq(Chars)) /\ Len(S) = Len(fmt) /\ S[k] = shown
        /\ FlatRight(Flat(S), S)
    <2>1. S \in Seq(Seq(Chars)) /\ Len(S) = Len(fmt) /\ S[k] = shown
      BY <1>1, ShowsAre
    <2> HIDE DEF S, shown
    <2> QED BY <2>1, FlatIs
  <1> HIDE DEF S
  <1>3. /\ sofar \in Seq(Chars) /\ shown \in Seq(Chars)
        /\ Flat(S)[k] = sofar \o shown
    <2>1. k - 1 \in 0 .. Len(S) /\ k \in 1 .. Len(S)
      BY <1>1, <1>2
    <2>2. k - 1 \in k - 1 .. Len(S)
      BY <1>1, <1>2
    <2>3. sofar \in Seq(Chars)
      BY <1>2, <2>1, <2>2, FlatGrows
    <2> HIDE DEF sofar, shown
    <2>4. shown \in Seq(Chars)
      BY <1>2, <2>1
    <2>5. Flat(S)[k] = Flat(S)[k - 1] \o S[k]
      BY <1>2, <2>1 DEF FlatRight
    <2> QED BY <1>2, <2>3, <2>4, <2>5 DEF sofar
  <1>4. head \in Seq(Chars)
    BY HeadingIs
  <1>5. out = head \o sofar /\ out' = out \o shown
    BY DEF Within, Passes, S
  <1> HIDE DEF sofar, head, shown
  <1>6. out' = head \o (sofar \o shown)
    <2>1. sofar \in Seq(Chars) /\ shown \in Seq(Chars)
      BY <1>3
    <2>2. (head \o sofar) \o shown = head \o (sofar \o shown)
      BY <1>4, <2>1, ConcatAssociative
    <2> QED BY <1>5, <2>2
  <1>7. UNCHANGED <<serial_log_id, fmt, given>>
    BY DEF Passes
  <1>8. out' = Heading(serial_log_id' - 1) \o Flat(Shows(fmt', given'))[k]
    BY <1>3, <1>6, <1>7 DEF S, head
  <1>9. ArgsFit(k)'
    BY <1>7 DEF Passes, ArgsFit
  <1> QED BY <1>1, <1>7, <1>8, <1>9 DEF Within

LEMMA TextEnds ==
  ASSUME NEW f \in Seq(Seq(Chars))
  PROVE  /\ Len(f) \in 0 .. Len(f) /\ FlatRight(Flat(f), f)
         /\ TextOf(f) = Flat(f)[Len(f)] /\ Len(TextOf(f)) \in Nat
  <1>1. FlatRight(Flat(f), f)
    BY FlatIs
  <1>2. Len(f) \in 0 .. Len(f)
    OBVIOUS
  <1>3. TextOf(f) \in Seq(Chars) /\ TextOf(f) = Flat(f)[Len(f)]
    BY <1>1, <1>2 DEF FlatRight, TextOf
  <1> QED BY <1>1, <1>2, <1>3

(* Behind its last piece the loop stops.                                   *)
LEMMA EndOfText ==
  ASSUME fmt \in Formats, p > Len(TextOf(fmt)), p \in Nat
  PROVE  ~Loop
  <1>1. Len(TextOf(fmt)) \in Nat
    BY FormatIs, TextEnds
  <1>2. At(p) = "NUL"
    BY <1>1 DEF At
  <1> QED BY <1>2 DEF Loop, Plain, WriteInt, WriteHex, WriteOther, WriteLong, WriteUnknown, Is

LEMMA LoopKeeps ==
  ASSUME SerialInv, Loop
  PROVE  SerialInv'
  <1>1. p \in Nat /\ p > 0
    BY DEF SerialInv, Loop, Plain, WriteInt, WriteHex, WriteOther, WriteLong, WriteUnknown, Is
  <1>2. serial_log_id \in Nat \ {0} /\ fmt \in Formats /\ given \in Givens(fmt) /\ CacheSound
    BY <1>1 DEF SerialInv
  <1>3. ~(p > Len(TextOf(fmt)))
    BY <1>1, <1>2, EndOfText
  <1>4. fmt \in Seq(Seq(Chars)) /\ FlatRight(Flat(fmt), fmt) /\ Len(fmt) \in Nat
    <2>1. fmt \in Seq(Seq(Chars))
      BY <1>2, FormatIs
    <2> QED BY <2>1, FlatIs
  <1>5. Len(TextOf(fmt)) \in Nat /\ TextOf(fmt) = Flat(fmt)[Len(fmt)]
    BY <1>4, TextEnds
  <1>6. PICK j \in 0 .. Len(fmt) : Within(j)
    BY <1>1, <1>2, <1>3, <1>5 DEF SerialInv, Beyond
  <1>7. j # Len(fmt)
    <2>1. ASSUME j = Len(fmt) PROVE FALSE
      BY <1>3, <1>5, <1>6, <2>1 DEF Within
    <2> QED BY <2>1
  <1> DEFINE k == j + 1
  <1>8. k \in 1 .. Len(fmt) /\ k - 1 = j
    BY <1>4, <1>6, <1>7
  <1> HIDE DEF k
  <1>9. Looking(k) /\ Within(k - 1)
    BY <1>2, <1>6, <1>8 DEF Looking, Within
  <1>10. CASE Passes(k)
    <2>1. Within(k)'
      BY <1>2, <1>9, <1>10, PieceByPiece
    <2>2. /\ UNCHANGED <<serial_log_id, fmt, given>> /\ CacheSound'
          /\ overrun' => overrun \/ Wide
      BY <1>10 DEF Passes, CacheSound
    <2>3. p' \in Nat \ {0}
      <3>1. p' = Len(Flat(fmt)[k]) + 1
        BY <2>1, <2>2 DEF Within
      <3>2. Flat(fmt)[k] \in Seq(Chars)
        <4>1. k \in 0 .. Len(fmt) /\ k \in k .. Len(fmt)
          BY <1>4, <1>8
        <4> QED BY <1>4, <4>1, FlatGrows
      <3> QED BY <3>1, <3>2
    <2>4. overrun' => Wide'
      <3>1. overrun => Wide
        BY <1>2 DEF SerialInv
      <3> QED BY <2>2, <3>1 DEF Wide
    <2>5. k \in 0 .. Len(fmt')
      BY <1>8, <2>2
    <2> QED BY <1>2, <2>1, <2>2, <2>3, <2>4, <2>5 DEF SerialInv
  <1>11. CASE fmt[k] \in Incomplete /\ k = Len(fmt)
    <2>1. /\ p' = Len(TextOf(fmt)) + 2
          /\ UNCHANGED <<serial_log_id, fmt, given, i2s, overrun>>
      BY <1>9, <1>11, IncompletePasses
    <2>2. Last(fmt) = fmt[k]
      BY <1>4, <1>8, <1>11 DEF Last
    <2>3. Beyond' /\ p' \in Nat \ {0}
      BY <1>5, <1>11, <2>1, <2>2 DEF Beyond
    <2>4. overrun' => Wide'
      BY <1>2, <2>1 DEF SerialInv, Wide
    <2>5. CacheSound'
      BY <1>2, <2>1 DEF CacheSound
    <2> QED BY <1>2, <2>1, <2>3, <2>4, <2>5 DEF SerialInv
  <1> QED BY <1>9, <1>10, <1>11, PiecePasses

LEMMA ReturnKeeps ==
  ASSUME SerialInv, Return
  PROVE  SerialInv'
  <1>1. serial_log_id \in Nat \ {0} /\ p # 0
    <2>1. CASE serial_log_id = 0
      <3>1. fmt = <<>> /\ p = 0
        BY <2>1 DEF SerialInv
      <3>2. Len(TextOf(fmt)) \in Nat
        <4>1. fmt \in Seq(Seq(Chars))
          BY <3>1
        <4> QED BY <4>1, TextEnds
      <3> QED BY <3>1, <3>2 DEF Return
    <2>2. CASE serial_log_id # 0
      <3>1. fmt \in Formats /\ serial_log_id \in Nat
        BY <2>2 DEF SerialInv
      <3>2. Len(TextOf(fmt)) \in Nat
        BY <3>1, FormatIs, TextEnds
      <3> QED BY <2>2, <3>1, <3>2 DEF Return
    <2> QED BY <2>1, <2>2
  <1>2. fmt \in Formats /\ given \in Givens(fmt) /\ CacheSound
    BY <1>1 DEF SerialInv
  <1>3. /\ fmt \in Seq(Seq(Chars)) /\ Len(fmt) \in Nat
        /\ Len(TextOf(fmt)) \in Nat
    <2>1. fmt \in Seq(Seq(Chars))
      BY <1>2, FormatIs
    <2> QED BY <2>1, TextEnds
  <1>4. PICK k \in 0 .. Len(fmt) : Within(k)
    <2>1. ~Beyond
      BY <1>3 DEF Beyond, Return
    <2> QED BY <1>1, <2>1 DEF SerialInv
  <1>5. k = Len(fmt)
    <2>1. SUFFICES ASSUME k # Len(fmt) PROVE FALSE
      OBVIOUS
    <2> DEFINE j == k + 1
    <2>2. j \in 1 .. Len(fmt) /\ j - 1 = k
      BY <1>3, <1>4, <2>1
    <2> HIDE DEF j
    <2>3. Looking(j)
      BY <1>2, <1>4, <2>2 DEF Looking, Within
    <2>4. p <= Len(TextOf(fmt))
      BY <2>3, Seen
    <2> QED BY <1>3, <2>4 DEF Return
  <1> DEFINE line == LineOf(fmt, given)
             head == Heading(serial_log_id - 1)
  <1>6. line = Flat(Shows(fmt, given))[Len(fmt)] /\ line \in Seq(Chars)
    <2> DEFINE S == Shows(fmt, given)
    <2>1. S \in Seq(Seq(Chars)) /\ Len(S) = Len(fmt) /\ line = FlattenSeq(S)
      BY <1>2, ShowsAre
    <2> HIDE DEF S
    <2>2. FlatRight(Flat(S), S)
      BY <2>1, FlatIs
    <2>3. Len(S) \in 0 .. Len(S)
      BY <2>1
    <2> HIDE DEF line
    <2>4. line = Flat(S)[Len(S)] /\ line \in Seq(Chars)
      BY <2>1, <2>2, <2>3 DEF FlatRight
    <2> QED BY <2>1, <2>4 DEF S
  <1>7. head \in Seq(Chars)
    BY <1>1, HeadingIs
  <1> HIDE DEF line, head
  <1>8. out = head \o line
    BY <1>4, <1>5, <1>6 DEF Within, head
  <1>9. out' = head \o line \o <<"newline">>
    <2>1. out \in Seq(Chars)
      BY <1>6, <1>7, <1>8, ConcatProperties
    <2>2. "newline" \in Chars
      BY DEF Chars
    <2>3. Append(out, "newline") = out \o <<"newline">>
      BY <2>1, <2>2, AppendIsConcat
    <2> QED BY <1>8, <2>3 DEF Return
  <1>10. p' = 0 /\ UNCHANGED <<serial_log_id, fmt, given, i2s, overrun>>
    BY DEF Return
  <1>11. /\ out' = Heading(serial_log_id' - 1) \o LineOf(fmt', given') \o <<"newline">>
         /\ CacheSound' /\ (overrun' => Wide')
    <2>1. out' = Heading(serial_log_id' - 1) \o LineOf(fmt', given') \o <<"newline">>
      BY <1>9, <1>10 DEF head, line
    <2>2. CacheSound'
      BY <1>2, <1>10 DEF CacheSound
    <2>3. overrun' => Wide'
      BY <1>1, <1>10 DEF SerialInv, Wide
    <2> QED BY <2>1, <2>2, <2>3
  <1> QED BY <1>1, <1>2, <1>10, <1>11 DEF SerialInv

LEMMA CallKeeps ==
  ASSUME SerialInv, NEW f \in Formats, NEW g \in Givens(f), serial_fwrite(f, g)
  PROVE  SerialInv'
  <1>1. serial_log_id \in Nat /\ CacheSound
    BY DEF SerialInv
  <1>2. /\ fmt' = f /\ given' = g /\ p' = 1 /\ args' = Arguments(f, g)
        /\ serial_log_id' = serial_log_id + 1 /\ overrun' = FALSE
        /\ i2s' = serial_i2s(serial_log_id)
        /\ out' = <<"[">> \o i2s'.temp \o <<"]", " ">>
    BY DEF serial_fwrite
  <1>3. i2s'.temp = Decimal(serial_log_id) /\ CacheSound'
    BY <1>1, <1>2, CacheIs DEF CacheSound
  <1>4. Decimal(serial_log_id) = Numeral(serial_log_id, 10, 4)
    BY <1>1, DecimalIs DEF DecimalOf
  <1>5. out' = Heading(serial_log_id)
    BY <1>2, <1>3, <1>4 DEF Heading
  <1>6. serial_log_id' - 1 = serial_log_id /\ serial_log_id' \in Nat \ {0}
    <2>1. serial_log_id \in Nat /\ serial_log_id' = serial_log_id + 1
      BY <1>1, <1>2
    <2> QED BY <2>1
  <1>7. f \in Seq(Seq(Chars)) /\ Flat(f)[0] = <<>> /\ 0 \in 0 .. Len(f)
    <2>1. f \in Seq(Seq(Chars))
      BY FormatIs
    <2>2. FlatRight(Flat(f), f)
      BY <2>1, FlatIs
    <2> QED BY <2>1, <2>2 DEF FlatRight
  <1>8. Flat(Shows(f, g))[0] = <<>>
    <2> DEFINE S == Shows(f, g)
    <2>1. S \in Seq(Seq(Chars))
      BY ShowsAre
    <2> HIDE DEF S
    <2>2. FlatRight(Flat(S), S)
      BY <2>1, FlatIs
    <2>3. Flat(S)[0] = <<>>
      BY <2>2 DEF FlatRight
    <2> QED BY <2>3 DEF S
  <1>9. args' = ArgsBehind(f, g, 0)
    <2>1. g \in Seq(Values) /\ Len(g) = Len(f)
      BY <1>7, GivensAre
    <2> QED BY <1>2, <1>7, <2>1, ArgumentsAre
  <1>10. out' = Heading(serial_log_id' - 1) \o Flat(Shows(f, g))[0]
    <2> DEFINE head == Heading(serial_log_id)
    <2>1. head \in Seq(Chars)
      BY <1>1, HeadingIs
    <2> HIDE DEF head
    <2>2. head = head \o <<>>
      BY <2>1, ConcatEmptySeq
    <2> QED BY <1>5, <1>6, <1>8, <2>2 DEF head
  <1>11. p' = Len(Flat(f)[0]) + 1
    <2>1. p' = 1 /\ Len(<<>>) = 0
      BY <1>2
    <2> QED BY <1>7, <2>1
  <1>12. Within(0)'
    BY <1>2, <1>9, <1>10, <1>11 DEF Within, ArgsFit
  <1>13. /\ fmt' \in Formats /\ given' \in Givens(fmt') /\ overrun' = FALSE
         /\ p' = 1 /\ 0 \in 0 .. Len(fmt')
    BY <1>2, <1>7
  <1> QED BY <1>3, <1>6, <1>12, <1>13 DEF SerialInv

LEMMA SerialInvHolds == SerialSpec => []SerialInv
  <1>1. SerialInit => SerialInv
    BY DEF SerialInit, SerialInv, CacheSound
  <1>2. SerialInv /\ [SerialNext]_serialVars => SerialInv'
    <2> SUFFICES ASSUME SerialInv, [SerialNext]_serialVars
                 PROVE  SerialInv'
      OBVIOUS
    <2>1. CASE Call
      BY <2>1, CallKeeps DEF Call
    <2>2. CASE Loop
      BY <2>2, LoopKeeps
    <2>3. CASE Return
      BY <2>3, ReturnKeeps
    <2>4. CASE UNCHANGED serialVars
      <3>1. /\ UNCHANGED <<serial_log_id, i2s, fmt, p, args, out, overrun, given>>
        BY <2>4 DEF serialVars
      <3>2. UNCHANGED <<CacheSound, Beyond, Wide>>
        BY <3>1 DEF CacheSound, Beyond, Wide
      <3>3. \A k : Within(k)' <=> Within(k)
        BY <3>1 DEF Within, ArgsFit
      <3> QED BY <3>1, <3>2, <3>3 DEF SerialInv
    <2> QED BY <2>1, <2>2, <2>3, <2>4 DEF SerialNext, Loop
  <1> QED BY <1>1, <1>2, PTL DEF SerialSpec

(* Whatever was logged before, a call of serial_fwrite leaves a line with  *)
(* its own id, filled up to four digits, and the format with the numeral,  *)
(* string or character of its argument for every directive the switch has  *)
(* a case for: neither the cache of serial_i2s nor a directive that takes  *)
(* no argument makes a later one print a wrong value.                      *)
THEOREM LinesAreRight == SerialSpec => []LineIsRight
  <1>1. SerialInv => LineIsRight
    <2> SUFFICES ASSUME SerialInv, p = 0, serial_log_id > 0
                 PROVE  out = Heading(serial_log_id - 1) \o LineOf(fmt, given) \o <<"newline">>
      BY DEF LineIsRight, Heading
    <2>1. serial_log_id # 0
      BY DEF SerialInv
    <2> QED BY <2>1 DEF SerialInv
  <1> QED BY <1>1, SerialInvHolds, PTL

(* serial_fwrite passes the terminator of its format only when the format  *)
(* ends inside a directive, and serial_write_hex stores behind its buffer  *)
(* only when a value has as many hexadecimal digits as the buffer cells.   *)
THEOREM CallsStayInside == SerialSpec => []StaysInside
  <1>1. SerialInv => StaysInside
    <2> SUFFICES ASSUME SerialInv PROVE StaysInside
      OBVIOUS
    <2>1. fmt \in Seq(Seq(Chars))
      <3>1. CASE serial_log_id = 0
        BY <3>1 DEF SerialInv
      <3>2. CASE serial_log_id # 0
        BY <3>2, FormatIs DEF SerialInv
      <3> QED BY <3>1, <3>2
    <2>2. Len(TextOf(fmt)) \in Nat /\ TextOf(fmt) = Flat(fmt)[Len(fmt)]
      BY <2>1, TextEnds
    <2>3. ASSUME p > Len(TextOf(fmt)) + 1 PROVE Last(fmt) \in Incomplete
      <3>1. p \in Nat /\ p # 0 /\ serial_log_id # 0
        BY <2>2, <2>3 DEF SerialInv
      <3>2. ASSUME NEW k \in 0 .. Len(fmt), Within(k) PROVE FALSE
        <4>1. p = Len(Flat(fmt)[k]) + 1
          BY <3>2 DEF Within
        <4>2. Len(fmt) \in k .. Len(fmt)
          BY <2>1
        <4>3. /\ Len(Flat(fmt)[k]) <= Len(TextOf(fmt))
              /\ Flat(fmt)[k] \in Seq(Chars)
          BY <2>1, <2>2, <4>2, FlatGrows
        <4>4. Len(Flat(fmt)[k]) \in Nat
          BY <4>3
        <4> QED BY <2>2, <2>3, <4>1, <4>3, <4>4
      <3>3. Beyond
        BY <3>1, <3>2 DEF SerialInv
      <3> QED BY <3>3 DEF Beyond
    <2>4. ASSUME overrun PROVE Wide
      BY <2>4 DEF SerialInv
    <2> QED BY <2>3, <2>4 DEF StaysInside, Wide
  <1> QED BY <1>1, SerialInvHolds, PTL
=============================================================================
