--------------------------- MODULE KeyboardProofs ---------------------------
(***************************************************************************)
(* What TLAPS proves of Keyboard, for any size of the ring, length of out  *)
(* and number of key presses: the ring between the interrupt handler and   *)
(* kbd_getc, whose loads and stores interleave, the shift key, and the line*)
(* that kbd_gets edits.                                                    *)
(***************************************************************************)
EXTENDS Keyboard, SequenceTheorems, WellFoundedInduction, TLAPS

USE KeyboardAssumption

Entry == [n : Nat, kind : Kinds \cup {"nul"}]
Steps == {"idle", "head", "compare", "tail", "char", "again", "store", "return"}

RingTypeOK ==
    /\ kbd_drvr_buf \in [Slots -> Entry]
    /\ kbd_buf_head \in Slots
    /\ kbd_buf_tail \in Slots
    /\ getc \in [at : Steps, index : Slots, c : Entry]
    /\ typed \in Nat
    /\ last \in Nat
    /\ full \in {"no", "yes", "race"}

(* How far a slot is behind the tail, and the number of the last key press *)
(* that is in front of the ring's first character.                         *)
Ahead(s, t) == IF s >= t THEN s - t ELSE s - t + KBD_BUF_SIZE
Filled == Ahead(kbd_buf_head, kbd_buf_tail)
Base == typed - Filled

(* Without a race the ring holds consecutive characters, up to the last one*)
(* typed, and none that was returned before.                               *)
Consecutive ==
    full # "race" =>
        /\ last <= Base
        /\ full = "no" => last = Base
        /\ \A s \in Slots :
              Ahead(s, kbd_buf_tail) < Filled =>
                 kbd_drvr_buf[s].n = Base + Ahead(s, kbd_buf_tail) + 1

(* Once kbd_getc has seen a character, and no overflow takes it away, the  *)
(* ring stays filled and what it holds is the first character.             *)
ReaderSound ==
    /\ getc.at \notin {"again", "store", "return"} => getc.c = NUL
    /\ full # "race" =>
          /\ getc.at = "compare" /\ getc.index # kbd_buf_tail =>
                kbd_buf_head # kbd_buf_tail
          /\ getc.at \in {"tail", "char", "again", "store"} =>
                kbd_buf_head # kbd_buf_tail
          /\ getc.at \in {"char", "store"} => getc.index = kbd_buf_tail
          /\ getc.at \in {"again", "store"} => getc.c = kbd_drvr_buf[kbd_buf_tail]

Inv == RingTypeOK /\ Consecutive /\ ReaderSound

-----------------------------------------------------------------------------
(* The slot after a slot, and the distance of two, without the remainder.  *)
LEMMA AfterIs ==
  ASSUME NEW s \in Slots
  PROVE  /\ After(s) = IF s + 1 = KBD_BUF_SIZE THEN 0 ELSE s + 1
         /\ After(s) \in Slots
  BY DEF After, Slots

LEMMA AheadIs ==
  ASSUME NEW s \in Slots, NEW t \in Slots
  PROVE  /\ (s - t + KBD_BUF_SIZE) % KBD_BUF_SIZE = Ahead(s, t)
         /\ Ahead(s, t) \in Slots
         /\ Ahead(s, t) = 0 <=> s = t
  <1>1. s - t + KBD_BUF_SIZE \in 0 .. 2 * KBD_BUF_SIZE - 1
    BY DEF Slots
  <1>2. \A x \in 0 .. 2 * KBD_BUF_SIZE - 1 :
           x % KBD_BUF_SIZE = IF x < KBD_BUF_SIZE THEN x ELSE x - KBD_BUF_SIZE
    OBVIOUS
  <1> QED BY <1>1, <1>2 DEF Ahead, Slots

(* d slots behind t is the slot that is d ahead of it.                     *)
LEMMA SlotAt ==
  ASSUME NEW t \in Slots, NEW d \in Slots
  PROVE  /\ (t + d) % KBD_BUF_SIZE \in Slots
         /\ Ahead((t + d) % KBD_BUF_SIZE, t) = d
  <1>1. t + d \in 0 .. 2 * KBD_BUF_SIZE - 1
    BY DEF Slots
  <1>2. \A x \in 0 .. 2 * KBD_BUF_SIZE - 1 :
           x % KBD_BUF_SIZE = IF x < KBD_BUF_SIZE THEN x ELSE x - KBD_BUF_SIZE
    OBVIOUS
  <1> QED BY <1>1, <1>2 DEF Ahead, Slots

(* A step of the head, or of the tail, changes the distance by one.        *)
LEMMA AheadStep ==
  ASSUME NEW s \in Slots, NEW t \in Slots
  PROVE  /\ Ahead(s, t) \in 0 .. KBD_BUF_SIZE - 1
         /\ Ahead(t, t) = 0
         /\ s # t => Ahead(s, t) > 0
         /\ After(s) # t => Ahead(After(s), t) = Ahead(s, t) + 1
         /\ s # t => Ahead(s, After(t)) = Ahead(s, t) - 1
         /\ Ahead(t, After(t)) = KBD_BUF_SIZE - 1
  BY AfterIs DEF Ahead, Slots

-----------------------------------------------------------------------------
LEMMA InitInv == Init => Inv
  <1> SUFFICES ASSUME Init PROVE Inv
    OBVIOUS
  <1>1. RingTypeOK
    BY DEF Init, RingTypeOK, Slots, Entry, Steps, Idle, NUL
  <1>2. Filled = 0
    BY DEF Init, Filled, Ahead
  <1>3. Consecutive
    BY <1>2 DEF Init, Consecutive, Base, Ahead, Slots
  <1>4. ReaderSound
    BY DEF Init, ReaderSound, Idle
  <1> QED BY <1>1, <1>3, <1>4 DEF Inv

(* A push into a ring with room puts the next number behind the others.    *)
LEMMA PushInv ==
  ASSUME Inv, NEW c, KbdPushback(c), HasRoom, UNCHANGED <<getc, last>>
  PROVE  Inv'
  <1> USE DEF Inv
  <1>1. /\ typed' = typed + 1
        /\ kbd_drvr_buf' = [kbd_drvr_buf EXCEPT
                               ![kbd_buf_head] = [n |-> typed + 1, kind |-> KindOf(c)]]
        /\ kbd_buf_head' = After(kbd_buf_head)
        /\ kbd_buf_tail' = kbd_buf_tail
        /\ full' = full
        /\ getc' = getc
        /\ last' = last
        /\ After(kbd_buf_head) # kbd_buf_tail
    BY DEF KbdPushback, HasRoom
  <1>2. KindOf(c) \in Kinds
    BY DEF KindOf, Kinds
  <1>3. RingTypeOK'
    BY <1>1, <1>2, AfterIs DEF RingTypeOK, Entry
  <1>4. Filled' = Filled + 1
    BY <1>1, AheadStep DEF RingTypeOK, Filled
  <1>5. Base' = Base
    <2>1. Filled \in Int /\ typed \in Int
      BY AheadStep DEF RingTypeOK, Filled
    <2> QED BY <1>1, <1>4, <2>1 DEF Base
  <1>6. Consecutive'
    <2> SUFFICES ASSUME full # "race"
                 PROVE  /\ last <= Base
                        /\ full = "no" => last = Base
                        /\ \A s \in Slots :
                              Ahead(s, kbd_buf_tail) < Filled + 1 =>
                                 kbd_drvr_buf'[s].n = Base + Ahead(s, kbd_buf_tail) + 1
      BY <1>1, <1>4, <1>5 DEF Consecutive
    <2>1. ASSUME NEW s \in Slots, Ahead(s, kbd_buf_tail) < Filled + 1, s # kbd_buf_head
          PROVE  kbd_drvr_buf'[s].n = Base + Ahead(s, kbd_buf_tail) + 1
      <3>1. Ahead(s, kbd_buf_tail) < Filled
        BY <2>1 DEF RingTypeOK, Filled, Ahead, Slots
      <3>2. kbd_drvr_buf'[s] = kbd_drvr_buf[s]
        BY <1>1, <2>1 DEF RingTypeOK
      <3> QED BY <3>1, <3>2 DEF Consecutive
    <2>2. kbd_drvr_buf'[kbd_buf_head].n = Base + Filled + 1
      <3>1. kbd_drvr_buf'[kbd_buf_head].n = typed + 1
        BY <1>1 DEF RingTypeOK
      <3>2. Filled \in Int
        BY DEF RingTypeOK, Filled, Ahead, Slots
      <3> QED BY <3>1, <3>2 DEF RingTypeOK, Base
    <2> QED BY <2>1, <2>2 DEF Consecutive, Filled
  <1>7. ReaderSound'
    BY <1>1, AfterIs DEF RingTypeOK, ReaderSound
  <1> QED BY <1>3, <1>6, <1>7

(* An overflow empties the ring, and is a race but outside the loads.      *)
LEMMA OverflowInv ==
  ASSUME Inv, NEW c, KbdPushback(c), ~HasRoom, UNCHANGED <<getc, last>>
  PROVE  Inv'
  <1> USE DEF Inv
  <1>1. /\ typed' = typed + 1
        /\ kbd_drvr_buf' = [s \in Slots |-> NUL]
        /\ kbd_buf_head' = 0
        /\ kbd_buf_tail' = 0
        /\ full' = IF getc.at \in {"idle", "head", "return"} /\ full # "race"
                   THEN "yes" ELSE "race"
        /\ getc' = getc
        /\ last' = last
    BY DEF KbdPushback, OverflowKbdBfr
  <1>2. RingTypeOK'
    BY <1>1 DEF RingTypeOK, Entry, NUL, Slots
  <1>3. Filled' = 0
    BY <1>1 DEF Filled, Ahead
  <1>4. Consecutive'
    <2> SUFFICES ASSUME full' # "race"
                 PROVE  /\ last <= typed + 1
                        /\ full' # "no"
                        /\ \A s \in Slots : ~(Ahead(s, 0) < 0)
      BY <1>1, <1>3 DEF Consecutive, Base, RingTypeOK
    <2>1. full # "race"
      BY <1>1
    <2>2. Filled \in Nat
      BY AheadStep DEF Filled, RingTypeOK
    <2> QED BY <1>1, <2>1, <2>2 DEF Consecutive, Base, RingTypeOK, Ahead, Slots
  <1>5. ReaderSound'
    BY <1>1 DEF ReaderSound, RingTypeOK
  <1> QED BY <1>2, <1>4, <1>5

(* What leaves the ring, the reader and the histories alone.               *)
LEMMA StutterInv ==
  ASSUME Inv, UNCHANGED <<ring, getc, typed, last, full>>
  PROVE  Inv'
  BY DEF Inv, ring, RingTypeOK, Consecutive, ReaderSound, Filled, Base

LEMMA HandlerInv ==
  ASSUME Inv, KeyboardDriverMain
  PROVE  Inv'
  <1>1. UNCHANGED <<getc, last>>
    BY DEF KeyboardDriverMain
  <1>2. CASE UNCHANGED <<ring, typed, full>>
    BY <1>1, <1>2, StutterInv
  <1>3. CASE \E c : KbdPushback(c)
    BY <1>1, <1>3, PushInv, OverflowInv
  <1> QED BY <1>2, <1>3 DEF KeyboardDriverMain, Prefix, Prefixed, ShiftMake,
                ShiftBreak, CapsMake, CharMake

(* The store frees the slot whose character kbd_getc holds.                *)
LEMMA StoreInv ==
  ASSUME Inv, StoreTail
  PROVE  Inv'
  <1> USE DEF Inv
  <1>1. /\ getc.at = "store"
        /\ kbd_buf_tail' = After(getc.index)
        /\ last' = IF getc.c = NUL THEN last ELSE getc.c.n
        /\ getc' = [getc EXCEPT !.at = "return", !.index = 0]
        /\ UNCHANGED <<kbd_drvr_buf, kbd_buf_head, typed, full>>
    BY DEF StoreTail, NewTail
  <1>2. getc' = [at |-> "return", index |-> 0, c |-> getc.c] /\ getc.c \in Entry
    BY <1>1 DEF RingTypeOK
  <1>3. RingTypeOK'
    <2>1. kbd_buf_tail' \in Slots
      BY <1>1, AfterIs DEF RingTypeOK
    <2>2. 0 \in Slots /\ NUL \in Entry
      BY DEF Slots, Entry, NUL
    <2>3. getc' \in [at : Steps, index : Slots, c : Entry]
      BY <1>2, <2>2 DEF Steps
    <2>4. last' \in Nat
      <3>1. getc.c.n \in Nat /\ last \in Nat
        BY DEF RingTypeOK, Entry
      <3> QED BY <1>1, <3>1
    <2> QED BY <1>1, <2>1, <2>3, <2>4 DEF RingTypeOK
  <1>4. ReaderSound'
    BY <1>2 DEF ReaderSound
  <1>5. Consecutive'
    <2> SUFFICES ASSUME full # "race" PROVE Consecutive'
      BY <1>1 DEF Consecutive
    <2>1. /\ kbd_buf_tail' = After(kbd_buf_tail)
          /\ kbd_buf_head # kbd_buf_tail
          /\ getc.c = kbd_drvr_buf[kbd_buf_tail]
      BY <1>1 DEF ReaderSound
    <2>2. /\ Filled \in Nat \ {0}
          /\ Filled' = Filled - 1
          /\ Ahead(kbd_buf_tail, kbd_buf_tail) = 0
          /\ Filled < KBD_BUF_SIZE
      BY <1>1, <2>1, AheadStep DEF RingTypeOK, Filled
    <2>3. Base' = Base + 1
      BY <1>1, <2>2 DEF Base, RingTypeOK
    <2>4. last' = Base + 1
      <3>1. getc.c.n = Base + 0 + 1
        BY <2>1, <2>2 DEF Consecutive, RingTypeOK
      <3>2. last <= Base
        BY DEF Consecutive
      <3> QED BY <1>1, <2>2, <3>1, <3>2 DEF RingTypeOK, Base, NUL
    <2>5. ASSUME NEW s \in Slots, Ahead(s, kbd_buf_tail') < Filled'
          PROVE  kbd_drvr_buf[s].n = Base' + Ahead(s, kbd_buf_tail') + 1
      <3>1. kbd_buf_tail \in Slots
        BY DEF RingTypeOK
      <3>2. s # kbd_buf_tail
        BY <2>1, <2>2, <2>5, <3>1, AheadStep
      <3>3. /\ Ahead(s, kbd_buf_tail) = Ahead(s, kbd_buf_tail') + 1
            /\ Ahead(s, kbd_buf_tail) \in Nat
            /\ Ahead(s, kbd_buf_tail') \in Int
        BY <2>1, <3>1, <3>2, AheadStep, AfterIs
      <3>4. kbd_drvr_buf[s].n = Base + Ahead(s, kbd_buf_tail) + 1
        BY <2>2, <2>5, <3>3 DEF Consecutive
      <3>5. Base \in Int
        BY <2>2 DEF RingTypeOK, Base
      <3> QED BY <2>3, <3>3, <3>4, <3>5
    <2> QED BY <1>1, <2>3, <2>4, <2>5, <2>2 DEF Consecutive, RingTypeOK, Base
  <1> QED BY <1>3, <1>4, <1>5

(* kbd_getc returns.                                                       *)
LEMMA ReturnInv ==
  ASSUME Inv, Return
  PROVE  Inv'
  <1>1. UNCHANGED <<ring, typed, last, full>>
    BY DEF Return
  <1>2. getc' = [at |-> getc'.at, index |-> 0, c |-> NUL] /\ getc'.at \in {"idle", "head"}
    BY DEF Return, Idle
  <1>3. 0 \in Slots /\ NUL \in Entry
    BY DEF Slots, Entry, NUL
  <1>4. Consecutive'
    BY <1>1 DEF Inv, ring, Consecutive, Filled, Base
  <1>5. RingTypeOK' /\ ReaderSound'
    BY <1>1, <1>2, <1>3 DEF Inv, ring, RingTypeOK, ReaderSound, Steps
  <1> QED BY <1>4, <1>5 DEF Inv

(* A load changes the reader only.                                         *)
LEMMA LoadInv ==
  ASSUME Inv, kbd_gets \/ LoadHead \/ CompareTail \/ LoadTail \/ LoadChar
                 \/ LoadTailAgain
  PROVE  Inv'
  <1> USE DEF Inv
  <1>1. UNCHANGED <<ring, typed, last, full>>
    BY DEF kbd_gets, LoadHead, CompareTail, LoadTail, LoadChar, LoadTailAgain
  <1>2. Consecutive'
    BY <1>1 DEF ring, Consecutive, Filled, Base
  <1>3. RingTypeOK' /\ ReaderSound'
    <2>1. CASE kbd_gets
      BY <1>1, <2>1 DEF kbd_gets, ring, RingTypeOK, ReaderSound, Steps
    <2>2. CASE LoadHead
      BY <1>1, <2>2 DEF LoadHead, ring, RingTypeOK, ReaderSound, Steps
    <2>3. CASE CompareTail
      <3>1. 0 \in Slots
        BY DEF Slots
      <3>2. CASE getc.index = kbd_buf_tail
        <4>1. getc' = [getc EXCEPT !.at = "head", !.index = 0]
          BY <2>3, <3>2 DEF CompareTail
        <4> QED BY <1>1, <2>3, <3>1, <4>1
                DEF CompareTail, ring, RingTypeOK, ReaderSound, Steps
      <3>3. CASE getc.index # kbd_buf_tail
        <4>1. getc' = [getc EXCEPT !.at = "tail", !.index = 0]
          BY <2>3, <3>3 DEF CompareTail
        <4> QED BY <1>1, <2>3, <3>1, <3>3, <4>1
                DEF CompareTail, ring, RingTypeOK, ReaderSound, Steps
      <3> QED BY <3>2, <3>3
    <2>4. CASE LoadTail
      BY <1>1, <2>4 DEF LoadTail, ring, RingTypeOK, ReaderSound, Steps
    <2>5. CASE LoadChar
      BY <1>1, <2>5 DEF LoadChar, ring, RingTypeOK, ReaderSound, Steps, Slots
    <2>6. CASE LoadTailAgain
      BY <1>1, <2>6 DEF LoadTailAgain, ring, RingTypeOK, ReaderSound, Steps
    <2> QED BY <2>1, <2>2, <2>3, <2>4, <2>5, <2>6
  <1> QED BY <1>2, <1>3

LEMMA NextInv == Inv /\ [Next]_vars => Inv'
  <1> SUFFICES ASSUME Inv, [Next]_vars PROVE Inv'
    OBVIOUS
  <1>1. CASE UNCHANGED vars
    BY <1>1, StutterInv DEF vars, ring
  <1> QED BY <1>1, HandlerInv, StoreInv, ReturnInv, LoadInv DEF Next, Reader

LEMMA SpecInv == Spec => []Inv
  BY InitInv, NextInv, PTL DEF Spec

-----------------------------------------------------------------------------
(* For any ring: without an overflow between its loads and its store,      *)
(* kbd_getc returns no character twice and none out of order.              *)
THEOREM CharactersInOrder == Spec => []InOrder
  <1>1. Inv => InOrder
    <2> SUFFICES ASSUME Inv, full # "race", getc.at \in {"again", "store"}, getc.c # NUL
                 PROVE  getc.c.n > last
      BY DEF InOrder
    <2>1. kbd_buf_head # kbd_buf_tail /\ getc.c = kbd_drvr_buf[kbd_buf_tail]
      BY DEF Inv, ReaderSound
    <2>2. Filled \in Nat \ {0} /\ Ahead(kbd_buf_tail, kbd_buf_tail) = 0
      BY <2>1 DEF Inv, RingTypeOK, Filled, Ahead, Slots
    <2>3. getc.c.n = Base + 0 + 1 /\ last <= Base
      BY <2>1, <2>2 DEF Inv, Consecutive, RingTypeOK
    <2> QED BY <2>2, <2>3 DEF Inv, RingTypeOK, Base
  <1> QED BY <1>1, SpecInv, PTL

(* For any ring: kbd_getc takes a NUL from the ring only if an overflow    *)
(* emptied it between its loads and its store.                             *)
THEOREM NulOnlyByRace == Spec => []NulMeansRace
  <1>1. Inv => NulMeansRace
    <2> SUFFICES ASSUME Inv, full # "race", getc.at \in {"again", "store"}
                 PROVE  getc.c # NUL
      BY DEF NulMeansRace
    <2>1. kbd_buf_head # kbd_buf_tail /\ getc.c = kbd_drvr_buf[kbd_buf_tail]
      BY DEF Inv, ReaderSound
    <2>2. Filled \in Nat \ {0} /\ Ahead(kbd_buf_tail, kbd_buf_tail) = 0
      BY <2>1 DEF Inv, RingTypeOK, Filled, Ahead, Slots
    <2>3. getc.c.n = Base + 0 + 1 /\ last <= Base
      BY <2>1, <2>2 DEF Inv, Consecutive, RingTypeOK
    <2>4. getc.c.n > 0
      BY <2>2, <2>3 DEF Inv, RingTypeOK, Base
    <2> QED BY <2>4 DEF NUL
  <1> QED BY <1>1, SpecInv, PTL

(* For any ring: until it overflows it holds every character typed and not *)
(* yet returned, in order.                                                 *)
THEOREM NothingLostBeforeOverflow == Spec => []NothingLost
  <1>1. Inv => NothingLost
    <2> SUFFICES ASSUME Inv, full = "no"
                 PROVE  /\ RingLength = typed - last
                        /\ \A d \in 1 .. RingLength :
                              kbd_drvr_buf[(kbd_buf_tail + d - 1) % KBD_BUF_SIZE].n
                                 = last + d
      BY DEF NothingLost
    <2>1. RingLength = Filled /\ Filled \in Slots
      BY AheadIs DEF Inv, RingTypeOK, RingLength, Filled
    <2>2. last = typed - Filled
      BY DEF Inv, Consecutive, Base
    <2>3. ASSUME NEW d \in 1 .. Filled
          PROVE  kbd_drvr_buf[(kbd_buf_tail + d - 1) % KBD_BUF_SIZE].n = last + d
      <3>1. d - 1 \in Slots /\ kbd_buf_tail + d - 1 = kbd_buf_tail + (d - 1)
        BY <2>1 DEF Inv, RingTypeOK, Slots
      <3> DEFINE s == (kbd_buf_tail + (d - 1)) % KBD_BUF_SIZE
      <3>2. s \in Slots /\ Ahead(s, kbd_buf_tail) = d - 1
        BY <3>1, SlotAt DEF Inv, RingTypeOK
      <3>3. kbd_drvr_buf[s].n = Base + (d - 1) + 1
        BY <2>1, <3>2 DEF Inv, Consecutive, Slots
      <3>4. kbd_drvr_buf[s].n = last + d
        BY <2>1, <2>2, <3>3 DEF Base, Inv, RingTypeOK, Slots
      <3> QED BY <3>1, <3>4
    <2> QED BY <2>1, <2>2, <2>3 DEF Inv, RingTypeOK, Slots
  <1> QED BY <1>1, SpecInv, PTL

-----------------------------------------------------------------------------
HeldOK == held \subseteq ShiftKeys

LEMMA ShiftStep ==
  ASSUME HeldOK, ShiftFollowsKeys, [Next]_vars
  PROVE  HeldOK' /\ ShiftFollowsKeys'
  <1>1. CASE UNCHANGED <<held, shift>>
    BY <1>1 DEF HeldOK, ShiftFollowsKeys
  <1>2. CASE \E key \in ShiftKeys : ShiftMake(key) \/ ShiftBreak(key)
    BY <1>2 DEF HeldOK, ShiftFollowsKeys, ShiftMake, ShiftBreak, ShiftKeys
  <1> QED BY <1>1, <1>2 DEF Next, vars, keys, Reader, KeyboardDriverMain, Prefix,
                Prefixed, CapsMake, CharMake, kbd_gets, LoadHead, CompareTail,
                LoadTail, LoadChar, LoadTailAgain, StoreTail, Return

(* shift is set while both shift keys are down and clear while both are up,*)
(* whatever other codes come between theirs.                               *)
THEOREM ShiftIsHeld == Spec => []ShiftFollowsKeys
  <1>1. Init => HeldOK /\ ShiftFollowsKeys
    BY DEF Init, HeldOK, ShiftFollowsKeys, ShiftKeys
  <1> QED BY <1>1, ShiftStep, PTL DEF Spec

(* The layout that gives a character is the one the keys ask for.          *)
THEOREM LayoutFollowsKeys == Spec => CharFollowsKeys
  <1> DEFINE Follows == /\ ch' = "!" => held # {}
                        /\ ch' = "A" => held # {} \/ caps
                        /\ ch' = "a" => ~caps
  <1>1. ASSUME ShiftFollowsKeys, NEW key \in {"letter", "digit", "enter", "back"},
               ch' = Layout(key)
        PROVE  Follows
    <2>1. held = {} => ~shift
      BY <1>1 DEF ShiftFollowsKeys
    <2>2. CASE key = "letter"
      <3>1. ch' = IF shift \/ caps THEN "A" ELSE "a"
        BY <1>1, <2>2 DEF Layout
      <3> QED BY <2>1, <3>1
    <2>3. CASE key = "digit"
      <3>1. ch' = IF shift THEN "!" ELSE "1"
        BY <1>1, <2>3 DEF Layout
      <3> QED BY <2>1, <3>1
    <2>4. CASE key = "enter" \/ key = "back"
      <3>1. ch' = key
        BY <1>1, <2>4 DEF Layout
      <3> QED BY <2>4, <3>1
    <2> QED BY <1>1, <2>2, <2>3, <2>4
  <1>2. ASSUME ShiftFollowsKeys, [Next]_vars, ch' # ch
        PROVE  Follows
    <2>1. \E key \in {"letter", "digit", "enter", "back"} : ch' = Layout(key)
      BY <1>2 DEF Next, vars, keys, Reader, KeyboardDriverMain, Prefix,
            Prefixed, ShiftMake, ShiftBreak, CapsMake, CharMake, kbd_gets,
            LoadHead, CompareTail, LoadTail, LoadChar, LoadTailAgain, StoreTail, Return
    <2> QED BY <1>1, <1>2, <2>1
  <1>3. ShiftFollowsKeys /\ [Next]_vars => [ch' # ch => Follows]_vars
    BY <1>2
  <1> HIDE DEF Follows
  <1>4. Spec => [][ch' # ch => Follows]_vars
    BY <1>3, ShiftIsHeld, PTL DEF Spec
  <1> QED BY <1>4 DEF CharFollowsKeys, Follows

-----------------------------------------------------------------------------
(* The line that kbd_gets edits.                                           *)

(* A set of numbers has a least one: induction over a line is by the least *)
(* place where what is to be shown fails.                                  *)
LEMMA LeastOf ==
  ASSUME NEW set \in SUBSET Nat, set # {}
  PROVE  \E i \in set : \A j \in set : i <= j
  <1>1. PICK i \in set : \A j \in set : ~(<<j, i>> \in OpToRel(<, Nat))
    BY NatLessThanWellFounded, WFMin
  <1>2. \A j \in Nat, k \in Nat : <<j, k>> \in OpToRel(<, Nat) <=> j < k
    BY DEF OpToRel
  <1>3. \A j \in Nat, k \in Nat : ~(j < k) => k <= j
    OBVIOUS
  <1> QED BY <1>1, <1>2, <1>3

(* The recursion of Edits over the characters.                             *)
EditsStep(f, chars, k) == f[k] = IF k = 0 THEN <<>> ELSE Corrected(f[k - 1], chars[k])

(* It has a solution up to every character, the line with one more added   *)
(* to the solution before.                                                 *)
LEMMA EditsExist ==
  ASSUME NEW chars \in Seq(Entry), NEW n \in 0 .. Len(chars)
  PROVE  \E f : \A k \in 0 .. n : EditsStep(f, chars, k)
  <1> DEFINE Bad == {m \in Nat : m <= Len(chars) /\
                        ~\E f : \A k \in 0 .. m : EditsStep(f, chars, k)}
  <1>1. SUFFICES ASSUME Bad # {} PROVE FALSE
    BY <1>1
  <1>2. PICK m \in Bad : \A j \in Bad : m <= j
    <2>1. Bad \in SUBSET Nat
      OBVIOUS
    <2> HIDE DEF Bad
    <2> QED BY <1>1, <2>1, LeastOf
  <1>3. m # 0
    <2>1. \A k \in 0 .. 0 : EditsStep([i \in {0} |-> <<>>], chars, k)
      BY DEF EditsStep
    <2> QED BY <2>1
  <1>4. m - 1 \in Nat /\ m - 1 <= Len(chars) /\ m - 1 \notin Bad
    <2>1. m \in Nat /\ m <= Len(chars)
      OBVIOUS
    <2> HIDE DEF Bad
    <2>2. m - 1 \in Nat /\ ~(m <= m - 1)
      BY <1>3, <2>1
    <2> QED BY <1>2, <2>1, <2>2
  <1>5. PICK f : \A k \in 0 .. m - 1 : EditsStep(f, chars, k)
    BY <1>4
  <1> DEFINE g == [k \in 0 .. m |-> IF k = m THEN Corrected(f[m - 1], chars[m]) ELSE f[k]]
  <1>6. ASSUME NEW k \in 0 .. m PROVE EditsStep(g, chars, k)
    <2>1. CASE k = m
      <3>1. g[m] = Corrected(f[m - 1], chars[m]) /\ g[m - 1] = f[m - 1]
        BY <1>4
      <3> HIDE DEF g
      <3> QED BY <1>3, <2>1, <3>1 DEF EditsStep
    <2>2. CASE k # m
      <3>1. k \in 0 .. m - 1 /\ (k # 0 => k - 1 \in 0 .. m - 1)
        BY <2>2
      <3>2. g[k] = f[k] /\ (k # 0 => g[k - 1] = f[k - 1])
        BY <2>2, <3>1
      <3> HIDE DEF g
      <3> QED BY <1>5, <3>1, <3>2 DEF EditsStep
    <2> QED BY <2>1, <2>2
  <1> HIDE DEF g
  <1> QED BY <1>2, <1>6

(* Hence the function that Edits names satisfies it.                       *)
LEMMA EditsIs ==
  ASSUME NEW chars \in Seq(Entry)
  PROVE  \A k \in 0 .. Len(chars) : EditsStep(Edits(chars), chars, k)
  <1> DEFINE N == Len(chars)
  <1>1. PICK f : \A k \in 0 .. N : EditsStep(f, chars, k)
    <2>1. N \in 0 .. N
      OBVIOUS
    <2> QED BY <2>1, EditsExist
  <1> DEFINE Fixed(g) == g = [k \in 0 .. N |-> IF k = 0 THEN <<>>
                                               ELSE Corrected(g[k - 1], chars[k])]
             h == [k \in 0 .. N |-> f[k]]
  <1>2. Fixed(h)
    <2>1. ASSUME NEW k \in 0 .. N
          PROVE  h[k] = IF k = 0 THEN <<>> ELSE Corrected(h[k - 1], chars[k])
      <3>1. h[k] = f[k] /\ (k # 0 => h[k - 1] = f[k - 1])
        OBVIOUS
      <3> HIDE DEF h
      <3> QED BY <1>1, <3>1 DEF EditsStep
    <2>2. h = [k \in 0 .. N |-> h[k]]
      OBVIOUS
    <2> HIDE DEF h
    <2> QED BY <2>1, <2>2
  <1>3. Edits(chars) = CHOOSE g : Fixed(g)
    BY DEF Edits
  <1>4. Fixed(Edits(chars))
    <2> HIDE DEF Fixed
    <2> QED BY <1>2, <1>3
  <1> QED BY <1>4 DEF EditsStep

(* One more character leaves the lines of the others as they are.          *)
LEMMA EditsOfAppend ==
  ASSUME NEW chars \in Seq(Entry), NEW c \in Entry
  PROVE  LET more == Append(chars, c)
         IN  /\ \A k \in 0 .. Len(chars) : Edits(more)[k] = Edits(chars)[k]
             /\ Edits(more)[Len(more)] = Corrected(Edits(chars)[Len(chars)], c)
  <1> DEFINE more == Append(chars, c)
             N == Len(chars)
             Bad == {k \in 0 .. N : Edits(more)[k] # Edits(chars)[k]}
  <1>1. /\ more \in Seq(Entry) /\ Len(more) = N + 1 /\ N \in Nat
        /\ more[N + 1] = c
        /\ \A k \in 1 .. N : more[k] = chars[k]
    OBVIOUS
  <1>2. \A k \in 0 .. N + 1 : EditsStep(Edits(more), more, k)
    BY <1>1, EditsIs
  <1>3. \A k \in 0 .. N : EditsStep(Edits(chars), chars, k)
    BY EditsIs
  <1> HIDE DEF more
  <1>4. Bad = {}
    <2> SUFFICES ASSUME Bad # {} PROVE FALSE
      OBVIOUS
    <2>1. PICK k \in Bad : \A j \in Bad : k <= j
      <3>1. Bad \in SUBSET Nat
        BY <1>1
      <3> HIDE DEF Bad
      <3> QED BY <3>1, LeastOf
    <2>2. k \in 0 .. N /\ Edits(more)[k] # Edits(chars)[k]
      OBVIOUS
    <2>3. k # 0
      BY <1>1, <1>2, <1>3, <2>2 DEF EditsStep
    <2>4. k - 1 \in 0 .. N /\ k \in 1 .. N
      BY <1>1, <2>2, <2>3
    <2>5. k - 1 \notin Bad
      <3> HIDE DEF Bad
      <3>1. ~(k <= k - 1)
        BY <2>4
      <3> QED BY <2>1, <3>1
    <2>6. Edits(more)[k - 1] = Edits(chars)[k - 1]
      BY <2>4, <2>5
    <2>7. k \in 0 .. N + 1
      BY <1>1, <2>4
    <2> HIDE DEF Bad
    <2> QED BY <1>1, <1>2, <1>3, <2>2, <2>3, <2>4, <2>6, <2>7 DEF EditsStep
  <1>5. \A k \in 0 .. N : Edits(more)[k] = Edits(chars)[k]
    BY <1>4
  <1>6. Edits(more)[N + 1] = Corrected(Edits(more)[N], c)
    <2>1. N + 1 \in 0 .. N + 1 /\ N + 1 # 0 /\ N + 1 - 1 = N
      BY <1>1
    <2> QED BY <1>1, <1>2, <2>1 DEF EditsStep
  <1>7. N \in 0 .. N
    BY <1>1
  <1> QED BY <1>1, <1>5, <1>6, <1>7 DEF more

(* The lines consist of the characters that a line may hold.               *)
Plain == {c \in Entry : c.kind = "plain"}

LEMMA CorrectedIs ==
  ASSUME NEW done \in Seq(Plain), NEW c \in Entry
  PROVE  /\ Corrected(done, c) \in Seq(Plain)
         /\ c.kind = "plain" => Corrected(done, c) = Append(done, c)
         /\ c.kind = "back" /\ done # <<>> =>
               /\ Len(done) > 0
               /\ Len(Corrected(done, c)) = Len(done) - 1
               /\ \A i \in 1 .. Len(done) - 1 : Corrected(done, c)[i] = done[i]
         /\ c.kind \in {"enter", "nul"} => Corrected(done, c) = done
  <1>1. CASE c.kind = "plain"
    <2>1. Corrected(done, c) = Append(done, c) /\ c \in Plain
      BY <1>1 DEF Corrected, Plain
    <2> QED BY <1>1, <2>1
  <1>2. CASE c.kind = "back" /\ done # <<>>
    <2>1. Corrected(done, c) = SubSeq(done, 1, Len(done) - 1)
      BY <1>2 DEF Corrected, Front
    <2>2. Len(done) \in Nat /\ Len(done) > 0
      BY <1>2
    <2>3. \A i \in 1 .. Len(done) - 1 : done[i] \in Plain
      OBVIOUS
    <2>4. /\ SubSeq(done, 1, Len(done) - 1) \in Seq(Plain)
          /\ Len(SubSeq(done, 1, Len(done) - 1)) = Len(done) - 1
          /\ \A i \in 1 .. Len(done) - 1 : SubSeq(done, 1, Len(done) - 1)[i] = done[i]
      <3> DEFINE n == Len(done) - 1
      <3>1. n \in Int /\ n >= 0 /\ n - 1 + 1 = n /\ \A i \in 1 .. n : done[i] \in Plain
        BY <2>2, <2>3
      <3> HIDE DEF n
      <3>2. /\ SubSeq(done, 1, n) \in Seq(Plain)
            /\ Len(SubSeq(done, 1, n)) = IF 1 <= n THEN n - 1 + 1 ELSE 0
            /\ \A i \in 1 .. n - 1 + 1 : SubSeq(done, 1, n)[i] = done[1 + i - 1]
        BY <3>1, SubSeqProperties
      <3>3. \A i \in 1 .. n : 1 + i - 1 = i
        BY <3>1
      <3> QED BY <3>1, <3>2, <3>3 DEF n
    <2> QED BY <1>2, <2>1, <2>2, <2>4
  <1>3. CASE c.kind # "plain" /\ ~(c.kind = "back" /\ done # <<>>)
    <2>1. Corrected(done, c) = done
      BY <1>3 DEF Corrected
    <2> QED BY <1>3, <2>1
  <1> QED BY <1>1, <1>2, <1>3

LEMMA EditsType ==
  ASSUME NEW chars \in Seq(Entry), NEW n \in 0 .. Len(chars)
  PROVE  Edits(chars)[n] \in Seq(Plain)
  <1> DEFINE Bad == {k \in 0 .. Len(chars) : Edits(chars)[k] \notin Seq(Plain)}
  <1>1. \A k \in 0 .. Len(chars) : EditsStep(Edits(chars), chars, k)
    BY EditsIs
  <1>2. SUFFICES ASSUME Bad # {} PROVE FALSE
    BY <1>2
  <1>3. PICK k \in Bad : \A j \in Bad : k <= j
    <2>1. Bad \in SUBSET Nat
      OBVIOUS
    <2> HIDE DEF Bad
    <2> QED BY <1>2, <2>1, LeastOf
  <1>4. k \in 0 .. Len(chars) /\ Edits(chars)[k] \notin Seq(Plain)
    OBVIOUS
  <1>5. k # 0
    <2>1. 0 \in 0 .. Len(chars) /\ <<>> \in Seq(Plain)
      OBVIOUS
    <2>2. Edits(chars)[0] = <<>>
      BY <1>1, <2>1 DEF EditsStep
    <2> QED BY <1>4, <2>1, <2>2
  <1>6. k - 1 \in 0 .. Len(chars) /\ k \in 1 .. Len(chars)
    BY <1>4, <1>5
  <1>7. Edits(chars)[k - 1] \in Seq(Plain)
    <2>1. k - 1 \notin Bad
      <3> HIDE DEF Bad
      <3>1. ~(k <= k - 1)
        BY <1>6
      <3> QED BY <1>3, <3>1
    <2> QED BY <1>6, <2>1
  <1>8. Edits(chars)[k] = Corrected(Edits(chars)[k - 1], chars[k])
    BY <1>1, <1>4, <1>5 DEF EditsStep
  <1>9. chars[k] \in Entry
    BY <1>6
  <1> QED BY <1>4, <1>7, <1>8, <1>9, CorrectedIs

-----------------------------------------------------------------------------
(* While kbd_getc has met no backspace on an empty line, the count is the  *)
(* length of the line with its corrections, which has room for one more    *)
(* character unless it is complete, and out holds it.                      *)
GetsSound ==
    /\ line \in Seq(Entry)
    /\ DOMAIN out = Cells
    /\ ~UnderEdit =>
          /\ read = Len(Edited)
          /\ read <= maxlen - 1
          /\ getc.at # "idle" => read < maxlen - 1
          /\ \A i \in 0 .. maxlen - 1 :
                out[i] = IF i < read THEN Edited[i + 1] ELSE NUL

LEMMA CellsAre == 0 .. maxlen - 1 \subseteq Cells
  BY DEF Cells

LEMMA EmptyLine ==
  /\ <<>> \in Seq(Entry)
  /\ Edits(<<>>)[0] = <<>>
  <1>1. <<>> \in Seq(Entry) /\ Len(<<>>) = 0
    OBVIOUS
  <1>2. EditsStep(Edits(<<>>), <<>>, 0)
    <2>1. 0 \in 0 .. Len(<<>>)
      BY <1>1
    <2> QED BY <1>1, <2>1, EditsIs
  <1> QED BY <1>1, <1>2 DEF EditsStep

LEMMA GetsInit == Init => GetsSound
  <1> SUFFICES ASSUME Init PROVE GetsSound
    OBVIOUS
  <1>1. line = <<>> /\ Edited = <<>>
    BY EmptyLine DEF Init, Edited
  <1> QED BY <1>1, EmptyLine, CellsAre DEF Init, GetsSound, Idle

(* What a character does to the line, and what TakeChar does to out.       *)
LEMMA GetsTake ==
  ASSUME GetsSound, getc.c \in Entry, Return
  PROVE  GetsSound'
  <1> DEFINE c == getc.c
             N == Len(line)
  <1>1. /\ line \in Seq(Entry) /\ line' = Append(line, c) /\ c \in Entry
        /\ N \in Nat /\ Len(line') = N + 1 /\ line' \in Seq(Entry)
        /\ line'[N + 1] = c /\ \A k \in 1 .. N : line'[k] = line[k]
    BY DEF GetsSound, Return
  <1>2. TakeChar(c) /\ DOMAIN out = Cells /\ DOMAIN out' = Cells
    <2>1. TakeChar(c) /\ DOMAIN out = Cells
      BY DEF GetsSound, Return
    <2>2. c.kind \in {"plain", "back", "enter", "nul"}
      BY <1>1 DEF Entry, Kinds
    <2> HIDE DEF c
    <2> QED BY <2>1, <2>2 DEF TakeChar
  <1>3. SUFFICES ASSUME ~UnderEdit'
                 PROVE  /\ read' = Len(Edited')
                        /\ read' <= maxlen - 1
                        /\ getc'.at # "idle" => read' < maxlen - 1
                        /\ \A i \in 0 .. maxlen - 1 :
                              out'[i] = IF i < read' THEN Edited'[i + 1] ELSE NUL
    BY <1>1, <1>2 DEF GetsSound
  <1>4. /\ \A k \in 0 .. N : Edits(line')[k] = Edits(line)[k]
        /\ Edited' = Corrected(Edited, c)
    BY <1>1, EditsOfAppend DEF Edited
  <1>5. ~UnderEdit /\ (c.kind = "back" => Edited # <<>>)
    <2>1. ASSUME UnderEdit PROVE FALSE
      <3>1. PICK k \in 1 .. N : line[k].kind = "back" /\ Edits(line)[k - 1] = <<>>
        BY <2>1 DEF UnderEdit
      <3>2. k \in 1 .. Len(line') /\ k - 1 \in 0 .. N
        BY <1>1
      <3>3. line'[k].kind = "back" /\ Edits(line')[k - 1] = <<>>
        BY <1>1, <1>4, <3>1, <3>2
      <3> QED BY <1>3, <3>2, <3>3 DEF UnderEdit
    <2>2. ASSUME c.kind = "back", Edited = <<>> PROVE FALSE
      <3>1. N + 1 \in 1 .. Len(line') /\ N + 1 - 1 = N /\ N \in 0 .. N
        BY <1>1
      <3>2. line'[N + 1].kind = "back" /\ Edits(line')[N + 1 - 1] = <<>>
        BY <1>1, <1>4, <2>2, <3>1 DEF Edited
      <3> QED BY <1>3, <3>1, <3>2 DEF UnderEdit
    <2> QED BY <2>1, <2>2
  <1>6. Edited \in Seq(Plain)
    BY <1>1, EditsType DEF Edited
  <1>7. /\ read = Len(Edited) /\ read \in Nat /\ read < maxlen - 1
        /\ \A i \in 0 .. maxlen - 1 :
              out[i] = IF i < read THEN Edited[i + 1] ELSE NUL
    <2>1. read = Len(Edited) /\ read \in Nat
      BY <1>5, <1>6 DEF GetsSound
    <2>2. getc.at # "idle"
      BY DEF Return
    <2> QED BY <1>5, <2>1, <2>2 DEF GetsSound
  <1>8. getc'.at # "idle" => ~EndsLine(c)
    BY DEF Return, Idle
  <1>9. c.kind \in {"plain", "back", "enter", "nul"}
    BY <1>1 DEF Entry, Kinds
  <1> DEFINE e == Edited
             f == Edited'
  <1> HIDE DEF c, e, f
  <1>10. CASE c.kind = "plain"
    <2>1. read' = read + 1 /\ out' = [out EXCEPT ![read] = c]
      BY <1>2, <1>10 DEF TakeChar
    <2>2. f = Append(e, c) /\ e \in Seq(Plain) /\ c \in Entry /\ Len(e) = read
      BY <1>1, <1>4, <1>6, <1>7, <1>10, CorrectedIs DEF e, f
    <2>3. /\ Len(f) = read' /\ f[read + 1] = c
          /\ \A i \in 1 .. read : f[i] = e[i]
      BY <1>7, <2>1, <2>2
    <2>4. ASSUME NEW i \in 0 .. maxlen - 1
          PROVE  out'[i] = IF i < read' THEN f[i + 1] ELSE NUL
      <3>1. i \in Cells /\ out[i] = IF i < read THEN e[i + 1] ELSE NUL
        BY <1>7, CellsAre DEF e
      <3>2. CASE i = read
        BY <1>2, <1>7, <2>1, <2>3, <3>1, <3>2
      <3>3. CASE i < read
        <4>1. out'[i] = out[i] /\ i + 1 \in 1 .. read /\ i < read'
          BY <1>7, <2>1, <3>1, <3>3
        <4> QED BY <2>3, <3>1, <3>3, <4>1
      <3>4. CASE i > read
        <4>1. out'[i] = out[i] /\ ~(i < read') /\ ~(i < read)
          BY <1>7, <2>1, <3>1, <3>4
        <4> QED BY <3>1, <4>1
      <3> QED BY <1>7, <3>2, <3>3, <3>4
    <2>5. getc'.at # "idle" => read' < maxlen - 1
      BY <1>7, <1>8, <2>1 DEF EndsLine
    <2> QED BY <1>7, <2>1, <2>3, <2>4, <2>5 DEF f
  <1>11. CASE c.kind = "back"
    <2>1. read' = read - 1 /\ out' = [out EXCEPT ![read - 1] = NUL]
      BY <1>2, <1>11 DEF TakeChar
    <2>2. /\ read > 0 /\ Len(f) = read - 1
          /\ \A i \in 1 .. read - 1 : f[i] = e[i]
      BY <1>1, <1>4, <1>5, <1>6, <1>7, <1>11, CorrectedIs DEF e, f
    <2>3. ASSUME NEW i \in 0 .. maxlen - 1
          PROVE  out'[i] = IF i < read' THEN f[i + 1] ELSE NUL
      <3>1. i \in Cells /\ out[i] = IF i < read THEN e[i + 1] ELSE NUL
        BY <1>7, CellsAre DEF e
      <3>2. CASE i = read - 1
        BY <1>2, <1>7, <2>1, <3>1, <3>2
      <3>3. CASE i < read - 1
        <4>1. out'[i] = out[i] /\ i + 1 \in 1 .. read - 1 /\ i < read' /\ i < read
          BY <1>7, <2>1, <3>1, <3>3
        <4> QED BY <2>2, <3>1, <4>1
      <3>4. CASE i > read - 1
        <4>1. out'[i] = out[i] /\ ~(i < read') /\ ~(i < read)
          BY <1>7, <2>1, <3>1, <3>4
        <4> QED BY <3>1, <4>1
      <3> QED BY <1>7, <3>2, <3>3, <3>4
    <2> QED BY <1>7, <2>1, <2>2, <2>3 DEF f
  <1>12. CASE c.kind \in {"enter", "nul"}
    <2>1. read' = read /\ out' = out
      BY <1>2, <1>12 DEF TakeChar
    <2>2. Edited' = Edited
      BY <1>1, <1>4, <1>6, <1>12, CorrectedIs
    <2> QED BY <1>7, <2>1, <2>2
  <1> QED BY <1>9, <1>10, <1>11, <1>12

LEMMA GetsNext ==
  ASSUME GetsSound, getc.c \in Entry, [Next]_vars
  PROVE  GetsSound'
  <1>1. CASE Return
    BY <1>1, GetsTake
  <1>2. CASE kbd_gets
    <2>1. /\ out' = [i \in Cells |-> IF i >= 0 THEN NUL ELSE out[i]]
          /\ read' = 0 /\ line' = <<>> /\ maxlen > 1
      BY <1>2 DEF kbd_gets
    <2>2. Edited' = <<>>
      BY <2>1, EmptyLine DEF Edited
    <2> QED BY <2>1, <2>2, EmptyLine, CellsAre DEF GetsSound
  <1>3. CASE UNCHANGED <<read, out, line>> /\ (getc'.at # "idle" => getc.at # "idle")
    BY <1>3 DEF GetsSound, Edited, UnderEdit
  <1>4. CASE LoadHead \/ CompareTail \/ LoadTail \/ LoadChar \/ LoadTailAgain
                \/ StoreTail
    <2>1. UNCHANGED <<read, out, line>> /\ getc.at # "idle"
      BY <1>4 DEF LoadHead, CompareTail, LoadTail, LoadChar, LoadTailAgain, StoreTail
    <2> QED BY <1>3, <2>1
  <1>5. CASE KeyboardDriverMain \/ UNCHANGED vars
    <2>1. UNCHANGED <<read, out, line, getc>>
      BY <1>5 DEF KeyboardDriverMain, vars
    <2> QED BY <1>3, <2>1
  <1> QED BY <1>1, <1>2, <1>4, <1>5 DEF Next, Reader

(* What kbd_gets returns is its count.                                     *)
LEMMA GetsReturns ==
  ASSUME GetsSound
  PROVE  LineIsEdited
  <1> SUFFICES ASSUME ~UnderEdit
               PROVE  /\ Returned = Len(Edited)
                      /\ \A i \in 0 .. maxlen - 1 :
                            out[i] = IF i < Returned THEN Edited[i + 1] ELSE NUL
    BY DEF LineIsEdited
  <1>1. line \in Seq(Entry) /\ Edited \in Seq(Plain)
    <2>1. line \in Seq(Entry) /\ Len(line) \in 0 .. Len(line)
      BY DEF GetsSound
    <2> QED BY <2>1, EditsType DEF Edited
  <1>2. /\ read = Len(Edited) /\ read \in 0 .. maxlen - 1
        /\ \A i \in 0 .. maxlen - 1 :
              out[i] = IF i < read THEN Edited[i + 1] ELSE NUL
    BY <1>1 DEF GetsSound
  <1>3. \A i \in 0 .. read - 1 : out[i] # NUL
    <2>1. \A i \in 1 .. read : Edited[i] # NUL
      BY <1>1, <1>2 DEF Plain, NUL
    <2>2. \A i \in 0 .. read - 1 : i + 1 \in 1 .. read /\ i \in 0 .. maxlen - 1 /\ i < read
      BY <1>2
    <2> QED BY <1>2, <2>1, <2>2
  <1>4. out[read] = NUL
    BY <1>2
  <1> DEFINE Ends(i) == out[i] = NUL /\ \A j \in 0 .. i - 1 : out[j] # NUL
  <1>5. Ends(read)
    BY <1>3, <1>4
  <1>6. ASSUME NEW i \in 0 .. maxlen - 1, Ends(i) PROVE i = read
    <2>1. ~(i < read)
      BY <1>2, <1>3, <1>6
    <2>2. ~(read < i)
      BY <1>2, <1>4, <1>6
    <2> QED BY <1>2, <2>1, <2>2
  <1>7. Returned = read
    <2>1. Returned = CHOOSE i \in 0 .. maxlen - 1 : Ends(i)
      BY DEF Returned
    <2> HIDE DEF Ends
    <2> QED BY <1>2, <1>5, <1>6, <2>1
  <1> QED BY <1>2, <1>7

(* For any ring and length of out, and whatever overflows: as long as no   *)
(* backspace has met an empty line, out is the line with its corrections,  *)
(* ended by a NUL inside out, and its length is what kbd_gets returns.     *)
THEOREM LineIsWhatWasTyped == Spec => []LineIsEdited
  <1>1. Init => Inv /\ GetsSound
    BY InitInv, GetsInit
  <1>2. Inv /\ GetsSound /\ [Next]_vars => Inv' /\ GetsSound'
    <2>1. Inv => getc.c \in Entry
      BY DEF Inv, RingTypeOK
    <2> QED BY <2>1, NextInv, GetsNext
  <1>3. GetsSound => LineIsEdited
    BY GetsReturns
  <1> QED BY <1>1, <1>2, <1>3, PTL DEF Spec
=============================================================================
